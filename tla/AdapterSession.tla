--------------------------- MODULE AdapterSession ---------------------------
(***************************************************************************)
(* The contract of adapter.Session (internal/adapter/backend.go), which    *)
(* every adapter keeps towards forwardEvents: messages until the Messages  *)
(* channel is closed, exactly one value on Result, then its close. The two *)
(* channels are independent: forwardEvents reads Result only after the     *)
(* close of Messages, and gives up after resultWaitTimeout.                *)
(***************************************************************************)
EXTENDS Sequences

CONSTANT Outcomes   \* what an adapter may put on Result

VARIABLES
  messages,   \* Messages: "open" or "closed"
  result,     \* everything ever put on Result
  resultOpen  \* Result is not closed

vars == <<messages, result, resultOpen>>

Init == messages = "open" /\ result = <<>> /\ resultOpen = TRUE

Report ==
  /\ resultOpen /\ result = <<>>
  /\ \E o \in Outcomes : result' = <<o>>
  /\ UNCHANGED <<messages, resultOpen>>

CloseResult ==
  /\ resultOpen /\ result # <<>>
  /\ resultOpen' = FALSE
  /\ UNCHANGED <<messages, result>>

CloseMessages ==
  /\ messages = "open"
  /\ messages' = "closed"
  /\ UNCHANGED <<result, resultOpen>>

Next == Report \/ CloseResult \/ CloseMessages

Spec == Init /\ [][Next]_vars
=============================================================================
