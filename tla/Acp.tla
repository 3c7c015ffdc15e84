-------------------------------- MODULE Acp --------------------------------
(***************************************************************************)
(* The adapter of the eight CLIs that speak the Agent Client Protocol      *)
(* (internal/adapter/acp.go): a JSON-RPC handshake over stdin and stdout,  *)
(*   initialize, session/new or session/load, session/prompt,              *)
(* then notifications until session/finished or session/error. One         *)
(* goroutine drives the handshake, waits for the process and reports one   *)
(* Result; a watcher writes session/cancel on the same stdin when the      *)
(* context is done. Requests have fixed ids, and every line with an id is  *)
(* taken for the response to one of them.                                  *)
(***************************************************************************)
EXTENDS Integers, Sequences

CONSTANTS
  Resume,       \* the caller set ResumeSessionID
  GivesMcp,     \* the caller set McpConfig
  MaxStrays     \* bound: stray responses, of which a CLI may write any number

ASSUME AcpAssumption == Resume \in BOOLEAN /\ GivesMcp \in BOOLEAN /\ MaxStrays \in Nat

VARIABLES
  mcp,      \* the MCP config file: "none", "requested", "temp", "removed"
  pc,       \* where Execute, then the driving goroutine, is
  step,     \* the request it writes next
  seen,     \* finalStatus, sessionID and whether output has any text
  waitErr,  \* cmd.Wait returned an error
  lock,     \* acpStdin.mu: "free", "driver" or "watcher"
  watcher,  \* "none", "waiting", "locking" or "gone"
  stdin,    \* our end of the stdin pipe: "open" or "closed"
  process,  \* the CLI: "none", "running", "mute" (stdout closed), "exited"
  exit,     \* its exit status: "none", "zero", "error"
  helper,   \* a descendant that inherited the pipes: "none", "alive", "gone"
  ctx,      \* runCtx: "live", "cancelled" or "expired"
  messages, result, resultOpen,  \* as in AdapterSession
  sent,     \* history: the requests the driver wrote, in order
  unanswered,  \* history: ids of requests the CLI has not answered
  strays,   \* history: responses read that answered nothing
  told      \* history: what went wrong in the lines and the scan

sessionVars == <<messages, result, resultOpen>>
processVars == <<process, exit, helper>>
stdinVars   == <<lock, stdin, sent, unanswered>>
vars == <<mcp, pc, step, seen, waitErr, watcher, stdinVars, processVars, ctx, sessionVars, strays, told>>

SessionIds == {"none", "asked", "fresh"}
Asked == IF Resume THEN "asked" ELSE "none"

\* acpIDInitialize and its companions.
Id == [initialize |-> 1, session |-> 2, prompt |-> 3, cancel |-> 99]
Methods == DOMAIN Id
Ids == {Id[r] : r \in Methods}

CancelContext == ctx' = IF ctx = "live" THEN "cancelled" ELSE ctx

-----------------------------------------------------------------------------
(* The lines a CLI may write. Any line with an id is a response to the code: *)
(* the answer to a request of ours, in any order, or a stray one: a second    *)
(* answer, one that comes too early, or a request of the CLI's own.           *)

ResponseKinds == {"response", "errorResponse"}

Lines ==
  {l \in [kind : ResponseKinds \cup {"text", "block", "finished", "error", "noise"},
          id : Ids \cup {0}, session : SessionIds] :
     /\ l.id = 0 <=> l.kind \notin ResponseKinds
     /\ l.session # "none" => l.kind \in {"text", "block", "finished"} \/ (l.kind = "response" /\ l.id = 2)
     /\ l.session = "asked" => Resume}

Stray(l) == l.kind \in ResponseKinds /\ l.id \notin unanswered

Arrives(l) == Stray(l) => strays < MaxStrays

-----------------------------------------------------------------------------
(* Execute *)

executeLeaves == <<step, seen, waitErr, lock, sent, unanswered, exit, helper, sessionVars, strays, told>>

\* writeMcpConfigToTemp
WriteMcpConfig ==
  /\ pc = "prepare"
  /\ \/ pc' = "start" /\ mcp' = "temp" /\ UNCHANGED ctx
     \/ pc' = "refused" /\ mcp' = "removed" /\ CancelContext
  /\ UNCHANGED <<watcher, stdin, process, executeLeaves>>

StartProcess ==
  /\ pc = "start" /\ ctx = "live"
  /\ pc' = "lock" /\ process' = "running" /\ watcher' = "waiting" /\ stdin' = "open"
  /\ UNCHANGED <<mcp, ctx, executeLeaves>>

\* A pipe cannot be made or the process not started.
StartFails ==
  /\ pc = "start"
  /\ pc' = "refused" /\ CancelContext
  /\ mcp' = IF mcp = "temp" THEN "removed" ELSE mcp
  /\ UNCHANGED <<watcher, stdin, process, executeLeaves>>

Execute == WriteMcpConfig \/ StartProcess \/ StartFails

-----------------------------------------------------------------------------
(* acpStdin.writeRequest: the lock, then a write that blocks while the pipe is *)
(* full and fails when nobody can read it any more.                            *)

StdinBroken == stdin = "closed" \/ (process = "exited" /\ helper # "alive")

Request(method) ==
  [method |-> method, session |-> IF method = "prompt" THEN seen.session
                                  ELSE IF method = "session" THEN Asked ELSE "none"]

Lock(who) == lock = "free" /\ lock' = who /\ UNCHANGED <<stdin, sent, unanswered>>

Write(who, method) ==
  /\ lock = who /\ lock' = "free"
  /\ \/ /\ ~StdinBroken
        /\ sent' = IF who = "driver" THEN Append(sent, Request(method)) ELSE sent
        /\ unanswered' = unanswered \cup {Id[method]}
     \/ StdinBroken /\ UNCHANGED <<sent, unanswered>>
  /\ UNCHANGED stdin

writeLeaves == <<mcp, seen, waitErr, processVars, ctx, sessionVars, strays, told>>

\* A failed write is logged and the scan goes on.
DriverLocks  == pc = "lock" /\ Lock("driver") /\ pc' = "write" /\ UNCHANGED <<step, watcher, writeLeaves>>
DriverWrites == pc = "write" /\ Write("driver", step) /\ pc' = "scan" /\ UNCHANGED <<step, watcher, writeLeaves>>

\* <-done has happened.
DoneClosed == pc \in {"closeResult", "closeMessages", "cancel", "done"}

\* Both cases of the watcher's select may be ready.
WatcherWakes ==
  /\ watcher = "waiting"
  /\ \/ ctx # "live" /\ watcher' = "locking"
     \/ DoneClosed /\ watcher' = "gone"
  /\ UNCHANGED <<pc, step, stdinVars, writeLeaves>>
WatcherLocks ==
  /\ watcher = "locking" /\ Lock("watcher")
  /\ UNCHANGED <<pc, step, watcher, writeLeaves>>
WatcherWrites ==
  /\ watcher = "locking" /\ Write("watcher", "cancel") /\ watcher' = "gone"
  /\ UNCHANGED <<pc, step, writeLeaves>>

-----------------------------------------------------------------------------
(* processAcpEvents *)

WithSession(s, id) == IF id = "none" THEN s ELSE [s EXCEPT !.session = id]

scanLeaves == <<mcp, waitErr, lock, watcher, processVars, ctx, sessionVars, sent>>

\* The switch on the id of a response without an error.
Answer(l) ==
  /\ l.kind = "response"
  /\ CASE l.id = Id.initialize -> pc' = "lock" /\ step' = "session" /\ UNCHANGED seen
       [] l.id = Id.session    -> /\ pc' = "lock" /\ step' = "prompt"
                                  /\ seen' = IF l.session = "none" /\ seen.session = "none"
                                             THEN [seen EXCEPT !.session = Asked]
                                             ELSE WithSession(seen, l.session)
       [] OTHER -> UNCHANGED <<pc, step, seen>>
  /\ UNCHANGED stdin

\* Mutant: an error is looked for in the responses of the handshake only.
HandshakeErrorsOnly(l) ==
  /\ l.kind \in {"error", "errorResponse"}
  /\ IF l.kind = "errorResponse" /\ l.id = Id.prompt
     THEN UNCHANGED <<pc, seen, stdin>>
     ELSE seen' = [seen EXCEPT !.status = "failed"] /\ stdin' = "closed" /\ pc' = "wait"
  /\ UNCHANGED step

\* session/error, or a response with an error: the end of the turn.
Error(l) ==
  /\ l.kind \in {"error", "errorResponse"}
  /\ seen' = [seen EXCEPT !.status = "failed"]
  /\ stdin' = "closed" /\ pc' = "wait"
  /\ UNCHANGED step

\* handleAcpSessionMessage: one text of the answer, or another kind of block.
SessionMessage(l) ==
  /\ l.kind \in {"text", "block"}
  /\ seen' = [WithSession(seen, l.session) EXCEPT !.text = @ \/ l.kind = "text"]
  /\ UNCHANGED <<pc, step, stdin>>

\* handleAcpFinished
SessionFinished(l) ==
  /\ l.kind = "finished"
  /\ seen' = WithSession(seen, l.session)
  /\ stdin' = "closed" /\ pc' = "wait"
  /\ UNCHANGED step

\* A banner, a log line, a notification nobody knows.
Skip(l) == l.kind = "noise" /\ UNCHANGED <<seen, pc, step, stdin>>

Notification(l) == SessionMessage(l) \/ SessionFinished(l) \/ Skip(l)

\* The history of what was read.
Heard(l) ==
  /\ unanswered' = IF l.kind \in ResponseKinds THEN unanswered \ {l.id} ELSE unanswered
  /\ strays' = IF Stray(l) THEN strays + 1 ELSE strays
  /\ told' = IF l.kind \in {"error", "errorResponse"} THEN told \cup {"error"} ELSE told

\* Mutant: the prompt follows whichever response comes next.
ReadLineInOrder(l) ==
  /\ pc = "scan" /\ Arrives(l)
  /\ \/ l.kind = "response" /\ pc' = "lock" /\ step' = "prompt" /\ UNCHANGED <<seen, stdin>>
     \/ Error(l) \/ Notification(l)
  /\ Heard(l)
  /\ UNCHANGED scanLeaves

ReadLine(l) ==
  /\ pc = "scan" /\ Arrives(l)
  /\ Answer(l) \/ Error(l) \/ Notification(l)
  /\ Heard(l)
  /\ UNCHANGED scanLeaves

EndOfStdout == process \in {"mute", "exited"} /\ helper # "alive"

ScanEnds ==
  /\ pc = "scan" /\ EndOfStdout
  /\ pc' = "wait"
  /\ UNCHANGED <<step, seen, stdin, strays, told, unanswered, scanLeaves>>

\* A line longer than the scanner's buffer.
ScanFails ==
  /\ pc = "scan" /\ process # "none"
  /\ seen' = [seen EXCEPT !.status = "failed"]
  /\ told' = told \cup {"scan"}
  /\ pc' = "wait"
  /\ UNCHANGED <<step, stdin, strays, unanswered, scanLeaves>>

-----------------------------------------------------------------------------
(* The rest of the goroutine *)

finishLeaves == <<step, seen, lock, sent, unanswered, watcher, processVars, strays, told>>

\* cmd.Wait: an exit status, or ErrWaitDelay when a descendant kept the pipe of
\* stderr; it closes our end of stdin. Nothing more is read from stdout.
WaitReturns ==
  /\ pc = "wait" /\ process = "exited"
  /\ waitErr' \in {exit = "error"} \cup (IF helper = "alive" THEN {TRUE} ELSE {})
  /\ stdin' = "closed"
  /\ pc' = "report"
  /\ UNCHANGED <<mcp, ctx, sessionVars, finishLeaves>>

Verdict ==
  CASE ctx = "expired"   -> "timeout"
    [] ctx = "cancelled" -> "aborted"
    [] ctx = "live" /\ waitErr -> "failed"
    [] OTHER -> seen.status

\* resolveSessionID
ReportedId(status) ==
  IF status = "failed" /\ Resume /\ seen.session = "fresh" THEN "none" ELSE seen.session

\* Mutant: nobody is told of a run whose context is done.
ReportUnlessDone ==
  /\ pc = "report"
  /\ result' = IF ctx # "live" THEN result
               ELSE Append(result, [status |-> Verdict, session |-> ReportedId(Verdict), text |-> seen.text])
  /\ pc' = "closeDone"
  /\ UNCHANGED <<mcp, waitErr, stdin, ctx, messages, resultOpen, finishLeaves>>

Report ==
  /\ pc = "report"
  /\ result' = Append(result, [status |-> Verdict, session |-> ReportedId(Verdict), text |-> seen.text])
  /\ pc' = "closeDone"
  /\ UNCHANGED <<mcp, waitErr, stdin, ctx, messages, resultOpen, finishLeaves>>

\* The deferred calls: os.Remove and close(done), the channels, cancel.
CloseDone ==
  /\ pc = "closeDone" /\ pc' = "closeResult"
  /\ mcp' = IF mcp = "temp" THEN "removed" ELSE mcp
  /\ UNCHANGED <<waitErr, stdin, ctx, sessionVars, finishLeaves>>

CloseResult ==
  /\ pc = "closeResult" /\ pc' = "closeMessages"
  /\ resultOpen' = FALSE
  /\ UNCHANGED <<mcp, waitErr, stdin, ctx, messages, result, finishLeaves>>

CloseMessages ==
  /\ pc = "closeMessages" /\ pc' = "cancel"
  /\ messages' = "closed"
  /\ UNCHANGED <<mcp, waitErr, stdin, ctx, result, resultOpen, finishLeaves>>

CancelOnReturn ==
  /\ pc = "cancel" /\ pc' = "done"
  /\ CancelContext
  /\ UNCHANGED <<mcp, waitErr, stdin, sessionVars, finishLeaves>>

Finish == WaitReturns \/ Report \/ CloseDone \/ CloseResult \/ CloseMessages \/ CancelOnReturn

-----------------------------------------------------------------------------
(* The context and the process *)

processLeaves == <<mcp, pc, step, seen, waitErr, watcher, stdinVars, ctx, sessionVars, strays, told>>

ContextEnds ==
  /\ ctx = "live" /\ ctx' \in {"cancelled", "expired"}
  /\ UNCHANGED <<mcp, pc, step, seen, waitErr, watcher, stdinVars, processVars, sessionVars, strays, told>>

ProcessStops ==
  /\ \/ process = "running" /\ process' = "mute" /\ UNCHANGED exit
     \/ process \in {"running", "mute"} /\ process' = "exited" /\ exit' \in {"zero", "error"}
  /\ UNCHANGED <<helper, processLeaves>>

HelperLives ==
  /\ \/ process = "running" /\ helper = "none" /\ helper' = "alive"
     \/ helper = "alive" /\ helper' = "gone"
  /\ UNCHANGED <<process, exit, processLeaves>>

\* Mutant: the server is given the time to read session/cancel first.
KilledAfterCancel ==
  /\ ctx # "live" /\ process \in {"running", "mute"} /\ watcher = "gone"
  /\ process' = "exited" /\ exit' = "error"
  /\ UNCHANGED <<helper, processLeaves>>

\* exec.CommandContext kills the process when its context is done.
Killed ==
  /\ ctx # "live" /\ process \in {"running", "mute"}
  /\ process' = "exited" /\ exit' = "error"
  /\ UNCHANGED <<helper, processLeaves>>

-----------------------------------------------------------------------------

Init ==
  /\ mcp = IF GivesMcp THEN "requested" ELSE "none"
  /\ pc = IF GivesMcp THEN "prepare" ELSE "start"
  /\ step = "initialize" /\ seen = [status |-> "completed", session |-> "none", text |-> FALSE]
  /\ waitErr = FALSE /\ lock = "free" /\ watcher = "none" /\ stdin = "closed"
  /\ process = "none" /\ exit = "none" /\ helper = "none" /\ ctx = "live"
  /\ messages = "open" /\ result = <<>> /\ resultOpen = TRUE
  /\ sent = <<>> /\ unanswered = {} /\ strays = 0 /\ told = {}

Terminated == pc \in {"done", "refused"} /\ UNCHANGED vars

Next ==
  \/ Execute \/ DriverLocks \/ DriverWrites
  \/ WatcherWakes \/ WatcherLocks \/ WatcherWrites
  \/ \E l \in Lines : ReadLine(l)
  \/ ScanEnds \/ ScanFails \/ Finish
  \/ ContextEnds \/ ProcessStops \/ HelperLives \/ Killed
  \/ Terminated

\* The goroutines are scheduled, a write to a broken pipe returns, a process whose
\* context is done is killed. Nothing makes a CLI read, write or exit.
Fairness ==
  /\ WF_vars(Execute) /\ WF_vars(DriverLocks) /\ WF_vars(StdinBroken /\ DriverWrites)
  /\ WF_vars(WatcherWakes) /\ WF_vars(WatcherLocks) /\ WF_vars(StdinBroken /\ WatcherWrites)
  /\ WF_vars(ScanEnds) /\ WF_vars(Finish) /\ WF_vars(Killed)

Spec     == Init /\ [][Next]_vars
FairSpec == Spec /\ Fairness

-----------------------------------------------------------------------------
(* Properties *)

Results == [status : {"completed", "failed", "aborted", "timeout"}, session : SessionIds,
            text : BOOLEAN]

\* Every variable has the type of its Go counterpart.
TypeOK ==
  /\ mcp \in {"none", "requested", "temp", "removed"}
  /\ pc \in {"prepare", "start", "refused", "lock", "write", "scan", "wait", "report",
             "closeDone", "closeResult", "closeMessages", "cancel", "done"}
  /\ step \in {"initialize", "session", "prompt"}
  /\ seen \in [status : {"completed", "failed"}, session : SessionIds, text : BOOLEAN]
  /\ waitErr \in BOOLEAN /\ lock \in {"free", "driver", "watcher"}
  /\ watcher \in {"none", "waiting", "locking", "gone"}
  /\ stdin \in {"open", "closed"}
  /\ process \in {"none", "running", "mute", "exited"}
  /\ exit \in {"none", "zero", "error"} /\ helper \in {"none", "alive", "gone"}
  /\ ctx \in {"live", "cancelled", "expired"}
  /\ messages \in {"open", "closed"} /\ result \in Seq(Results) /\ resultOpen \in BOOLEAN
  /\ sent \in Seq([method : Methods, session : SessionIds])
  /\ unanswered \subseteq Ids /\ strays \in Nat /\ told \subseteq {"error", "scan"}

Handshake == <<"initialize", "session", "prompt">>

\* Whatever the server answers, in whatever order, and announces in between, and
\* whenever the context ends, it is sent the three requests of the handshake in
\* their order, each once. The code does not look which of its requests are still
\* unanswered, so this ends with the first response that is not to one of those: a
\* second one with id 2 makes us prompt again, an early one before the session. But
\* each of them makes us write at most two requests more.
HandshakeInOrder ==
  /\ strays = 0 => \A n \in DOMAIN sent : n <= 3 /\ sent[n].method = Handshake[n]
  /\ Len(sent) <= 3 + 2 * strays

Wrong == "error" \in told \/ "scan" \in told

Justified(status) ==
  CASE status = "completed" -> exit = "zero" /\ ~Wrong
    [] status = "failed"    -> Wrong \/ waitErr
    [] status = "aborted"   -> ctx = "cancelled"
    [] status = "timeout"   -> ctx = "expired"

\* A turn is reported as completed only if the server reported no error, the stream
\* was read without one and the process exited with status zero; as failed only if
\* one of these went wrong; a cancelled turn is not blamed on the server.
VerdictIsJustified == \A i \in DOMAIN result : Justified(result[i].status)

\* A session whose context is done ends, and so do both of its goroutines, although
\* each may be blocked on a pipe the server does not read, or on the lock the other
\* holds; unless a process the server left behind keeps its stdout.
DoneContextEndsSession ==
  ctx # "live" ~> \/ pc = "refused"
                  \/ pc = "done" /\ watcher = "gone"
                  \/ helper = "alive"

=============================================================================
