---------------------------- MODULE CodexProofs -----------------------------
(* The two goroutines of a codex session never block or panic each other,    *)
(* the Result is the verdict of our own turn with all of its answer, and the *)
(* contract of adapter.Session is kept, however many notifications the app   *)
(* server sends.                                                             *)
EXTENDS MCCodex, SequenceTheorems, TLAPS

\* The requests that come after the current one.
Later ==
  CASE method = "initialize"    -> {"thread/resume", "thread/start", "turn/start"}
    [] method = "thread/resume" -> {"thread/start", "turn/start"}
    [] method = "thread/start"  -> {"turn/start"}
    [] method = "turn/start"    -> {}

Answering(m) == reader = "answering" /\ answer.method = m

RequestTypeOK ==
  /\ pc \in LifecyclePC /\ method \in Methods
  /\ pending \subseteq Methods /\ asked \subseteq Methods
  /\ reply \in [Methods -> Replies \cup {"none"}]
  /\ answer \in [method : Methods, reply : Replies \cup {"none"}]
  /\ reader \in {"reading", "answering", "marked", "done"}

\* Only the request being made is pending, ...
OnePending == \A m \in pending : m = method /\ pc \in {"write", "await"}

\* ... one not made yet has left no trace, one not written has had no answer, ...
NotYetMade ==
  \A m \in Methods :
    /\ m \in Later \/ (m = method /\ pc = "request") =>
         reply[m] = "none" /\ m \notin asked /\ ~Answering(m)
    /\ m = method /\ pc = "write" => m \notin asked /\ ~Answering(m)

\* ... and the answer in hand is the only one its request will get.
AnsweredOnce ==
  \A m \in Methods : Answering(m) => m \notin pending /\ m \notin asked

RequestInv == RequestTypeOK /\ OnePending /\ NotYetMade /\ AnsweredOnce /\ ReaderNeverBlocks

LEMMA InitRequestInv == Init => RequestInv
BY DEF Init, RequestInv, RequestTypeOK, OnePending, NotYetMade, AnsweredOnce,
  ReaderNeverBlocks, Answering, Later, LifecyclePC, Methods, Replies, NoAnswer

\* A step that leaves the requests alone keeps the invariant, wherever the
\* lifecycle goes once it makes no more of them.
LEMMA RequestsUntouched ==
  ASSUME RequestInv, pc' \in LifecyclePC, UNCHANGED <<method, pending, reply, asked, reader, answer>>,
         pc' = pc \/ (pc' \notin {"request", "write", "await"} /\ pending = {})
  PROVE  RequestInv'
BY DEF RequestInv, RequestTypeOK, OnePending, NotYetMade, AnsweredOnce, ReaderNeverBlocks,
  Answering, Later

LEMMA PastRequests ==
  ASSUME RequestInv, pc \notin {"request", "write", "await"}
  PROVE  pending = {}
BY DEF RequestInv, OnePending

\* A request that fails or succeeds has already been taken out of pending.
LEMMA RequestEnds ==
  ASSUME RequestInv, pc \in {"request", "write", "await"},
         (\E cause \in Causes : RequestFails(cause)) \/ RequestSucceeds,
         pending' = {},
         \A m \in Methods : reply'[m] = reply[m] \/ m = method,
         reply' \in [Methods -> Replies \cup {"none"}],
         \A m \in Methods : reply'[m] = reply[m] \/ reply'[m] = "none",
         UNCHANGED <<asked, reader, answer>>
  PROVE  RequestInv'
<1>1. method' = method \/ method' \in Later
  BY DEF RequestFails, RequestSucceeds, Later, RequestInv, RequestTypeOK, Methods
<1>2. pc' = "request" => method' \in Later
  BY DEF RequestFails, RequestSucceeds, Later, RequestInv, RequestTypeOK, Methods
<1>3. Later' \subseteq Later /\ method' \in Methods /\ pc' \in LifecyclePC /\ pc' # "write"
  BY DEF RequestFails, RequestSucceeds, Later, RequestInv, RequestTypeOK, Methods, LifecyclePC
<1>4. RequestTypeOK' /\ OnePending'
  BY <1>3 DEF RequestInv, RequestTypeOK, OnePending
<1>5. NotYetMade'
  BY <1>2, <1>3 DEF RequestInv, RequestTypeOK, NotYetMade, Answering
<1>6. AnsweredOnce' /\ ReaderNeverBlocks'
  BY DEF RequestInv, RequestTypeOK, AnsweredOnce, ReaderNeverBlocks, Answering
<1> QED
  BY <1>4, <1>5, <1>6 DEF RequestInv

LEMMA RequestStep == ASSUME RequestInv, Request PROVE RequestInv'
<1>1. CASE RefusedAtOnce
  <2>1. pending = {}
    BY <1>1 DEF RefusedAtOnce, RequestInv, OnePending
  <2> QED
    BY <1>1, <2>1, RequestEnds DEF RefusedAtOnce, requestVars, readerVars, serverVars, Causes,
      RequestInv, RequestTypeOK
<1>2. CASE RegisterPending
  BY <1>2 DEF RegisterPending, RequestInv, RequestTypeOK, OnePending, NotYetMade, AnsweredOnce,
    ReaderNeverBlocks, Answering, Later, LifecyclePC, readerVars, serverVars
<1>3. CASE WriteRequest
  BY <1>3 DEF WriteRequest, RequestInv, RequestTypeOK, OnePending, NotYetMade, AnsweredOnce,
    ReaderNeverBlocks, Answering, Later, LifecyclePC, requestVars, readerVars, Methods
<1>4. CASE WriteFails
  <2>1. pending' = {}
    BY <1>4 DEF WriteFails, RequestInv, OnePending
  <2> QED
    BY <1>4, <2>1, RequestEnds DEF WriteFails, readerVars, serverVars, Causes, RequestInv,
      RequestTypeOK
<1>5. CASE TakeReply
  <2>1. pending' = {}
    BY <1>5 DEF TakeReply, RequestInv, OnePending, ReaderNeverBlocks
  <2>2. (\E cause \in Causes : RequestFails(cause)) \/ RequestSucceeds
    BY <1>5 DEF TakeReply, Causes, RequestInv, RequestTypeOK, Replies
  <2>3. /\ reply' \in [Methods -> Replies \cup {"none"}]
        /\ \A m \in Methods : reply'[m] = reply[m] \/ reply'[m] = "none"
        /\ \A m \in Methods : reply'[m] = reply[m] \/ m = method
    BY <1>5 DEF TakeReply, RequestInv, RequestTypeOK
  <2> QED
    BY <1>5, <2>1, <2>2, <2>3, RequestEnds DEF TakeReply, readerVars, serverVars
<1>6. CASE AwaitSeesExit
  <2>1. pending' = {}
    BY <1>6 DEF AwaitSeesExit, RequestInv, OnePending
  <2> QED
    BY <1>6, <2>1, RequestEnds DEF AwaitSeesExit, readerVars, serverVars, Causes, RequestInv,
      RequestTypeOK
<1>7. CASE AwaitCancelled
  <2>1. pending' = {}
    BY <1>7 DEF AwaitCancelled, RequestInv, OnePending
  <2> QED
    BY <1>7, <2>1, RequestEnds DEF AwaitCancelled, readerVars, serverVars, Causes, RequestInv,
      RequestTypeOK
<1> QED
  BY <1>1, <1>2, <1>3, <1>4, <1>5, <1>6, <1>7 DEF Request

LEMMA LoopFinishStep == ASSUME RequestInv, Loop \/ Finish PROVE RequestInv'
<1>1. pc \notin {"request", "write", "await"} /\ pc' \notin {"request", "write", "await"}
      /\ pc' \in LifecyclePC
  BY DEF Loop, SeeTurnDone, SeeActivity, FirstTurnNoProgress, SemanticInactivity, SeeContextDone,
    SeeProcessDone, FinishTurn, FinishRunContextDone, Decide, Finish, Report, DrainReader,
    DrainForced, JoinReader, Reap, ReapForced, CloseResult, CloseMessages, CancelOnReturn,
    LifecyclePC
<1>2. UNCHANGED <<method, pending, reply, asked, reader, answer>>
  BY DEF Loop, SeeTurnDone, SeeActivity, FirstTurnNoProgress, SemanticInactivity, SeeContextDone,
    SeeProcessDone, Finish, Report, DrainReader, DrainForced, JoinReader, Reap, ReapForced,
    CloseResult, CloseMessages, CancelOnReturn, loopLeaves, exitLeaves, requestVars, readerVars,
    serverVars
<1> QED
  BY <1>1, <1>2, PastRequests, RequestsUntouched

LEMMA ReaderStep == ASSUME RequestInv, Reader PROVE RequestInv'
<1>1. CASE \E l \in Lines : ReadLine(l)
  BY <1>1, RequestsUntouched DEF ReadLine, lifecycleVars, requestVars, RequestInv, RequestTypeOK
<1>2. CASE \E m \in Methods : \E x \in Responses(m) : ReadResponse(m, x)
  <2> PICK m \in Methods : \E x \in Responses(m) : ReadResponse(m, x)
    BY <1>2
  <2> PICK x \in Responses(m) : ReadResponse(m, x)
    OBVIOUS
  <2>1. UNCHANGED <<pc, method, reply>> /\ pending' = pending \ {m} /\ asked' = asked \ {m}
    BY DEF ReadResponse, readerLeaves, lifecycleVars
  <2>2. x \in Replies
    BY DEF Responses, Replies
  <2>3. CASE m \in pending
    <3>1. reader' = "answering" /\ answer' = [method |-> m, reply |-> x] /\ m = method
          /\ pc = "await" /\ reply[m] = "none"
      BY <2>3 DEF ReadResponse, RequestInv, OnePending, NotYetMade, ReaderNeverBlocks
    <3>2. RequestTypeOK' /\ OnePending' /\ AnsweredOnce' /\ ReaderNeverBlocks'
      BY <2>1, <2>2, <3>1 DEF RequestInv, RequestTypeOK, OnePending, AnsweredOnce,
        ReaderNeverBlocks, Answering
    <3>3. NotYetMade'
      BY <2>1, <3>1 DEF RequestInv, RequestTypeOK, NotYetMade, Answering, Later, Methods
    <3> QED
      BY <3>2, <3>3 DEF RequestInv
  <2>4. CASE m \notin pending
    BY <2>1, <2>4 DEF ReadResponse, RequestInv, RequestTypeOK, OnePending, NotYetMade,
      AnsweredOnce, ReaderNeverBlocks, Answering, Later
  <2> QED
    BY <2>3, <2>4
<1>3. CASE ApplyEffect
  BY <1>3, RequestsUntouched DEF ApplyEffect, lifecycleVars, requestVars, serverVars, RequestInv,
    RequestTypeOK
<1>4. CASE SendReply
  <2>1. UNCHANGED <<pc, method, pending, asked>> /\ reader' = "reading" /\ answer' = NoAnswer
        /\ reply' = [reply EXCEPT ![answer.method] = answer.reply] /\ reader = "answering"
    BY <1>4 DEF SendReply, readerLeaves, lifecycleVars, serverVars
  <2>2. RequestTypeOK' /\ OnePending' /\ AnsweredOnce' /\ ReaderNeverBlocks'
    BY <2>1 DEF RequestInv, RequestTypeOK, OnePending, AnsweredOnce, ReaderNeverBlocks, Answering,
      NoAnswer, Methods
  <2>3. NotYetMade'
    BY <2>1 DEF RequestInv, RequestTypeOK, NotYetMade, Answering, Later
  <2> QED
    BY <2>2, <2>3 DEF RequestInv
<1>5. CASE MarkProcessExited
  BY <1>5 DEF MarkProcessExited, readerLeaves, lifecycleVars, serverVars, RequestInv,
    RequestTypeOK, OnePending, NotYetMade, AnsweredOnce, ReaderNeverBlocks, Answering, Later,
    Methods, Replies
<1>6. CASE ReaderReturns
  BY <1>6 DEF ReaderReturns, readerLeaves, lifecycleVars, serverVars, requestVars, RequestInv,
    RequestTypeOK, OnePending, NotYetMade, AnsweredOnce, ReaderNeverBlocks, Answering, Later
<1> QED
  BY <1>1, <1>2, <1>3, <1>4, <1>5, <1>6 DEF Reader

LEMMA RequestInvStep == RequestInv /\ [Next]_vars => RequestInv'
<1> SUFFICES ASSUME RequestInv, [Next]_vars PROVE RequestInv'
  OBVIOUS
<1>1. CASE Lifecycle
  BY <1>1, RequestStep, LoopFinishStep DEF Lifecycle
<1>2. CASE Reader
  BY <1>2, ReaderStep
<1>3. CASE Environment
  BY <1>3, RequestsUntouched DEF Environment, ContextEnds, ProcessStops, Killed, processLeaves,
    lifecycleVars, requestVars, readerVars, RequestInv, RequestTypeOK
<1>4. CASE Terminated \/ UNCHANGED vars
  BY <1>4, RequestsUntouched DEF Terminated, vars, lifecycleVars, requestVars, readerVars,
    serverVars, RequestInv, RequestTypeOK
<1> QED
  BY <1>1, <1>2, <1>3, <1>4 DEF Next

\* The reader never blocks on the channel of a request, hence never while it
\* holds the client's lock in markProcessExited: each request gets one answer.
THEOREM ReaderIsNeverBlocked == Spec => []ReaderNeverBlocks
<1>1. RequestInv => ReaderNeverBlocks
  BY DEF RequestInv
<1> QED
  BY <1>1, InitRequestInv, RequestInvStep, PTL DEF Spec

-----------------------------------------------------------------------------

\* Past the two waits of drainAndWait the reader has returned.
ReaderJoined ==
  pc \in {"reap", "reapForced", "closeResult", "closeMessages", "cancel", "done"} =>
    reader = "done"

ClosedLast == messages = "closed" => pc \in {"cancel", "done"}

JoinInv == ReaderJoined /\ ClosedLast

LEMMA JoinInvStep == JoinInv /\ [Next]_vars => JoinInv'
<1> SUFFICES ASSUME JoinInv, [Next]_vars PROVE JoinInv'
  OBVIOUS
<1> USE DEF JoinInv, ReaderJoined, ClosedLast
<1>1. CASE Request
  BY <1>1 DEF Request, RefusedAtOnce, RegisterPending, WriteRequest, WriteFails, TakeReply,
    AwaitSeesExit, AwaitCancelled, RequestFails, RequestSucceeds, sessionVars, readerVars
<1>2. CASE Loop
  BY <1>2 DEF Loop, SeeTurnDone, SeeActivity, FirstTurnNoProgress, SemanticInactivity,
    SeeContextDone, SeeProcessDone, FinishTurn, FinishRunContextDone, Decide, loopLeaves,
    sessionVars, readerVars
<1>3. CASE Finish
  BY <1>3 DEF Finish, Report, DrainReader, DrainForced, JoinReader, Reap, ReapForced, CloseResult,
    CloseMessages, CancelOnReturn, exitLeaves, sessionVars, readerVars
<1>4. CASE Reader
  BY <1>4 DEF Reader, ReadLine, ReadResponse, ApplyEffect, SendReply, MarkProcessExited,
    ReaderReturns, readerLeaves, lifecycleVars, sessionVars
<1>5. CASE Environment
  BY <1>5 DEF Environment, ContextEnds, ProcessStops, Killed, processLeaves, lifecycleVars,
    readerVars, sessionVars
<1>6. CASE Terminated \/ UNCHANGED vars
  BY <1>6 DEF Terminated, vars, lifecycleVars, readerVars, sessionVars
<1> QED
  BY <1>1, <1>2, <1>3, <1>4, <1>5, <1>6 DEF Next, Lifecycle

\* Messages is closed after the reader has returned: handleLine never sends on
\* a closed channel.
THEOREM ReaderNeverPanics == Spec => []MessagesOutliveReader
<1>1. Init => JoinInv
  BY DEF Init, JoinInv, ReaderJoined, ClosedLast
<1>2. JoinInv => MessagesOutliveReader
  BY DEF JoinInv, ReaderJoined, ClosedLast, MessagesOutliveReader
<1> QED
  BY <1>1, <1>2, JoinInvStep, PTL DEF Spec

-----------------------------------------------------------------------------
(* The turn: what the reader has still to do for the line it has read, what it *)
(* has signalled, and what the lifecycle has made of it.                       *)

TextPlans  == {<<"text", "progress">>, <<"progress", "text">>, <<"text">>,
               <<"progress", "text", "end">>, <<"text", "end">>}
EndPlans   == {<<"progress", "text", "end">>, <<"text", "end">>, <<"end">>, <<"abort">>,
               <<"error", "end">>, <<"progress", "error", "end">>}
ErrorPlans == {<<"error">>, <<"error", "end">>, <<"progress", "error", "end">>}
OtherPlans == {<<>>, <<"running">>, <<"progress">>, <<"retry">>}
Plans      == TextPlans \cup EndPlans \cup ErrorPlans \cup OtherPlans

Status  == {"completed", "failed", "aborted", "timeout"}
Asking  == {"request", "write", "await", "loop"}
Before  == Asking \cup {"report", "reportFailure"}
Closing == {"closeMessages", "cancel", "done"}

LoopTypeOK ==
  /\ pc \in LifecyclePC
  /\ watch \in {"unarmed", "armed", "stopped"}
  /\ outcome \in [status : Status, cause : Causes]

ActivityTypeOK ==
  activity \in Seq({"running", "progress", "retry"}) /\ Len(activity) <= ActivityBuffer

ReaderTypeOK ==
  /\ protocol \in {"unknown", "legacy", "raw"}
  /\ turnStarted \in BOOLEAN /\ completed \in BOOLEAN /\ turnError \in BOOLEAN
  /\ texts \in Nat /\ lines \in 0..MaxLines
  /\ ended \in {"no", "ok", "failed", "aborted"} /\ spoken \in Nat

ProcessTypeOK ==
  /\ exited \in BOOLEAN /\ process \in {"running", "mute", "exited"}
  /\ ctx \in {"live", "cancelled", "expired"}

SessionTypeOK == messages \in {"open", "closed"} /\ result \in Seq(Results) /\ resultOpen \in BOOLEAN

TurnTypeOK ==
  /\ todo \in Plans
  /\ turnDone \in {<<>>, <<TRUE>>, <<FALSE>>}
  /\ LoopTypeOK /\ ActivityTypeOK /\ ReaderTypeOK /\ ProcessTypeOK /\ SessionTypeOK

\* The texts the reader has read, whether or not it has accumulated the last one.
TextsRead == texts + IF todo \in TextPlans THEN 1 ELSE 0

\* The signal in the channel is the app server's own verdict, ...
SignalFollows(aborted) ==
  IF aborted THEN ended = "aborted"
  ELSE ended \in {"ok", "failed"} /\ (ended = "failed" => turnError)

\* ... so is the outcome taken from it, ...
OutcomeFollows ==
  CASE outcome.status = "completed" -> ended = "ok"
    [] outcome.status = "aborted"   -> ended = "aborted"
    [] OTHER                        -> ended \in {"ok", "failed"} /\ turnError

\* ... and so is the signal not given yet.
PlanFollows ==
  /\ todo \in EndPlans
  /\ todo = <<"abort">> <=> ended = "aborted"
  /\ ended = "failed" => turnError \/ todo \in ErrorPlans

\* From the line that ends the turn to the Result.
TurnFollowed ==
  CASE outcome.cause = "turn" -> OutcomeFollows /\ texts >= spoken
    [] outcome.cause # "turn" /\ turnDone # <<>> ->
         SignalFollows(Head(turnDone)) /\ texts >= spoken
    [] outcome.cause # "turn" /\ turnDone = <<>> /\ ended # "no" ->
         PlanFollows /\ TextsRead >= spoken
    [] OTHER -> todo \notin EndPlans /\ TextsRead >= spoken

TurnInv ==
  /\ TurnTypeOK
  /\ TextsRead <= lines /\ spoken <= lines
  /\ pc \in Asking => outcome = Undecided
  /\ pc = "reportFailure" => outcome.cause # "turn"
  /\ TurnFollowed

\* Which of the three calls on the session's channels have been made.
Channels ==
  /\ result = <<>> <=> pc \in Before
  /\ Len(result) <= 1
  /\ resultOpen <=> pc \notin Closing
  /\ messages = "open" <=> pc \notin {"cancel", "done"}

\* The share of VerdictFollowsTurn that is about the status.
StatusFollows == \A i \in DOMAIN result : result[i].cause = "turn" => FollowsFirstEnd(result[i])

VerdictInv == TurnInv /\ Channels /\ StatusFollows /\ AnswerIsReported

LEMMA PlanTails ==
  /\ Tail(<<"running">>) = <<>> /\ Tail(<<"progress">>) = <<>> /\ Tail(<<"retry">>) = <<>>
  /\ Tail(<<"text">>) = <<>> /\ Tail(<<"error">>) = <<>> /\ Tail(<<"end">>) = <<>>
  /\ Tail(<<"abort">>) = <<>>
  /\ Tail(<<"text", "progress">>) = <<"progress">> /\ Tail(<<"progress", "text">>) = <<"text">>
  /\ Tail(<<"text", "end">>) = <<"end">> /\ Tail(<<"error", "end">>) = <<"end">>
  /\ Tail(<<"progress", "text", "end">>) = <<"text", "end">>
  /\ Tail(<<"progress", "error", "end">>) = <<"error", "end">>
OBVIOUS

\* What is in a plan, and what is left of it after its first effect.
LEMMA PlanParts ==
  ASSUME NEW t \in Plans
  PROVE  /\ "text" \in Range(t) <=> t \in TextPlans
         /\ Range(t) \cap {"end", "abort"} # {} <=> t \in EndPlans
BY DEF Plans, TextPlans, EndPlans, ErrorPlans, OtherPlans, Range

LEMMA PlanStep ==
  ASSUME NEW t \in Plans \ {<<>>}
  PROVE  /\ Tail(t) \in Plans
         /\ Head(t) \in {"running", "progress", "retry", "text", "error", "end", "abort"}
         /\ Head(t) = "text" => t \in TextPlans /\ Tail(t) \notin TextPlans
         /\ Head(t) # "text" => (Tail(t) \in TextPlans <=> t \in TextPlans)
         /\ Head(t) \in {"end", "abort"} => t \in EndPlans \ (ErrorPlans \cup TextPlans) /\ Tail(t) = <<>>
         /\ Head(t) = "abort" <=> t = <<"abort">>
         /\ Head(t) \notin {"end", "abort"} => (Tail(t) \in EndPlans <=> t \in EndPlans)
         /\ Head(t) \notin {"end", "abort"} => Tail(t) # <<"abort">>
         /\ Head(t) \notin {"error", "end"} /\ t \in ErrorPlans => Tail(t) \in ErrorPlans
<1> USE PlanTails DEF Plans, TextPlans, EndPlans, ErrorPlans, OtherPlans
<1>1. CASE t = <<"running">>
  BY <1>1
<1>2. CASE t = <<"progress">>
  BY <1>2
<1>3. CASE t = <<"retry">>
  BY <1>3
<1>4. CASE t = <<"text">>
  BY <1>4
<1>5. CASE t = <<"error">>
  BY <1>5
<1>6. CASE t = <<"end">>
  BY <1>6
<1>7. CASE t = <<"abort">>
  BY <1>7
<1>8. CASE t = <<"text", "progress">>
  BY <1>8
<1>9. CASE t = <<"progress", "text">>
  BY <1>9
<1>10. CASE t = <<"text", "end">>
  BY <1>10
<1>11. CASE t = <<"error", "end">>
  BY <1>11
<1>12. CASE t = <<"progress", "text", "end">>
  BY <1>12
<1>13. CASE t = <<"progress", "error", "end">>
  BY <1>13
<1> QED
  BY <1>1, <1>2, <1>3, <1>4, <1>5, <1>6, <1>7, <1>8, <1>9, <1>10, <1>11, <1>12, <1>13

LEMMA PlanOfLine ==
  ASSUME NEW l \in Lines, completed \in BOOLEAN, turnStarted \in BOOLEAN
  PROVE  /\ Effects(l) \in Plans
         /\ Effects(l) \in EndPlans =>
              /\ Effects(l) = <<"abort">> <=> Meaning(l) = "aborted"
              /\ Meaning(l) = "failed" => Effects(l) \in ErrorPlans
         /\ Meaning(l) \in {"ok", "failed", "aborted"}
<1>1. l.kind \in RawKinds \cup LegacyKinds \cup {"server_request"}
  BY DEF Lines
<1>2. Meaning(l) \in {"ok", "failed", "aborted"}
  BY DEF Meaning
<1> USE DEF Effects, Meaning, FinalAnswer, EndOnce, Plans, TextPlans, EndPlans, ErrorPlans,
          OtherPlans
<1>3. CASE l.kind \in {"turn/started", "task_started", "item", "error:retry", "thread/started"}
  <2>1. Effects(l) \in {<<>>, <<"running">>, <<"progress">>, <<"retry">>}
    BY <1>3
  <2> QED
    BY <1>2, <2>1
<1>4. CASE l.kind \in {"agent_message", "final_answer"}
  <2>1. /\ Effects(l) \in {<<"text", "progress">>, <<"progress", "text">>,
                          <<"progress", "text", "end">>}
        /\ Meaning(l) = "ok"
    BY <1>4
  <2> QED
    BY <1>2, <2>1
<1>5. CASE l.kind \in {"turn/completed", "idle", "task_complete"}
  <2>1. Effects(l) \in {<<>>, <<"end">>} /\ Meaning(l) = "ok"
    BY <1>5
  <2> QED
    BY <1>2, <2>1
<1>6. CASE l.kind \in {"turn/failed", "error"}
  <2>1. /\ Effects(l) \in {<<"error">>, <<"error", "end">>, <<"progress", "error", "end">>}
        /\ Meaning(l) = "failed"
    BY <1>6
  <2> QED
    BY <1>2, <2>1
<1>7. CASE l.kind \in {"turn/aborted", "turn_aborted"}
  <2>1. Effects(l) \in {<<>>, <<"abort">>} /\ Meaning(l) = "aborted"
    BY <1>7
  <2> QED
    BY <1>2, <2>1
<1>8. CASE l.kind = "server_request"
  <2>1. Effects(l) = <<"error">>
    BY <1>8
  <2> QED
    BY <1>2, <2>1
<1> QED
  BY <1>1, <1>3, <1>4, <1>5, <1>6, <1>7, <1>8 DEF RawKinds, LegacyKinds

LEMMA InitTurnInv == Init => TurnInv
<1> SUFFICES ASSUME Init PROVE TurnInv
  OBVIOUS
<1> USE CodexAssumption DEF Init, CodexAssumption
<1>1. todo \in Plans /\ todo \notin TextPlans /\ todo \notin EndPlans
  BY DEF Plans, TextPlans, EndPlans, OtherPlans
<1>2. result \in Seq(Results) /\ activity \in Seq({"running", "progress", "retry"}) /\ Len(activity) = 0
  OBVIOUS
<1>3. outcome \in [status : Status, cause : Causes]
  BY DEF Undecided, Outcome, Status, Causes
<1>4. TurnTypeOK
  <2>1. LoopTypeOK
    BY <1>3 DEF LoopTypeOK, LifecyclePC
  <2>2. ActivityTypeOK /\ SessionTypeOK
    BY <1>2 DEF ActivityTypeOK, SessionTypeOK
  <2>3. ReaderTypeOK /\ ProcessTypeOK
    <3>1. 0 \in 0..MaxLines
      OBVIOUS
    <3> QED
      BY <3>1 DEF ReaderTypeOK, ProcessTypeOK
  <2> QED
    BY <1>1, <2>1, <2>2, <2>3 DEF TurnTypeOK
<1>5. TextsRead = 0
  BY <1>1 DEF TextsRead
<1>6. TurnFollowed
  BY <1>1, <1>5 DEF TurnFollowed, Undecided, Outcome
<1> QED
  BY <1>4, <1>5, <1>6 DEF TurnInv, Asking

\* The types of what a step of the lifecycle leaves alone.
LEMMA KeepTypes ==
  ASSUME TurnTypeOK
  PROVE  /\ UNCHANGED <<todo, turnDone>> => todo' \in Plans /\ turnDone' \in {<<>>, <<TRUE>>, <<FALSE>>}
         /\ UNCHANGED <<pc, watch, outcome>> => LoopTypeOK'
         /\ UNCHANGED activity => ActivityTypeOK'
         /\ UNCHANGED <<protocol, turnStarted, completed, turnError, texts, lines, ended, spoken>> =>
              ReaderTypeOK'
         /\ UNCHANGED <<exited, process, ctx>> => ProcessTypeOK'
         /\ UNCHANGED <<messages, result, resultOpen>> => SessionTypeOK'
<1>1. UNCHANGED <<todo, turnDone>> => todo' \in Plans /\ turnDone' \in {<<>>, <<TRUE>>, <<FALSE>>}
  BY Zenon DEF TurnTypeOK
<1>2. UNCHANGED <<pc, watch, outcome>> => LoopTypeOK'
  BY DEF TurnTypeOK, LoopTypeOK
<1>3. UNCHANGED activity => ActivityTypeOK'
  BY DEF TurnTypeOK, ActivityTypeOK
<1>4. UNCHANGED <<protocol, turnStarted, completed, turnError, texts, lines, ended, spoken>> =>
        ReaderTypeOK'
  BY DEF TurnTypeOK, ReaderTypeOK
<1>5. UNCHANGED <<exited, process, ctx>> => ProcessTypeOK'
  BY DEF TurnTypeOK, ProcessTypeOK
<1>6. UNCHANGED <<messages, result, resultOpen>> => SessionTypeOK'
  BY DEF TurnTypeOK, SessionTypeOK
<1> QED
  BY <1>1, <1>2, <1>3, <1>4, <1>5, <1>6

\* A step that touches neither the turn nor its signal may give up on the turn.
LEMMA TurnLeft ==
  ASSUME TurnInv, TurnTypeOK', UNCHANGED <<todo, turnDone, turnError, texts, lines, ended, spoken>>,
         \/ /\ outcome' = outcome
            /\ pc' \in Asking => pc \in Asking
            /\ pc' = "reportFailure" => pc = "reportFailure"
         \/ outcome'.cause # "turn" /\ pc' \notin Asking /\ pc \in Asking
  PROVE  TurnInv'
<1>1. TextsRead' = TextsRead
  BY DEF TextsRead
<1>2. TurnFollowed'
  <2>1. CASE outcome' = outcome
    BY <1>1, <2>1 DEF TurnInv, TurnFollowed, OutcomeFollows, SignalFollows, PlanFollows
  <2>2. CASE outcome'.cause # "turn" /\ pc' \notin Asking /\ pc \in Asking
    <3>1. outcome.cause # "turn"
      BY <2>2 DEF TurnInv, Undecided, Outcome
    <3> QED
      BY <1>1, <2>2, <3>1 DEF TurnInv, TurnFollowed, SignalFollows, PlanFollows
  <2> QED
    BY <2>1, <2>2
<1> QED
  BY <1>1, <1>2 DEF TurnInv

LEMMA RequestTurn == ASSUME TurnInv, Request PROVE TurnInv'
<1> DEFINE Untouched == UNCHANGED <<exited, todo, protocol, turnStarted, completed, signalVars,
                                    lines, process, ctx, sessionVars, historyVars>>
           Fails == \E cause \in {"ctx", "exit", "write", "rpc", "noThread"} : RequestFails(cause)
<1>1. pc \in Asking
  BY DEF Asking, Request, RefusedAtOnce, RegisterPending, WriteRequest, WriteFails, TakeReply,
    AwaitSeesExit, AwaitCancelled
<1>2. /\ Untouched
      /\ Fails \/ RequestSucceeds \/ (pc' \in {"write", "await"} /\ UNCHANGED <<watch, outcome>>)
  <2>1. CASE RefusedAtOnce
    BY <2>1 DEF RefusedAtOnce, requestVars, readerVars, serverVars
  <2>2. CASE RegisterPending \/ WriteRequest
    BY <2>2 DEF RegisterPending, WriteRequest, requestVars, readerVars, serverVars
  <2>3. CASE WriteFails \/ AwaitCancelled \/ AwaitSeesExit
    BY <2>3 DEF WriteFails, AwaitCancelled, AwaitSeesExit, readerVars, serverVars
  <2>4. CASE TakeReply
    BY <2>4 DEF TakeReply, readerVars, serverVars
  <2> QED
    BY <2>1, <2>2, <2>3, <2>4 DEF Request
<1>3. CASE Fails
  <2>1. PICK cause \in {"ctx", "exit", "write", "rpc", "noThread"} : RequestFails(cause)
    BY <1>3
  <2>2. \/ pc' = "request" /\ outcome' = outcome
        \/ pc' = "reportFailure" /\ outcome' = [status |-> "failed", cause |-> cause]
    BY <2>1 DEF RequestFails, Outcome
  <2>3. watch' = watch
    BY <2>1 DEF RequestFails
  <2>4. LoopTypeOK'
    BY <2>2, <2>3 DEF TurnInv, TurnTypeOK, LoopTypeOK, Status, Causes, LifecyclePC
  <2>5. TurnTypeOK'
    BY <1>2, <2>4, KeepTypes DEF TurnInv, TurnTypeOK, signalVars, sessionVars, historyVars
  <2> QED
    BY <1>1, <1>2, <2>2, <2>5, TurnLeft DEF Asking, signalVars, historyVars
<1>4. CASE RequestSucceeds \/ (pc' \in {"write", "await"} /\ UNCHANGED <<watch, outcome>>)
  <2>1. pc' \in Asking /\ pc' \in LifecyclePC /\ UNCHANGED <<watch, outcome>>
    BY <1>4 DEF RequestSucceeds, Asking, LifecyclePC
  <2>2. LoopTypeOK'
    BY <2>1 DEF TurnInv, TurnTypeOK, LoopTypeOK
  <2>3. TurnTypeOK'
    BY <1>2, <2>2, KeepTypes DEF TurnInv, TurnTypeOK, signalVars, sessionVars, historyVars
  <2> QED
    BY <1>1, <1>2, <2>1, <2>3, TurnLeft DEF Asking, signalVars, historyVars
<1> QED
  BY <1>2, <1>3, <1>4

LEMMA LoopTurn == ASSUME TurnInv, Loop PROVE TurnInv'
<1>0. /\ pc = "loop" /\ UNCHANGED <<exited, todo, protocol, turnStarted, completed, turnError, texts,
                                    lines, process, ctx, sessionVars, historyVars>>
  BY DEF Loop, SeeTurnDone, SeeActivity, FirstTurnNoProgress, SemanticInactivity, SeeContextDone,
    SeeProcessDone, loopLeaves, requestVars, readerVars, serverVars
<1>1. CASE SeeActivity
  <2>1. /\ UNCHANGED <<pc, outcome, turnDone>>
        /\ activity # <<>> /\ activity' = Tail(activity)
        /\ watch' \in {"unarmed", "armed", "stopped"}
    BY <1>1 DEF SeeActivity, TurnInv, TurnTypeOK, LoopTypeOK
  <2>2. ActivityTypeOK'
    BY <2>1, HeadTailProperties, LenProperties, CodexAssumption
    DEF TurnInv, TurnTypeOK, ActivityTypeOK, CodexAssumption
  <2>3. TurnTypeOK'
    <3>1. LoopTypeOK'
      BY <2>1 DEF TurnInv, TurnTypeOK, LoopTypeOK
    <3> QED
      BY <1>0, <2>1, <2>2, <3>1, KeepTypes DEF TurnInv, TurnTypeOK, sessionVars, historyVars
  <2> QED
    BY <1>0, <2>1, <2>3, TurnLeft DEF historyVars
<1>2. CASE \E status \in Status, cause \in Causes \ {"turn"} :
             Decide(status, cause) /\ UNCHANGED <<watch, activity, turnDone>>
  <2>1. PICK status \in Status, cause \in Causes \ {"turn"} :
          Decide(status, cause) /\ UNCHANGED <<watch, activity, turnDone>>
    BY <1>2
  <2>2. pc' = "report" /\ outcome' = [status |-> status, cause |-> cause]
    BY <2>1 DEF Decide, Outcome
  <2>3. outcome' \in [status : Status, cause : Causes] /\ outcome'.cause # "turn"
    BY <2>2
  <2>4. TurnTypeOK'
    <3>1. LoopTypeOK'
      BY <2>1, <2>2, <2>3 DEF TurnInv, TurnTypeOK, LoopTypeOK, LifecyclePC
    <3> QED
      BY <1>0, <2>1, <3>1, KeepTypes DEF TurnInv, TurnTypeOK, sessionVars, historyVars
  <2> QED
    BY <1>0, <2>1, <2>2, <2>3, <2>4, TurnLeft DEF Asking, historyVars
<1>3. CASE FinishTurn /\ UNCHANGED <<watch, activity>>
  <2>0. Tail(<<TRUE>>) = <<>> /\ Tail(<<FALSE>>) = <<>>
    OBVIOUS
  <2>1. turnDone \in {<<TRUE>>, <<FALSE>>} /\ turnDone' = <<>> /\ pc' = "report"
    <3>1. turnDone # <<>> /\ turnDone' = Tail(turnDone) /\ pc' = "report"
      BY <1>3 DEF FinishTurn, Decide
    <3>2. turnDone = <<TRUE>> \/ turnDone = <<FALSE>>
      BY <3>1, Zenon DEF TurnInv, TurnTypeOK
    <3> QED
      BY <2>0, <3>1, <3>2, Zenon
  <2>1b. Head(turnDone) \in BOOLEAN /\ turnError \in BOOLEAN /\ turnDone # <<>>
    <3>1. <<TRUE>> \in Seq(BOOLEAN) /\ <<FALSE>> \in Seq(BOOLEAN)
      OBVIOUS
    <3>2. turnDone # <<>> /\ turnError \in BOOLEAN
      BY <1>3, Zenon DEF FinishTurn, TurnInv, TurnTypeOK, ReaderTypeOK
    <3>3. Head(turnDone) \in BOOLEAN
      <4>1. turnDone \in Seq(BOOLEAN)
        BY <2>1, <3>1, Zenon
      <4> QED
        BY <3>2, <4>1, HeadTailProperties
    <3> QED
      BY <3>2, <3>3
  <2>2. outcome' = [status |-> IF Head(turnDone) THEN "aborted"
                               ELSE IF turnError THEN "failed" ELSE "completed", cause |-> "turn"]
    BY <1>3, <2>1b DEF FinishTurn, Decide, Outcome
  <2>3. TurnTypeOK'
    <3>1. LoopTypeOK'
      BY <1>3, <2>1, <2>2, <2>1b DEF TurnInv, TurnTypeOK, LoopTypeOK, LifecyclePC, Status, Causes
    <3>2. todo' \in Plans /\ turnDone' \in {<<>>, <<TRUE>>, <<FALSE>>}
      BY <1>0, <2>1, Zenon DEF TurnInv, TurnTypeOK
    <3> QED
      BY <1>0, <1>3, <3>1, <3>2, KeepTypes DEF TurnInv, TurnTypeOK, sessionVars, historyVars
  <2>4. SignalFollows(Head(turnDone)) /\ texts >= spoken
    <3>1. outcome.cause = "none"
      BY <1>0 DEF TurnInv, Asking, Undecided, Outcome
    <3> QED
      BY <2>1b, <3>1 DEF TurnInv, TurnFollowed
  <2>5. TurnFollowed'
    <3>1. OutcomeFollows'
      BY <1>0, <2>2, <2>4, <2>1b DEF OutcomeFollows, SignalFollows, historyVars
    <3> QED
      BY <1>0, <2>2, <2>4, <3>1 DEF TurnFollowed, historyVars
  <2>6. TextsRead' = TextsRead
    BY <1>0 DEF TextsRead
  <2> QED
    BY <1>0, <2>1, <2>3, <2>5, <2>6 DEF TurnInv, Asking, historyVars
<1> QED
  BY <1>0, <1>1, <1>2, <1>3
  DEF Loop, SeeTurnDone, FirstTurnNoProgress, SemanticInactivity, SeeContextDone, SeeProcessDone,
      FinishRunContextDone, Status, Causes

\* The Result carries the outcome, and the deferred calls leave the turn alone.
LEMMA FinishTurnInv == ASSUME TurnInv, Finish PROVE TurnInv'
<1>0. /\ pc \notin Asking /\ pc' \notin Asking /\ pc' # "reportFailure" /\ pc' \in LifecyclePC
      /\ UNCHANGED <<watch, outcome, exited, readerVars, signalVars, lines, process, historyVars>>
      /\ ctx' = ctx \/ ctx' = "cancelled"
  BY DEF Finish, Report, DrainReader, DrainForced, JoinReader, Reap, ReapForced, CloseResult,
    CloseMessages, CancelOnReturn, CancelContext, exitLeaves, requestVars, LifecyclePC, Asking
<1>1. LoopTypeOK' /\ ProcessTypeOK'
  BY <1>0 DEF TurnInv, TurnTypeOK, LoopTypeOK, ProcessTypeOK
<1>2. SessionTypeOK'
  <2>1. CASE Report
    <3>1. outcome \in [status : Status, cause : Causes] /\ texts \in 0..MaxLines /\ 0 \in 0..MaxLines
      BY CodexAssumption
      DEF TurnInv, TurnTypeOK, LoopTypeOK, ReaderTypeOK, TextsRead, CodexAssumption
    <3>2. [status |-> outcome.status, cause |-> outcome.cause,
           output |-> IF pc = "report" THEN texts ELSE 0] \in Results
      BY <3>1 DEF Results, Status
    <3>3. result \in Seq(Results) /\ UNCHANGED <<messages, resultOpen>>
      BY <2>1 DEF Report, TurnInv, TurnTypeOK, SessionTypeOK
    <3> QED
      BY <2>1, <3>2, <3>3, AppendProperties DEF Report, TurnInv, TurnTypeOK, SessionTypeOK
  <2>2. CASE CloseResult \/ CloseMessages
    BY <2>2 DEF CloseResult, CloseMessages, TurnInv, TurnTypeOK, SessionTypeOK
  <2>3. CASE Finish /\ ~(Report \/ CloseResult \/ CloseMessages)
    <3>1. UNCHANGED sessionVars
      BY <2>3 DEF Finish, DrainReader, DrainForced, JoinReader, Reap, ReapForced, CancelOnReturn
    <3> QED
      BY <3>1, KeepTypes DEF sessionVars, TurnInv
  <2> QED
    BY <2>1, <2>2, <2>3
<1>3. TurnTypeOK'
  BY <1>0, <1>1, <1>2, KeepTypes DEF TurnInv, TurnTypeOK, readerVars, signalVars, historyVars
<1> QED
  BY <1>0, <1>3, TurnLeft DEF readerVars, signalVars, historyVars

LEMMA EnvironmentTurn == ASSUME TurnInv, Environment PROVE TurnInv'
<1>1. /\ UNCHANGED <<lifecycleVars, exited, readerVars, signalVars, lines, sessionVars, historyVars>>
      /\ process' \in {"running", "mute", "exited"} /\ ctx' \in {"live", "cancelled", "expired"}
  BY DEF Environment, ContextEnds, ProcessStops, Killed, processLeaves, requestVars, TurnInv,
    TurnTypeOK, ProcessTypeOK
<1>2. ProcessTypeOK'
  BY <1>1 DEF TurnInv, TurnTypeOK, ProcessTypeOK
<1>3. TurnTypeOK'
  BY <1>1, <1>2, KeepTypes DEF TurnInv, TurnTypeOK, lifecycleVars, readerVars, signalVars,
    sessionVars, historyVars
<1> QED
  BY <1>1, <1>3, TurnLeft DEF lifecycleVars, readerVars, signalVars, historyVars

\* A line of ours is read: what it means and what it makes the reader do agree.
LEMMA ReadLineTurn ==
  ASSUME TurnInv, NEW l \in Lines, ReadLine(l)
  PROVE  TurnInv'
<1>0. /\ todo = <<>> /\ lines' = lines + 1 /\ lines < MaxLines /\ protocol' = NextProtocol(l)
      /\ UNCHANGED <<lifecycleVars, exited, signalVars, process, ctx, sessionVars>>
  BY DEF ReadLine, requestVars
<1>1. /\ <<>> \notin TextPlans /\ <<>> \notin EndPlans /\ <<>> \in Plans /\ <<>> \notin ErrorPlans
  BY DEF Plans, OtherPlans, TextPlans, EndPlans, ErrorPlans
<1>2. /\ lines \in 0..MaxLines /\ texts \in Nat /\ spoken \in Nat /\ MaxLines \in Nat
      /\ completed \in BOOLEAN /\ turnStarted \in BOOLEAN
      /\ ended \in {"no", "ok", "failed", "aborted"} /\ protocol \in {"unknown", "legacy", "raw"}
  BY CodexAssumption DEF TurnInv, TurnTypeOK, ReaderTypeOK, CodexAssumption
<1>3. TextsRead = texts /\ texts <= lines /\ spoken <= lines
  <2>1. todo \notin TextPlans
    BY <1>0, <1>1, Zenon
  <2> QED
    BY <1>2, <2>1 DEF TextsRead, TurnInv
<1>4. protocol' \in {"unknown", "legacy", "raw"}
  BY <1>0, <1>2 DEF NextProtocol
<1>5. CASE ~Handled(l)
  <2>1. UNCHANGED <<todo, turnStarted, completed, historyVars>>
    BY <1>5 DEF ReadLine
  <2>2. ReaderTypeOK'
    BY <1>0, <1>2, <1>4, <2>1 DEF TurnInv, TurnTypeOK, ReaderTypeOK, signalVars, historyVars
  <2>3. TurnTypeOK'
    BY <1>0, <2>1, <2>2, KeepTypes DEF TurnInv, TurnTypeOK, lifecycleVars, signalVars, sessionVars
  <2>4. TextsRead' = TextsRead
    BY <1>0, <2>1 DEF TextsRead, signalVars
  <2>5. TurnFollowed'
    BY <1>0, <2>1, <2>4
    DEF TurnInv, TurnFollowed, OutcomeFollows, SignalFollows, PlanFollows, lifecycleVars,
        signalVars, historyVars
  <2> QED
    BY <1>0, <1>2, <1>3, <2>1, <2>3, <2>4, <2>5 DEF TurnInv, lifecycleVars, historyVars
<1>6. CASE Handled(l)
  <2> DEFINE e == Effects(l)
  <2>1. /\ todo' = e /\ Remember(l, e)
        /\ turnStarted' \in BOOLEAN /\ completed' \in BOOLEAN
    BY <1>2, <1>6 DEF ReadLine
  <2>3. /\ e \in Plans
        /\ e \in EndPlans => /\ e = <<"abort">> <=> Meaning(l) = "aborted"
                             /\ Meaning(l) = "failed" => e \in ErrorPlans
        /\ Meaning(l) \in {"ok", "failed", "aborted"}
    BY <1>2, PlanOfLine
  <2>4. /\ "text" \in Range(e) <=> e \in TextPlans
        /\ Range(e) \cap {"end", "abort"} # {} <=> e \in EndPlans
    BY <2>3, PlanParts
  <2> HIDE DEF e
  <2>5. /\ spoken' \in {spoken, IF ended = "no" /\ e \in TextPlans THEN spoken + 1 ELSE spoken}
        /\ ended' = IF ended = "no" /\ e \in EndPlans THEN Meaning(l) ELSE ended
    BY <2>1, <2>4 DEF Remember
  <2>6. ReaderTypeOK'
    BY <1>0, <1>2, <1>4, <2>1, <2>3, <2>5 DEF TurnInv, TurnTypeOK, ReaderTypeOK, signalVars
  <2>7. TurnTypeOK'
    <3>1. todo' \in Plans /\ turnDone' \in {<<>>, <<TRUE>>, <<FALSE>>}
      BY <1>0, <2>1, <2>3, Zenon DEF TurnInv, TurnTypeOK, signalVars
    <3> QED
      BY <1>0, <2>6, <3>1, KeepTypes DEF TurnInv, TurnTypeOK, lifecycleVars, signalVars, sessionVars
  <2>8. TextsRead' = texts + IF e \in TextPlans THEN 1 ELSE 0
    BY <1>0, <2>1 DEF TextsRead, signalVars
  <2>9. TurnFollowed'
    <3>0. UNCHANGED <<outcome, turnDone, turnError, texts>>
      BY <1>0 DEF lifecycleVars, signalVars
    <3>1. CASE outcome.cause = "turn"
      <4>1. OutcomeFollows /\ texts >= spoken
        BY <3>1 DEF TurnInv, TurnFollowed
      <4>2. ended # "no"
        BY <4>1 DEF OutcomeFollows
      <4>3. OutcomeFollows' /\ texts' >= spoken'
        BY <2>5, <3>0, <4>1, <4>2 DEF OutcomeFollows
      <4> QED
        BY <3>0, <3>1, <4>3 DEF TurnFollowed
    <3>2. CASE outcome.cause # "turn" /\ turnDone # <<>>
      <4>1. SignalFollows(Head(turnDone)) /\ texts >= spoken
        BY <3>2 DEF TurnInv, TurnFollowed
      <4>2. ended # "no"
        BY <4>1 DEF SignalFollows
      <4>3. SignalFollows(Head(turnDone))' /\ texts' >= spoken'
        BY <2>5, <3>0, <4>1, <4>2 DEF SignalFollows
      <4> QED
        BY <3>0, <3>2, <4>3 DEF TurnFollowed
    <3>3. CASE outcome.cause # "turn" /\ turnDone = <<>>
      <4>1. ended = "no" /\ texts >= spoken
        BY <1>0, <1>1, <1>3, <3>3 DEF TurnInv, TurnFollowed, PlanFollows
      <4>2. TextsRead' >= spoken'
        BY <1>2, <2>5, <2>8, <4>1
      <4>3. e \in EndPlans => PlanFollows'
        BY <2>1, <2>3, <2>5, <4>1 DEF PlanFollows
      <4>4. ended' = "no" <=> e \notin EndPlans
        BY <2>3, <2>5, <4>1
      <4> QED
        BY <2>1, <3>0, <3>3, <4>2, <4>3, <4>4 DEF TurnFollowed
    <3> QED
      BY <3>1, <3>2, <3>3
  <2> QED
    BY <1>0, <1>2, <1>3, <2>5, <2>7, <2>8, <2>9 DEF TurnInv, lifecycleVars
<1> QED
  BY <1>5, <1>6

LEMMA HeadOfOne == ASSUME NEW x PROVE Head(<<x>>) = x
OBVIOUS

\* An effect is applied: a text moves from the plan to the answer, the first end
\* of turn from the plan to the channel.
LEMMA ApplyEffectTurn == ASSUME TurnInv, ApplyEffect PROVE TurnInv'
<1> DEFINE h == Head(todo)
           rest == Tail(todo)
<1>0. /\ todo # <<>> /\ todo' = rest
      /\ UNCHANGED <<lifecycleVars, exited, protocol, turnStarted, completed, lines, process, ctx,
                    sessionVars, historyVars>>
  BY DEF ApplyEffect, requestVars, serverVars
<1>1. /\ rest \in Plans
      /\ h \in {"running", "progress", "retry", "text", "error", "end", "abort"}
      /\ h = "text" => todo \in TextPlans /\ rest \notin TextPlans
      /\ h # "text" => (rest \in TextPlans <=> todo \in TextPlans)
      /\ h \in {"end", "abort"} => todo \in EndPlans \ (ErrorPlans \cup TextPlans) /\ rest = <<>>
      /\ h = "abort" <=> todo = <<"abort">>
      /\ h \notin {"end", "abort"} => (rest \in EndPlans <=> todo \in EndPlans)
      /\ h \notin {"end", "abort"} => rest # <<"abort">>
      /\ h \notin {"error", "end"} /\ todo \in ErrorPlans => rest \in ErrorPlans
  <2>1. todo \in Plans \ {<<>>}
    BY <1>0, Zenon DEF TurnInv, TurnTypeOK
  <2> QED
    BY <2>1, PlanStep
<1> HIDE DEF h, rest
<1>2. /\ lines \in 0..MaxLines /\ texts \in Nat /\ spoken \in Nat /\ turnError \in BOOLEAN
      /\ MaxLines \in Nat
  BY CodexAssumption DEF TurnInv, TurnTypeOK, ReaderTypeOK, CodexAssumption
<1>3. <<>> \notin EndPlans /\ <<>> \notin TextPlans
  BY DEF EndPlans, TextPlans
<1>4. CASE h = "text"
  <2>1. texts' = texts + 1 /\ UNCHANGED <<turnError, turnDone, activity>>
    BY <1>4 DEF ApplyEffect, h
  <2>2. TextsRead' = TextsRead
    BY <1>0, <1>1, <1>2, <1>4, <2>1 DEF TextsRead
  <2>3. TurnTypeOK'
    <3>1. ReaderTypeOK'
      BY <1>0, <1>2, <2>1 DEF TurnInv, TurnTypeOK, ReaderTypeOK, historyVars
    <3>2. todo' \in Plans /\ turnDone' \in {<<>>, <<TRUE>>, <<FALSE>>}
      BY <1>0, <1>1, <2>1, Zenon DEF TurnInv, TurnTypeOK
    <3> QED
      BY <1>0, <2>1, <3>1, <3>2, KeepTypes DEF TurnInv, TurnTypeOK, lifecycleVars, sessionVars
  <2>4. texts >= spoken => texts' >= spoken'
    BY <1>0, <1>2, <2>1 DEF historyVars
  <2>5. PlanFollows => PlanFollows'
    BY <1>0, <1>1, <1>4, <2>1 DEF PlanFollows, historyVars
  <2>6. (OutcomeFollows => OutcomeFollows') /\ (SignalFollows(Head(turnDone)) => SignalFollows(Head(turnDone))')
    BY <1>0, <2>1 DEF OutcomeFollows, SignalFollows, lifecycleVars, historyVars
  <2>7. TurnFollowed'
    BY <1>0, <1>1, <1>4, <2>1, <2>2, <2>4, <2>5, <2>6
    DEF TurnInv, TurnFollowed, lifecycleVars, historyVars
  <2> QED
    BY <1>0, <2>2, <2>3, <2>7 DEF TurnInv, lifecycleVars, historyVars
<1>5. CASE h = "error"
  <2>1. turnError' = TRUE /\ UNCHANGED <<texts, turnDone, activity>>
    BY <1>5 DEF ApplyEffect, h
  <2>2. TextsRead' = TextsRead
    BY <1>0, <1>1, <1>5, <2>1 DEF TextsRead
  <2>3. TurnTypeOK'
    <3>1. ReaderTypeOK'
      BY <1>0, <1>2, <2>1 DEF TurnInv, TurnTypeOK, ReaderTypeOK, historyVars
    <3>2. todo' \in Plans /\ turnDone' \in {<<>>, <<TRUE>>, <<FALSE>>}
      BY <1>0, <1>1, <2>1, Zenon DEF TurnInv, TurnTypeOK
    <3> QED
      BY <1>0, <2>1, <3>1, <3>2, KeepTypes DEF TurnInv, TurnTypeOK, lifecycleVars, sessionVars
  <2>4. PlanFollows => PlanFollows'
    BY <1>0, <1>1, <1>5, <2>1 DEF PlanFollows, historyVars
  <2>5. (OutcomeFollows => OutcomeFollows') /\ (SignalFollows(Head(turnDone)) => SignalFollows(Head(turnDone))')
    BY <1>0, <2>1 DEF OutcomeFollows, SignalFollows, lifecycleVars, historyVars
  <2>6. TurnFollowed'
    BY <1>0, <1>1, <1>5, <2>1, <2>2, <2>4, <2>5
    DEF TurnInv, TurnFollowed, lifecycleVars, historyVars
  <2> QED
    BY <1>0, <2>2, <2>3, <2>6 DEF TurnInv, lifecycleVars, historyVars
<1>6. CASE h \in {"end", "abort"}
  <2>1. /\ turnDone' = IF turnDone = <<>> THEN <<h = "abort">> ELSE turnDone
        /\ UNCHANGED <<texts, turnError, activity>>
    BY <1>6 DEF ApplyEffect, SignalTurnDone, h
  <2>2. todo \in EndPlans /\ todo \notin ErrorPlans /\ todo \notin TextPlans /\ todo' = <<>>
    BY <1>0, <1>1, <1>6
  <2>3. TextsRead' = texts /\ TextsRead = texts
    BY <1>2, <1>3, <2>1, <2>2 DEF TextsRead
  <2>4. TurnTypeOK'
    <3>1. <<h = "abort">> \in {<<TRUE>>, <<FALSE>>}
      OBVIOUS
    <3>2. todo' \in Plans /\ turnDone' \in {<<>>, <<TRUE>>, <<FALSE>>}
      BY <1>0, <1>1, <2>1, <3>1, Zenon DEF TurnInv, TurnTypeOK
    <3> QED
      BY <1>0, <2>1, <3>2, KeepTypes DEF TurnInv, TurnTypeOK, lifecycleVars, sessionVars, historyVars
  <2>5. TurnFollowed'
    <3>1. CASE outcome.cause = "turn"
      BY <1>0, <2>1, <3>1 DEF TurnInv, TurnFollowed, OutcomeFollows, lifecycleVars, historyVars
    <3>2. CASE outcome.cause # "turn" /\ turnDone # <<>>
      <4>1. turnDone' = turnDone /\ SignalFollows(Head(turnDone)) /\ texts >= spoken
        BY <2>1, <3>2 DEF TurnInv, TurnFollowed
      <4>2. SignalFollows(Head(turnDone))' /\ texts' >= spoken' /\ outcome' = outcome
        BY <1>0, <2>1, <4>1 DEF SignalFollows, lifecycleVars, historyVars
      <4> QED
        BY <3>2, <4>1, <4>2 DEF TurnFollowed
    <3>3. CASE outcome.cause # "turn" /\ turnDone = <<>>
      <4>1. ended # "no" /\ PlanFollows /\ TextsRead >= spoken
        BY <2>2, <3>3 DEF TurnInv, TurnFollowed
      <4>2. turnDone' = <<h = "abort">>
        BY <2>1, <3>3
      <4>3. turnDone' # <<>> /\ (Head(turnDone') <=> h = "abort")
        <5>1. Head(turnDone') = (h = "abort")
          BY <4>2, HeadOfOne, Zenon
        <5>2. turnDone' # <<>>
          BY <4>2
        <5> QED
          BY <5>1, <5>2
      <4>4. ended \in {"no", "ok", "failed", "aborted"}
        BY DEF TurnInv, TurnTypeOK, ReaderTypeOK
      <4>5. SignalFollows(Head(turnDone))'
        BY <1>0, <1>1, <2>1, <2>2, <4>1, <4>3, <4>4 DEF SignalFollows, PlanFollows, historyVars
      <4>6. texts' >= spoken' /\ outcome' = outcome
        BY <1>0, <2>1, <2>3, <4>1 DEF lifecycleVars, historyVars
      <4> QED
        BY <3>3, <4>3, <4>5, <4>6 DEF TurnFollowed
    <3> QED
      BY <3>1, <3>2, <3>3
  <2> QED
    BY <1>0, <2>3, <2>4, <2>5 DEF TurnInv, lifecycleVars, historyVars
<1>7. CASE h \in {"running", "progress", "retry"}
  <2>1. SignalActivity(h) /\ UNCHANGED <<texts, turnError, turnDone>>
    BY <1>7 DEF ApplyEffect, h
  <2>2. TextsRead' = TextsRead
    BY <1>0, <1>1, <1>7, <2>1 DEF TextsRead
  <2>3. TurnTypeOK'
    <3>1. ActivityTypeOK'
      BY <1>7, <2>1, AppendProperties, LenProperties, CodexAssumption
      DEF SignalActivity, TurnInv, TurnTypeOK, ActivityTypeOK, CodexAssumption
    <3>2. todo' \in Plans /\ turnDone' \in {<<>>, <<TRUE>>, <<FALSE>>}
      BY <1>0, <1>1, <2>1, Zenon DEF TurnInv, TurnTypeOK
    <3> QED
      BY <1>0, <2>1, <3>1, <3>2, KeepTypes DEF TurnInv, TurnTypeOK, lifecycleVars, sessionVars,
        historyVars
  <2>4. PlanFollows => PlanFollows'
    BY <1>0, <1>1, <1>7, <2>1 DEF PlanFollows, historyVars
  <2>5. (OutcomeFollows => OutcomeFollows') /\ (SignalFollows(Head(turnDone)) => SignalFollows(Head(turnDone))')
    BY <1>0, <2>1 DEF OutcomeFollows, SignalFollows, lifecycleVars, historyVars
  <2>6. TurnFollowed'
    BY <1>0, <1>1, <1>7, <2>1, <2>2, <2>4, <2>5
    DEF TurnInv, TurnFollowed, lifecycleVars, historyVars
  <2> QED
    BY <1>0, <2>2, <2>3, <2>6 DEF TurnInv, lifecycleVars, historyVars
<1> QED
  BY <1>1, <1>4, <1>5, <1>6, <1>7

LEMMA ReaderTurn == ASSUME TurnInv, Reader PROVE TurnInv'
<1>1. CASE \E l \in Lines : ReadLine(l)
  BY <1>1, ReadLineTurn
<1>2. CASE ApplyEffect
  BY <1>2, ApplyEffectTurn
<1>3. CASE \/ \E m \in Methods : \E x \in Responses(m) : ReadResponse(m, x)
           \/ SendReply \/ MarkProcessExited \/ ReaderReturns
  <2>1. /\ UNCHANGED <<readerLeaves, lines, process>>
        /\ exited' \in BOOLEAN
    BY <1>3 DEF ReadResponse, SendReply, MarkProcessExited, ReaderReturns, requestVars, serverVars,
      TurnInv, TurnTypeOK, ProcessTypeOK
  <2>2. ProcessTypeOK'
    BY <2>1 DEF TurnInv, TurnTypeOK, ProcessTypeOK, readerLeaves
  <2>3. TurnTypeOK'
    BY <2>1, <2>2, KeepTypes DEF TurnInv, TurnTypeOK, readerLeaves, lifecycleVars, signalVars,
      sessionVars, historyVars
  <2> QED
    BY <2>1, <2>3, TurnLeft DEF readerLeaves, lifecycleVars, signalVars, historyVars
<1> QED
  BY <1>1, <1>2, <1>3 DEF Reader

LEMMA NextTurnInv == TurnInv /\ [Next]_vars => TurnInv'
<1> SUFFICES ASSUME TurnInv, [Next]_vars PROVE TurnInv'
  OBVIOUS
<1>1. CASE UNCHANGED vars
  <2>1. UNCHANGED <<lifecycleVars, exited, readerVars, signalVars, lines, process, ctx, sessionVars,
                    historyVars>>
    BY <1>1 DEF vars, requestVars, serverVars
  <2>2. TurnTypeOK'
    BY <2>1, KeepTypes DEF TurnInv, TurnTypeOK, lifecycleVars, readerVars, signalVars, sessionVars,
      historyVars
  <2> QED
    BY <2>1, <2>2, TurnLeft DEF lifecycleVars, readerVars, signalVars, historyVars
<1> QED
  BY <1>1, RequestTurn, LoopTurn, FinishTurnInv, ReaderTurn, EnvironmentTurn
  DEF Next, Lifecycle, Terminated

-----------------------------------------------------------------------------
(* The Result *)

LEMMA InitChannels == Init => Channels /\ StatusFollows /\ AnswerIsReported
<1>1. Init => DOMAIN result = {}
  BY DEF Init
<1> QED
  BY <1>1 DEF Init, Channels, Before, Asking, Closing, StatusFollows, AnswerIsReported

\* How far the lifecycle is and which calls it has made go together.
LEMMA ChannelsStep ==
  ASSUME TurnInv, Channels, [Next]_vars
  PROVE  Channels'
<1> USE DEF Channels, Before, Asking, Closing
<1>1. CASE Request
  <2>1. UNCHANGED sessionVars /\ pc \in Asking /\ pc' \in Asking \cup {"reportFailure"}
    BY <1>1 DEF Request, RefusedAtOnce, RegisterPending, WriteRequest, WriteFails, TakeReply,
      AwaitSeesExit, AwaitCancelled, RequestFails, RequestSucceeds
  <2> QED
    BY <2>1 DEF sessionVars
<1>2. CASE Loop
  <2>1. UNCHANGED sessionVars /\ pc = "loop" /\ pc' \in {"loop", "report"}
    BY <1>2 DEF Loop, SeeTurnDone, SeeActivity, FirstTurnNoProgress, SemanticInactivity,
      SeeContextDone, SeeProcessDone, FinishTurn, FinishRunContextDone, Decide, loopLeaves
  <2> QED
    BY <2>1 DEF sessionVars
<1>3. CASE Report
  <2>1. pc \in Before /\ pc' = "drain" /\ UNCHANGED <<messages, resultOpen>>
    BY <1>3 DEF Report
  <2>2. result = <<>>
    BY <2>1
  <2>3. PICK r : result' = Append(result, r)
    BY <1>3 DEF Report
  <2>4. result' = <<r>>
    BY <2>2, <2>3
  <2>5. result' # <<>> /\ Len(result') = 1
    BY <2>4
  <2> QED
    BY <2>1, <2>5
<1>4. CASE CloseResult
  BY <1>4 DEF CloseResult
<1>5. CASE CloseMessages
  BY <1>5 DEF CloseMessages, TurnInv, TurnTypeOK, SessionTypeOK
<1>6. CASE Finish /\ ~(Report \/ CloseResult \/ CloseMessages)
  <2>1. /\ UNCHANGED sessionVars
        /\ pc \in {"drain", "join", "reap", "reapForced", "cancel"}
        /\ pc' \in {"drain", "join", "reap", "reapForced", "closeResult", "cancel", "done"}
        /\ pc = "cancel" <=> pc' = "done"
        /\ pc' # "cancel"
    BY <1>6 DEF Finish, DrainReader, DrainForced, JoinReader, Reap, ReapForced, CancelOnReturn
  <2> QED
    BY <2>1 DEF sessionVars
<1>7. CASE Reader \/ Environment \/ UNCHANGED vars
  <2>1. UNCHANGED <<pc, sessionVars>>
    BY <1>7 DEF Reader, ReadLine, ReadResponse, ApplyEffect, SendReply, MarkProcessExited,
      ReaderReturns, readerLeaves, Environment, ContextEnds, ProcessStops, Killed, processLeaves,
      lifecycleVars, vars
  <2> QED
    BY <2>1 DEF sessionVars
<1> QED
  BY <1>1, <1>2, <1>3, <1>4, <1>5, <1>6, <1>7 DEF Next, Lifecycle, Terminated, Finish

\* Once the turn has ended nothing more is counted, and its error stays set.
LEMMA TurnEndStands ==
  ASSUME TurnInv, [Next]_vars
  PROVE  /\ ended # "no" => UNCHANGED <<ended, spoken>>
         /\ turnError => turnError'
<1>1. CASE \E l \in Lines : ReadLine(l)
  BY <1>1 DEF ReadLine, Remember, historyVars, signalVars
<1>2. CASE ApplyEffect
  BY <1>2 DEF ApplyEffect, historyVars
<1>3. CASE Request
  BY <1>3 DEF Request, RefusedAtOnce, RegisterPending, WriteRequest, WriteFails, TakeReply,
    AwaitSeesExit, AwaitCancelled, historyVars, signalVars
<1>4. CASE Loop
  BY <1>4 DEF Loop, SeeTurnDone, SeeActivity, FirstTurnNoProgress, SemanticInactivity,
    SeeContextDone, SeeProcessDone, loopLeaves, historyVars
<1>5. CASE Finish
  BY <1>5 DEF Finish, Report, DrainReader, DrainForced, JoinReader, Reap, ReapForced, CloseResult,
    CloseMessages, CancelOnReturn, exitLeaves, historyVars, signalVars
<1>6. CASE \/ \E m \in Methods : \E x \in Responses(m) : ReadResponse(m, x)
           \/ SendReply \/ MarkProcessExited \/ ReaderReturns
  BY <1>6 DEF ReadResponse, SendReply, MarkProcessExited, ReaderReturns, readerLeaves, historyVars,
    signalVars
<1>7. CASE Environment \/ UNCHANGED vars
  BY <1>7 DEF Environment, ContextEnds, ProcessStops, Killed, processLeaves, vars, historyVars,
    signalVars
<1> QED
  BY <1>1, <1>2, <1>3, <1>4, <1>5, <1>6, <1>7 DEF Next, Lifecycle, Reader, Terminated

LEMMA VerdictStep ==
  ASSUME VerdictInv, [Next]_vars
  PROVE  StatusFollows' /\ AnswerIsReported'
<1>1. CASE Report
  <2>1. result = <<>> /\ pc \in {"report", "reportFailure"}
    BY <1>1 DEF Report, VerdictInv, Channels, Before, Asking
  <2> DEFINE r == [status |-> outcome.status, cause |-> outcome.cause,
                   output |-> IF pc = "report" THEN texts ELSE 0]
  <2>2. result' = <<r>>
    BY <1>1, <2>1 DEF Report
  <2>3. DOMAIN result' = {1} /\ result'[1] = r
    BY <2>2
  <2>4. outcome.cause = "turn" => OutcomeFollows /\ texts >= spoken /\ pc = "report"
    BY <2>1 DEF VerdictInv, TurnInv, TurnFollowed
  <2>5. UNCHANGED <<ended, spoken, turnError>>
    BY <1>1 DEF Report, exitLeaves, historyVars, signalVars
  <2>6. r.status = outcome.status /\ r.cause = outcome.cause
        /\ r.output = IF pc = "report" THEN texts ELSE 0
    OBVIOUS
  <2> HIDE DEF r
  <2> QED
    BY <2>3, <2>4, <2>5, <2>6 DEF StatusFollows, FollowsFirstEnd, AnswerIsReported, OutcomeFollows
<1>2. CASE ~Report
  <2>1. result' = result
    BY <1>2 DEF Next, Lifecycle, Request, RefusedAtOnce, RegisterPending, WriteRequest, WriteFails,
      TakeReply, AwaitSeesExit, AwaitCancelled, Loop, SeeTurnDone, SeeActivity,
      FirstTurnNoProgress, SemanticInactivity, SeeContextDone, SeeProcessDone, loopLeaves, Finish,
      DrainReader, DrainForced, JoinReader, Reap, ReapForced, CloseResult, CloseMessages,
      CancelOnReturn, Reader, ReadLine, ReadResponse, ApplyEffect, SendReply, MarkProcessExited,
      ReaderReturns, readerLeaves, Environment, ContextEnds, ProcessStops, Killed, processLeaves,
      Terminated, vars, sessionVars
  <2>2. /\ ended # "no" => UNCHANGED <<ended, spoken>>
        /\ turnError => turnError'
    BY TurnEndStands DEF VerdictInv
  <2>3. ASSUME NEW i \in DOMAIN result, result[i].cause = "turn"
        PROVE  ended # "no"
    BY <2>3 DEF VerdictInv, StatusFollows, FollowsFirstEnd
  <2> QED
    BY <2>1, <2>2, <2>3 DEF VerdictInv, StatusFollows, FollowsFirstEnd, AnswerIsReported
<1> QED
  BY <1>1, <1>2

LEMMA VerdictInvariant == Spec => [](RequestInv /\ VerdictInv)
<1>1. Init => RequestInv /\ VerdictInv
  BY InitRequestInv, InitTurnInv, InitChannels DEF VerdictInv
<1>2. RequestInv /\ VerdictInv /\ [Next]_vars => (RequestInv /\ VerdictInv)'
  BY RequestInvStep, NextTurnInv, ChannelsStep, VerdictStep DEF VerdictInv
<1> QED
  BY <1>1, <1>2, PTL DEF Spec

LEMMA PlanIsWritten ==
  ASSUME NEW t \in Plans
  PROVE  t \in Seq({"running", "progress", "retry", "text", "error", "end", "abort"})
<1>1. CASE t = <<>>
  BY <1>1
<1>2. CASE t = <<"end">>
  BY <1>2
<1>3. CASE t = <<"text">>
  BY <1>3
<1>4. CASE t = <<"abort">>
  BY <1>4
<1>5. CASE t = <<"retry">>
  BY <1>5
<1>6. CASE t = <<"error">>
  BY <1>6
<1>7. CASE t = <<"running">>
  BY <1>7
<1>8. CASE t = <<"progress">>
  BY <1>8
<1>9. CASE t = <<"text", "end">>
  BY <1>9
<1>10. CASE t = <<"error", "end">>
  BY <1>10
<1>11. CASE t = <<"progress", "text">>
  BY <1>11
<1>12. CASE t = <<"text", "progress">>
  BY <1>12
<1>13. CASE t = <<"progress", "text", "end">>
  BY <1>13
<1>14. CASE t = <<"progress", "error", "end">>
  BY <1>14
<1> QED
  BY <1>1, <1>2, <1>3, <1>4, <1>5, <1>6, <1>7, <1>8, <1>9, <1>10, <1>11, <1>12, <1>13, <1>14
  DEF Plans, TextPlans, EndPlans, ErrorPlans, OtherPlans

LEMMA SignalIsWritten ==
  ASSUME NEW d \in {<<>>, <<TRUE>>, <<FALSE>>}
  PROVE  d \in Seq(BOOLEAN) /\ Len(d) <= 1
<1>1. CASE d = <<>>
  BY <1>1
<1>2. CASE d = <<TRUE>>
  BY <1>2
<1>3. CASE d = <<FALSE>>
  BY <1>3
<1> QED
  BY <1>1, <1>2, <1>3

\* Only a legacy line of another thread is taken for the end of our turn, and the
\* client keeps to the legacy dialect once it has met it.
StrayIsLegacy == stray \in BOOLEAN /\ (stray => protocol = "legacy")

LEMMA StrayStep == ASSUME StrayIsLegacy, [Next]_vars PROVE StrayIsLegacy'
<1>1. CASE \E l \in Lines : ReadLine(l)
  <2>1. PICK l \in Lines : ReadLine(l)
    BY <1>1
  <2>2. protocol = "legacy" => protocol' = "legacy"
    BY <2>1 DEF ReadLine, NextProtocol
  <2>3. CASE stray' = stray
    BY <2>2, <2>3 DEF StrayIsLegacy
  <2>4. CASE stray' # stray
    <3>1. Handled(l) /\ stray' = ~l.own
      BY <2>1, <2>4 DEF ReadLine, Remember, historyVars
    <3>2. ~l.own => l.kind \in LegacyKinds
      <4>1. ASSUME l.kind = "server_request" PROVE l.own
        <5>1. l.own \in {TRUE}
          BY <4>1 DEF Lines, RawKinds, LegacyKinds
        <5> QED
          BY <5>1
      <4>2. l.kind \in LegacyKinds \cup {"server_request"} \/ l.own
        BY <3>1, Zenon DEF Handled, Ours
      <4> QED
        BY <4>1, <4>2, Zenon
    <3>3. ~l.own => protocol' = "legacy"
      <4>1. protocol' = NextProtocol(l)
        BY <2>1 DEF ReadLine
      <4>2. l.kind \in LegacyKinds => NextProtocol(l) = "legacy"
        BY DEF NextProtocol, Latching, RawKinds, LegacyKinds
      <4> QED
        BY <3>2, <4>1, <4>2, Zenon
    <3> QED
      BY <3>1, <3>3, Zenon DEF StrayIsLegacy
  <2> QED
    BY <2>3, <2>4
<1>2. CASE ~\E l \in Lines : ReadLine(l)
  <2>1. UNCHANGED <<stray, protocol>>
    BY <1>2
    DEF Next, Lifecycle, Request, RefusedAtOnce, RegisterPending, WriteRequest, WriteFails,
      TakeReply, AwaitSeesExit, AwaitCancelled, Loop, SeeTurnDone, SeeActivity,
      FirstTurnNoProgress, SemanticInactivity, SeeContextDone, SeeProcessDone, loopLeaves, Finish,
      Report, DrainReader, DrainForced, JoinReader, Reap, ReapForced, CloseResult, CloseMessages,
      CancelOnReturn, exitLeaves, Reader, ReadResponse, ApplyEffect, SendReply, MarkProcessExited,
      ReaderReturns, readerLeaves, Environment, ContextEnds, ProcessStops, Killed, processLeaves,
      Terminated, vars, readerVars, historyVars
  <2> QED
    BY <2>1 DEF StrayIsLegacy
<1> QED
  BY <1>1, <1>2

LEMMA StrayInvariant == Spec => []StrayIsLegacy
<1>1. Init => StrayIsLegacy
  BY DEF Init, StrayIsLegacy
<1> QED
  BY <1>1, StrayStep, PTL DEF Spec

\* Every variable of a codex session keeps its type: at most one signal in
\* turnDone, at most ActivityBuffer activities.
THEOREM TypeCorrect == Spec => []TypeOK
<1>1. RequestInv /\ VerdictInv /\ StrayIsLegacy => TypeOK
  <2> SUFFICES ASSUME RequestInv, VerdictInv, StrayIsLegacy PROVE TypeOK
    OBVIOUS
  <2>1. todo \in Seq({"running", "progress", "retry", "text", "error", "end", "abort"})
    BY PlanIsWritten DEF VerdictInv, TurnInv, TurnTypeOK
  <2>2. turnDone \in Seq(BOOLEAN) /\ Len(turnDone) <= 1
    BY SignalIsWritten DEF VerdictInv, TurnInv, TurnTypeOK
  <2>3. texts \in 0..MaxLines /\ spoken \in 0..MaxLines
    BY CodexAssumption
    DEF CodexAssumption, VerdictInv, TurnInv, TurnTypeOK, ReaderTypeOK, TextsRead
  <2> QED
    BY <2>1, <2>2, <2>3
    DEF TypeOK, RequestInv, RequestTypeOK, VerdictInv, TurnInv, TurnTypeOK, LoopTypeOK, Status,
        ActivityTypeOK, ReaderTypeOK, ProcessTypeOK, SessionTypeOK, StrayIsLegacy
<1> QED
  BY <1>1, VerdictInvariant, StrayInvariant, PTL

\* A verdict taken from the turn is that of the first line that ended it, which is
\* about our own thread as long as the client has met no legacy line.
THEOREM VerdictsFollowTurns == Spec => []VerdictFollowsTurn
<1>1. VerdictInv /\ StrayIsLegacy => VerdictFollowsTurn
  BY DEF VerdictInv, StatusFollows, StrayIsLegacy, VerdictFollowsTurn
<1> QED
  BY <1>1, VerdictInvariant, StrayInvariant, PTL

\* The Result has every text of our agent read before the turn ended.
THEOREM AnswersAreReported == Spec => []AnswerIsReported
<1>1. VerdictInv => AnswerIsReported
  BY DEF VerdictInv
<1> QED
  BY <1>1, VerdictInvariant, PTL

LEMMA SessionInit == Init => Session!Init
BY DEF Init, Session!Init

LEMMA SessionStep == VerdictInv /\ VerdictInv' /\ [Next]_vars => [Session!Next]_(Session!vars)
<1> SUFFICES ASSUME VerdictInv, VerdictInv', [Next]_vars PROVE [Session!Next]_(Session!vars)
  OBVIOUS
<1>1. CASE Report
  <2>1. pc \in Before /\ result = <<>> /\ resultOpen
    BY <1>1 DEF Report, VerdictInv, Channels, Before, Asking, Closing
  <2>2. PICK r : result' = Append(result, r)
    BY <1>1 DEF Report
  <2>3. result' = <<r>> /\ result' \in Seq(Results)
    BY <2>1, <2>2 DEF VerdictInv, TurnInv, TurnTypeOK, SessionTypeOK
  <2>4. r \in Results
    BY <2>3
  <2> QED
    BY <1>1, <2>1, <2>3, <2>4 DEF Report, Session!Next, Session!Report
<1>2. CASE CloseResult
  BY <1>2 DEF CloseResult, Session!Next, Session!CloseResult, VerdictInv, Channels, Before, Asking,
    Closing
<1>3. CASE CloseMessages
  BY <1>3 DEF CloseMessages, Session!Next, Session!CloseMessages, VerdictInv, Channels, Closing
<1>4. CASE ~(Report \/ CloseResult \/ CloseMessages)
  <2>1. UNCHANGED sessionVars
    BY <1>4 DEF Next, Lifecycle, Request, RefusedAtOnce, RegisterPending, WriteRequest, WriteFails,
      TakeReply, AwaitSeesExit, AwaitCancelled, Loop, SeeTurnDone, SeeActivity,
      FirstTurnNoProgress, SemanticInactivity, SeeContextDone, SeeProcessDone, loopLeaves, Finish,
      DrainReader, DrainForced, JoinReader, Reap, ReapForced, CancelOnReturn, Reader, ReadLine,
      ReadResponse, ApplyEffect, SendReply, MarkProcessExited, ReaderReturns, readerLeaves,
      Environment, ContextEnds, ProcessStops, Killed, processLeaves, Terminated, vars, sessionVars
  <2> QED
    BY <2>1 DEF sessionVars, Session!vars
<1> QED
  BY <1>1, <1>2, <1>3, <1>4

\* A codex session keeps the contract of adapter.Session: exactly one Result, then
\* the close of its channel, and one close of Messages.
THEOREM SessionContract == Spec => KeepsSessionContract
BY SessionInit, SessionStep, VerdictInvariant, PTL DEF Spec, KeepsSessionContract, Session!Spec
=============================================================================
