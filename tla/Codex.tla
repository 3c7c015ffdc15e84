------------------------------- MODULE Codex --------------------------------
(***************************************************************************)
(* The codex adapter (internal/adapter/codex.go): runCodexLifecycle, which *)
(* drives one session (initialize, thread/resume or thread/start,          *)
(* turn/start, wait for the turn, drain), the reader goroutine that parses *)
(* the app server's stdout, the context of the run, and the app server as  *)
(* the process at the other end of the pipes.                              *)
(*                                                                         *)
(* The two goroutines share the pending requests, processDone, turnDone    *)
(* and the activity channel; every access to one of them is a step.        *)
(***************************************************************************)
EXTENDS Integers, Sequences, Functions

CONSTANTS
  MaxLines,       \* bound: notifications and server requests one process sends
  ActivityBuffer  \* the capacity of semanticActivityCh

ASSUME CodexAssumption == MaxLines \in Nat /\ ActivityBuffer \in Nat \ {0}

Methods == {"initialize", "thread/resume", "thread/start", "turn/start"}
Replies == {"ok", "noThread", "error", "exit"}

VARIABLES
  pc,          \* where runCodexLifecycle is
  method,      \* the request it is making, or made last
  watch,       \* the first-turn timer: "unarmed", "armed", "stopped"
  outcome,     \* finalStatus, and which case of the code chose it
  pending,     \* client.pending, by method (each is requested once)
  reply,       \* contents of the pendingRPC channel of a method
  exited,      \* processErr is set and processDone closed
  reader,      \* the reader: "reading", "answering", "marked", "done"
  answer,      \* the response it is about to hand to a request
  todo,        \* what is left to do for the line it has read
  protocol,    \* notificationProtocol
  turnStarted, \* client.turnStarted
  completed,   \* the turn is in completedTurnIDs
  turnError,   \* client.turnError is set
  turnDone,    \* contents of the turnDone channel, TRUE for aborted
  activity,    \* contents of semanticActivityCh
  texts,       \* agent texts accumulated in output
  asked,       \* requests the app server has received and not answered
  lines,       \* notifications and requests read from it
  process,     \* the app server: "running", "mute" (stdout closed), "exited"
  ctx,         \* runCtx: "live", "cancelled" or "expired"
  messages,    \* the Messages channel: "open" or "closed"
  result,      \* everything put on the Result channel
  resultOpen,  \* the Result channel is not closed
  ended,       \* history: how the first line that ended the turn for us meant it
  stray,       \* history: that line was about another thread
  spoken       \* history: texts of our agent read by then

lifecycleVars == <<pc, method, watch, outcome>>
requestVars   == <<pending, reply, exited>>
readerVars    == <<reader, answer, todo, protocol, turnStarted, completed>>
signalVars    == <<turnError, turnDone, activity, texts>>
serverVars    == <<asked, lines, process>>
sessionVars   == <<messages, result, resultOpen>>
historyVars   == <<ended, stray, spoken>>
vars == <<lifecycleVars, requestVars, readerVars, signalVars, serverVars, ctx,
          sessionVars, historyVars>>

LifecyclePC == {"request", "write", "await", "loop", "reportFailure", "report", "drain",
                "join", "reap", "reapForced", "closeResult", "closeMessages", "cancel", "done"}

Outcome(status, cause) == [status |-> status, cause |-> cause]
Undecided == Outcome("completed", "none")
NoAnswer  == [method |-> "initialize", reply |-> "none"]
Causes == {"none", "turn", "noProgress", "inactive", "ctx", "exit", "write", "rpc", "noThread"}

CancelContext == ctx' = IF ctx = "live" THEN "cancelled" ELSE ctx

-----------------------------------------------------------------------------
(* codexClient.request, once per method *)

\* errCodexProcessExited and the "write " prefix; a cancelled context is not one.
IsTransportError(cause) == cause \in {"exit", "write"}

\* startOrResumeThread falls back to thread/start when a resume fails, unless
\* the transport did. Every other failure ends the session as failed.
RequestFails(cause) ==
  /\ IF method = "thread/resume" /\ ~IsTransportError(cause)
     THEN pc' = "request" /\ method' = "thread/start" /\ UNCHANGED outcome
     ELSE pc' = "reportFailure" /\ outcome' = Outcome("failed", cause) /\ UNCHANGED method
  /\ UNCHANGED watch

RequestSucceeds ==
  /\ \/ method = "initialize" /\ method' \in {"thread/resume", "thread/start"} /\ pc' = "request"
     \/ method \in {"thread/resume", "thread/start"} /\ method' = "turn/start" /\ pc' = "request"
     \/ method = "turn/start" /\ pc' = "loop" /\ UNCHANGED method
  /\ UNCHANGED <<watch, outcome>>

RefusedAtOnce ==
  /\ pc = "request" /\ (ctx # "live" \/ exited)
  /\ RequestFails(IF ctx # "live" THEN "ctx" ELSE "exit")
  /\ UNCHANGED <<requestVars, readerVars, signalVars, serverVars, ctx, sessionVars, historyVars>>

RegisterPending ==
  /\ pc = "request" /\ ctx = "live" /\ ~exited
  /\ pending' = pending \cup {method}
  /\ pc' = "write"
  /\ UNCHANGED <<method, watch, outcome, reply, exited, readerVars, signalVars, serverVars,
                 ctx, sessionVars, historyVars>>

\* The write reaches the app server, or fails once it no longer reads.
WriteRequest ==
  /\ pc = "write" /\ process # "exited"
  /\ asked' = asked \cup {method}
  /\ pc' = "await"
  /\ UNCHANGED <<method, watch, outcome, requestVars, readerVars, signalVars, lines, process,
                 ctx, sessionVars, historyVars>>

WriteFails ==
  /\ pc = "write" /\ process # "running"
  /\ pending' = pending \ {method}
  /\ RequestFails("write")
  /\ UNCHANGED <<reply, exited, readerVars, signalVars, serverVars, ctx, sessionVars,
                 historyVars>>

\* The three cases of the select: an answer, ...
TakeReply ==
  /\ pc = "await" /\ reply[method] # "none"
  /\ reply' = [reply EXCEPT ![method] = "none"]
  /\ \/ reply[method] = "error"    /\ RequestFails("rpc")
     \/ reply[method] = "exit"     /\ RequestFails("exit")
     \/ reply[method] = "noThread" /\ RequestFails("noThread")
     \/ reply[method] = "ok"       /\ RequestSucceeds
  /\ UNCHANGED <<pending, exited, readerVars, signalVars, serverVars, ctx, sessionVars,
                 historyVars>>

\* ... the end of the process, ...
AwaitSeesExit ==
  /\ pc = "await" /\ exited
  /\ pending' = pending \ {method}
  /\ RequestFails(IF ctx # "live" THEN "ctx" ELSE "exit")
  /\ UNCHANGED <<reply, exited, readerVars, signalVars, serverVars, ctx, sessionVars,
                 historyVars>>

\* ... or of the context.
AwaitCancelled ==
  /\ pc = "await" /\ ctx # "live"
  /\ pending' = pending \ {method}
  /\ RequestFails("ctx")
  /\ UNCHANGED <<reply, exited, readerVars, signalVars, serverVars, ctx, sessionVars,
                 historyVars>>

Request == RefusedAtOnce \/ RegisterPending \/ WriteRequest \/ WriteFails
           \/ TakeReply \/ AwaitSeesExit \/ AwaitCancelled

-----------------------------------------------------------------------------
(* The loop that waits for the turn *)

loopLeaves == <<method, requestVars, readerVars, turnError, texts, serverVars, ctx,
                sessionVars, historyVars>>

Decide(status, cause) == outcome' = Outcome(status, cause) /\ pc' = "report"

\* finishTurn: the error is read now, not when the turn ended.
FinishTurn ==
  /\ turnDone # <<>>
  /\ turnDone' = Tail(turnDone)
  /\ Decide(CASE Head(turnDone) -> "aborted"
              [] ~Head(turnDone) /\ turnError -> "failed"
              [] OTHER -> "completed", "turn")

FinishRunContextDone == Decide(IF ctx = "expired" THEN "timeout" ELSE "aborted", "ctx")

SeeTurnDone ==
  /\ pc = "loop"
  /\ FinishTurn
  /\ UNCHANGED <<watch, activity, loopLeaves>>

\* Any activity resets the inactivity timer; the first "status:running" arms the
\* first-turn timer, the first sign of progress after it stops it.
SeeActivity ==
  /\ pc = "loop" /\ activity # <<>>
  /\ activity' = Tail(activity)
  /\ watch' = CASE Head(activity) = "running" /\ watch = "unarmed" -> "armed"
                [] Head(activity) = "progress" /\ watch = "armed"  -> "stopped"
                [] OTHER -> watch
  /\ UNCHANGED <<pc, outcome, turnDone, loopLeaves>>

\* Either timer may win against an activity that is ready at the same instant.
FirstTurnNoProgress ==
  /\ pc = "loop" /\ watch = "armed"
  /\ Decide("timeout", "noProgress")
  /\ UNCHANGED <<watch, activity, turnDone, loopLeaves>>

\* Mutant: no inactivity timer.
NeverInactive == FALSE /\ pc' = "report" /\ UNCHANGED <<watch, outcome, activity, turnDone, loopLeaves>>

SemanticInactivity ==
  /\ pc = "loop"
  /\ Decide("timeout", "inactive")
  /\ UNCHANGED <<watch, activity, turnDone, loopLeaves>>

SeeContextDone ==
  /\ pc = "loop" /\ ctx # "live"
  /\ FinishRunContextDone
  /\ UNCHANGED <<watch, activity, turnDone, loopLeaves>>

\* A turn that ended before the process did still counts.
SeeProcessDone ==
  /\ pc = "loop" /\ exited
  /\ \/ FinishTurn
     \/ turnDone = <<>> /\ ctx # "live" /\ FinishRunContextDone /\ UNCHANGED turnDone
     \/ turnDone = <<>> /\ ctx = "live" /\ Decide("failed", "exit") /\ UNCHANGED turnDone
  /\ UNCHANGED <<watch, activity, loopLeaves>>

Loop == SeeTurnDone \/ SeeActivity \/ FirstTurnNoProgress \/ SemanticInactivity
        \/ SeeContextDone \/ SeeProcessDone

-----------------------------------------------------------------------------
(* The Result, and the deferred calls *)

exitLeaves == <<method, watch, outcome, requestVars, readerVars, signalVars, asked, lines,
                process, historyVars>>

\* Mutant: the early failure paths return without a Result.
ReportOnlyVerdicts ==
  /\ pc \in {"report", "reportFailure"}
  /\ result' = IF pc = "reportFailure" THEN result
               ELSE Append(result, [status |-> outcome.status, cause |-> outcome.cause,
                                    output |-> texts])
  /\ pc' = "drain"
  /\ UNCHANGED <<ctx, messages, resultOpen, exitLeaves>>

\* Exactly one Result; the early failure paths leave the output out of it.
Report ==
  /\ pc \in {"report", "reportFailure"}
  /\ result' = Append(result, [status |-> outcome.status, cause |-> outcome.cause,
                               output |-> IF pc = "report" THEN texts ELSE 0])
  /\ pc' = "drain"
  /\ UNCHANGED <<ctx, messages, resultOpen, exitLeaves>>

\* drainAndWait: stdin is closed, then the reader awaited, ...
DrainReader ==
  /\ pc = "drain" /\ reader = "done"
  /\ pc' = "reap"
  /\ UNCHANGED <<ctx, sessionVars, exitLeaves>>

\* Mutant: after the grace period the reader is not waited for.
DrainForcedWithoutJoin ==
  /\ pc = "drain"
  /\ CancelContext
  /\ pc' = "reap"
  /\ UNCHANGED <<sessionVars, exitLeaves>>

\* ... for a grace period, after which the process group is killed.
DrainForced ==
  /\ pc = "drain"
  /\ CancelContext
  /\ pc' = "join"
  /\ UNCHANGED <<sessionVars, exitLeaves>>

JoinReader ==
  /\ pc = "join" /\ reader = "done"
  /\ pc' = "reap"
  /\ UNCHANGED <<ctx, sessionVars, exitLeaves>>

\* cmd.Wait returns, in the same grace period or after the kill.
Reap ==
  /\ pc \in {"reap", "reapForced"} /\ process = "exited"
  /\ pc' = "closeResult"
  /\ UNCHANGED <<ctx, sessionVars, exitLeaves>>

ReapForced ==
  /\ pc = "reap"
  /\ CancelContext
  /\ pc' = "reapForced"
  /\ UNCHANGED <<sessionVars, exitLeaves>>

CloseResult ==
  /\ pc = "closeResult"
  /\ resultOpen' = FALSE
  /\ pc' = "closeMessages"
  /\ UNCHANGED <<ctx, messages, result, exitLeaves>>

CloseMessages ==
  /\ pc = "closeMessages"
  /\ messages' = "closed"
  /\ pc' = "cancel"
  /\ UNCHANGED <<ctx, result, resultOpen, exitLeaves>>

CancelOnReturn ==
  /\ pc = "cancel"
  /\ CancelContext
  /\ pc' = "done"
  /\ UNCHANGED <<sessionVars, exitLeaves>>

Finish == Report \/ DrainReader \/ DrainForced \/ JoinReader \/ Reap \/ ReapForced
          \/ CloseResult \/ CloseMessages \/ CancelOnReturn

Lifecycle == Request \/ Loop \/ Finish

-----------------------------------------------------------------------------
(* What the app server may put on stdout. A notification of either dialect is  *)
(* about our thread or that of a subagent, which exists only within our turn.  *)

RawKinds    == {"thread/started", "turn/started", "item", "final_answer", "turn/completed",
                "turn/failed", "turn/aborted", "error", "error:retry", "idle"}
LegacyKinds == {"task_started", "agent_message", "task_complete", "turn_aborted"}
Latching    == RawKinds \ {"error", "error:retry", "idle"}

\* Before the turn is started: news of the thread, errors, requests to the client.
EarlyKinds  == {"thread/started", "error", "error:retry", "server_request"}

Lines == [kind : RawKinds \cup LegacyKinds, own : BOOLEAN]
         \cup [kind : {"server_request"}, own : {TRUE}]

\* A result, an error, and where it matters a result without a thread id.
Responses(m) == IF m \in {"thread/resume", "thread/start"} THEN {"ok", "noThread", "error"}
                ELSE {"ok", "error"}

TurnAsked == method = "turn/start" /\ pc \notin {"request", "write"}
Arrives(l) == TurnAsked \/ (l.kind \in EarlyKinds /\ l.own)

-----------------------------------------------------------------------------
(* The reader goroutine *)

\* Mutant: notifications of other threads are not filtered out.
AnyThread(l) == TRUE

\* The thread filter of handleRawNotification. handleEvent, which takes the
\* legacy lines, has none.
Ours(l) == l.own

\* handleNotification latches the protocol of the first notification it knows;
\* legacy events win from then on.
NextProtocol(l) ==
  CASE l.kind \in LegacyKinds -> "legacy"
    [] l.kind \in Latching /\ protocol = "unknown" -> "raw"
    [] OTHER -> protocol

Handled(l) ==
  \/ l.kind \in LegacyKinds \cup {"server_request"}
  \/ NextProtocol(l) = "raw" /\ Ours(l)

EndOnce == IF completed THEN <<>> ELSE <<"end">>

\* Mutant: the end of the turn is signalled before the text is accumulated.
FinalAnswerEndsFirst ==
  IF turnStarted THEN <<"progress", "end", "text">> ELSE <<"progress", "text">>

\* item/completed of an agent message in phase final_answer.
FinalAnswer == IF turnStarted THEN <<"progress", "text", "end">> ELSE <<"progress", "text">>

\* What handleEvent, handleRawNotification, handleItemNotification and
\* handleServerRequest do to the shared state, in their order: report an
\* activity, accumulate a text, set the turn's error, end the turn.
Effects(l) ==
  CASE l.kind \in {"turn/started", "task_started"} -> <<"running">>
    [] l.kind = "item"           -> <<"progress">>
    [] l.kind = "agent_message"  -> <<"text", "progress">>
    [] l.kind = "final_answer"   -> FinalAnswer
    [] l.kind = "turn/completed" -> EndOnce
    [] l.kind = "turn/failed"    -> IF completed THEN <<"error">> ELSE <<"error", "end">>
    [] l.kind = "turn/aborted"   -> IF completed THEN <<>> ELSE <<"abort">>
    [] l.kind = "error"          -> <<"progress", "error", "end">>
    [] l.kind = "error:retry"    -> <<"retry">>
    [] l.kind = "idle"           -> IF turnStarted THEN <<"end">> ELSE <<>>
    [] l.kind = "server_request" -> <<"error">>
    [] l.kind = "task_complete"  -> <<"end">>
    [] l.kind = "turn_aborted"   -> <<"abort">>
    [] OTHER -> <<>>

\* How the app server meant the line, for the history variables.
Meaning(l) ==
  CASE l.kind \in {"turn/failed", "error"}         -> "failed"
    [] l.kind \in {"turn/aborted", "turn_aborted"} -> "aborted"
    [] OTHER -> "ok"

Remember(l, effects) ==
  /\ spoken' = IF l.own /\ ended = "no" /\ "text" \in Range(effects) THEN spoken + 1 ELSE spoken
  /\ IF ended = "no" /\ Range(effects) \cap {"end", "abort"} # {}
     THEN ended' = Meaning(l) /\ stray' = ~l.own
     ELSE UNCHANGED <<ended, stray>>

ReadLine(l) ==
  /\ reader = "reading" /\ todo = <<>>
  /\ lines < MaxLines /\ Arrives(l)
  /\ lines' = lines + 1
  /\ protocol' = NextProtocol(l)
  /\ IF Handled(l)
     THEN /\ todo' = Effects(l)
          /\ turnStarted' = (turnStarted \/ l.kind \in {"turn/started", "task_started"})
          /\ completed' = (completed \/ l.kind \in {"turn/completed", "turn/failed", "turn/aborted"})
          /\ Remember(l, Effects(l))
     ELSE UNCHANGED <<todo, turnStarted, completed, historyVars>>
  /\ UNCHANGED <<lifecycleVars, requestVars, reader, answer, signalVars, asked, process, ctx,
                 sessionVars>>

\* Mutant: the signal does not look at what is already in the channel.
SignalUnbounded(aborted) == turnDone' = Append(turnDone, aborted)

\* onTurnDone: the first end of turn is the one that counts.
SignalTurnDone(aborted) == turnDone' = IF turnDone = <<>> THEN <<aborted>> ELSE turnDone

\* trySendString: dropped when the channel is full.
SignalActivity(a) ==
  activity' = IF Len(activity) < ActivityBuffer THEN Append(activity, a) ELSE activity

ApplyEffect ==
  /\ todo # <<>>
  /\ todo' = Tail(todo)
  /\ CASE Head(todo) = "text"  -> texts' = texts + 1 /\ UNCHANGED <<turnError, turnDone, activity>>
       [] Head(todo) = "error" -> turnError' = TRUE /\ UNCHANGED <<texts, turnDone, activity>>
       [] Head(todo) \in {"end", "abort"} ->
            SignalTurnDone(Head(todo) = "abort") /\ UNCHANGED <<texts, turnError, activity>>
       [] OTHER -> SignalActivity(Head(todo)) /\ UNCHANGED <<texts, turnError, turnDone>>
  /\ UNCHANGED <<lifecycleVars, requestVars, reader, answer, protocol, turnStarted, completed,
                 serverVars, ctx, sessionVars, historyVars>>

readerLeaves == <<lifecycleVars, todo, protocol, turnStarted, completed, signalVars, ctx,
                  sessionVars, historyVars>>

\* Mutant: the request stays pending when it is answered.
ReadResponseKeepsPending(m, x) ==
  /\ reader = "reading" /\ todo = <<>> /\ m \in asked
  /\ asked' = asked \ {m}
  /\ IF m \in pending
     THEN reader' = "answering" /\ answer' = [method |-> m, reply |-> x]
     ELSE UNCHANGED <<reader, answer>>
  /\ UNCHANGED <<pending, reply, exited, lines, process, readerLeaves>>

\* handleResponse, under the lock: a response nobody waits for is ignored.
ReadResponse(m, x) ==
  /\ reader = "reading" /\ todo = <<>> /\ m \in asked
  /\ asked' = asked \ {m}
  /\ pending' = pending \ {m}
  /\ IF m \in pending
     THEN reader' = "answering" /\ answer' = [method |-> m, reply |-> x]
     ELSE UNCHANGED <<reader, answer>>
  /\ UNCHANGED <<reply, exited, lines, process, readerLeaves>>

\* The send outside the lock, which blocks while the channel is full.
SendReply ==
  /\ reader = "answering" /\ reply[answer.method] = "none"
  /\ reply' = [reply EXCEPT ![answer.method] = answer.reply]
  /\ reader' = "reading" /\ answer' = NoAnswer
  /\ UNCHANGED <<pending, exited, serverVars, readerLeaves>>

\* End of stdout, or a line longer than the scanner's buffer: markProcessExited
\* tells the pending request too, holding the lock while it does.
MarkProcessExited ==
  /\ reader = "reading" /\ todo = <<>>
  /\ process # "running" \/ lines < MaxLines
  /\ \A m \in pending : reply[m] = "none"
  /\ exited' = TRUE
  /\ reply' = [m \in Methods |-> IF m \in pending THEN "exit" ELSE reply[m]]
  /\ pending' = {}
  /\ reader' = "marked"
  /\ UNCHANGED <<answer, serverVars, readerLeaves>>

ReaderReturns ==
  /\ reader = "marked"
  /\ reader' = "done"
  /\ UNCHANGED <<answer, requestVars, serverVars, readerLeaves>>

Reader ==
  \/ \E l \in Lines : ReadLine(l)
  \/ \E m \in Methods : \E x \in Responses(m) : ReadResponse(m, x)
  \/ ApplyEffect \/ SendReply \/ MarkProcessExited \/ ReaderReturns

-----------------------------------------------------------------------------
(* The context and the process *)

processLeaves == <<lifecycleVars, requestVars, readerVars, signalVars, asked, lines,
                   sessionVars, historyVars>>

\* The caller cancels, or the deadline of the run passes.
ContextEnds ==
  /\ ctx = "live"
  /\ ctx' \in {"cancelled", "expired"}
  /\ UNCHANGED <<process, processLeaves>>

\* The app server closes its stdout, or exits at any moment.
ProcessStops ==
  /\ \/ process = "running" /\ process' = "mute"
     \/ process # "exited" /\ process' = "exited"
  /\ UNCHANGED <<ctx, processLeaves>>

\* Mutant: the kill reaches the wrapper only; the server it spawned lives on.
KillWrapperOnly ==
  /\ ctx # "live" /\ process = "mute"
  /\ process' = "exited"
  /\ UNCHANGED <<ctx, processLeaves>>

\* cmd.Cancel: SIGKILL to the process group of a command whose context is done.
Killed ==
  /\ ctx # "live" /\ process # "exited"
  /\ process' = "exited"
  /\ UNCHANGED <<ctx, processLeaves>>

Environment == ContextEnds \/ ProcessStops \/ Killed

-----------------------------------------------------------------------------

Init ==
  /\ pc = "request" /\ method = "initialize"
  /\ watch = "unarmed" /\ outcome = Undecided
  /\ pending = {} /\ reply = [m \in Methods |-> "none"] /\ exited = FALSE
  /\ reader = "reading" /\ answer = NoAnswer /\ todo = <<>>
  /\ protocol = "unknown" /\ turnStarted = FALSE /\ completed = FALSE
  /\ turnError = FALSE /\ turnDone = <<>> /\ activity = <<>> /\ texts = 0
  /\ asked = {} /\ lines = 0 /\ process = "running"
  /\ ctx = "live"
  /\ messages = "open" /\ result = <<>> /\ resultOpen = TRUE
  /\ ended = "no" /\ stray = FALSE /\ spoken = 0

Terminated == pc = "done" /\ UNCHANGED vars

Next == Lifecycle \/ Reader \/ Environment \/ Terminated

\* Both goroutines are scheduled, armed timers fire, a killed process dies and
\* its pipes close. Nothing makes a live app server say or answer anything, nor
\* the caller cancel.
Fairness ==
  /\ WF_vars(Lifecycle)
  /\ WF_vars(ApplyEffect) /\ WF_vars(SendReply) /\ WF_vars(ReaderReturns)
  /\ WF_vars(process # "running" /\ MarkProcessExited)
  /\ WF_vars(Killed)

Spec     == Init /\ [][Next]_vars
FairSpec == Spec /\ Fairness

-----------------------------------------------------------------------------
(* Properties *)

Results == [status : {"completed", "failed", "aborted", "timeout"}, cause : Causes,
            output : 0..MaxLines]

\* Every variable has the type of its Go counterpart; the turnDone channel has
\* room for one signal and semanticActivityCh for ActivityBuffer.
TypeOK ==
  /\ pc \in LifecyclePC /\ method \in Methods
  /\ watch \in {"unarmed", "armed", "stopped"}
  /\ outcome \in [status : {"completed", "failed", "aborted", "timeout"}, cause : Causes]
  /\ pending \subseteq Methods /\ reply \in [Methods -> Replies \cup {"none"}]
  /\ exited \in BOOLEAN
  /\ reader \in {"reading", "answering", "marked", "done"}
  /\ answer \in [method : Methods, reply : Replies \cup {"none"}]
  /\ todo \in Seq({"running", "progress", "retry", "text", "error", "end", "abort"})
  /\ protocol \in {"unknown", "legacy", "raw"}
  /\ turnStarted \in BOOLEAN /\ completed \in BOOLEAN /\ turnError \in BOOLEAN
  /\ turnDone \in Seq(BOOLEAN) /\ Len(turnDone) <= 1
  /\ activity \in Seq({"running", "progress", "retry"}) /\ Len(activity) <= ActivityBuffer
  /\ texts \in 0..MaxLines
  /\ asked \subseteq Methods /\ lines \in 0..MaxLines
  /\ process \in {"running", "mute", "exited"}
  /\ ctx \in {"live", "cancelled", "expired"}
  /\ messages \in {"open", "closed"} /\ result \in Seq(Results) /\ resultOpen \in BOOLEAN
  /\ ended \in {"no", "ok", "failed", "aborted"} /\ stray \in BOOLEAN /\ spoken \in 0..MaxLines

\* The reader sends on Messages from handleLine: were the channel closed before
\* the reader is joined, that send would panic and take the daemon down.
MessagesOutliveReader == messages = "closed" => reader = "done"

\* The channel of a request still pending is empty, and so is the one a
\* response in hand is for: the reader never blocks on a send, in particular
\* not inside markProcessExited, which holds the client's lock.
ReaderNeverBlocks ==
  /\ \A m \in pending : reply[m] = "none"
  /\ reader = "answering" => reply[answer.method] = "none"

\* The verdict of a result is what the app server said first.
FollowsFirstEnd(res) ==
  CASE res.status = "completed" -> ended = "ok"
    [] res.status = "aborted"   -> ended = "aborted"
    [] OTHER                    -> ended \in {"ok", "failed"} /\ turnError

\* A verdict taken from the turn is that of the first line that ended it, and no
\* success if that was a failure, whatever lines came later. "Only our thread should
\* drive turn lifecycle" is kept in the raw dialect: a line about a subagent ends
\* our turn only if it is a legacy one, which no filter looks at.
VerdictFollowsTurn ==
  \A i \in DOMAIN result : result[i].cause = "turn" =>
    FollowsFirstEnd(result[i]) /\ (stray => protocol = "legacy")

\* trySend's "final output is accumulated separately in Result.Output": every text
\* of our agent that was read before the turn ended is in it.
AnswerIsReported ==
  \A i \in DOMAIN result : result[i].cause = "turn" => result[i].output >= spoken

\* A run whose context is cancelled ends as "cancelled" (docs: "SIGINT / SIGTERM
\* cancel the run's context ... the terminal event is cancelled").
CancelledIsReported ==
  \A i \in DOMAIN result : result[i].cause = "ctx" => result[i].status \in {"aborted", "timeout"}

\* A session whose context is done ends, whatever the app server does.
CancelledSessionEnds == ctx # "live" ~> pc = "done"

\* Once turn/start is acknowledged a session ends even if the app server falls
\* silent for ever: the inactivity timer is running.
StartedTurnEnds == pc = "loop" ~> pc = "done"

\* The comment on the inactivity timeout, which "bounds a 'no progress' run", of
\* every session.
SilentSessionEnds == <>(pc = "done")
=============================================================================
