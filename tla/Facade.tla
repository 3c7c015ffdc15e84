------------------------------- MODULE Facade -------------------------------
(***************************************************************************)
(* The orchestration layer of aiclibridge (internal/facade/facade.go)      *)
(* together with the parts of its environment it synchronises with: one    *)
(* StartRun goroutine per request, one forwardEvents goroutine per started *)
(* run, the adapter session it drains, the HTTP handler (or drainEvents)   *)
(* reading the live stream, the SQLite rows of the run, CancelRun, and the *)
(* shutdown sequence of the daemon (HTTP server, Facade.Close, store).     *)
(*                                                                         *)
(* Every access to state shared by two goroutines is a step of its own.    *)
(***************************************************************************)
EXTENDS Integers, Sequences, FiniteSets, Functions

CONSTANTS
  Runs,           \* the requests, hence the run ids newRunID can hand out
  MaxConcurrent,  \* cfg.MaxConcurrentRuns; 0 builds no semaphore: unlimited
  EventsBuffer,   \* eventsChanBuffer, the capacity of RunHandle.Events
  MessagesBuffer, \* the capacity of the adapter's Messages channel
  MaxMessages,    \* bound: messages one CLI process emits
  Results,        \* the values adapters put on Session.Result
  StoreFaults,    \* TRUE when a SQLite write may fail
  MayShutDown,    \* TRUE when the daemon may receive SIGTERM
  MayPoll         \* TRUE when a client may call GetRun

AdapterStatus == {"completed", "failed", "aborted", "cancelled", "timeout", ""}
Terminal      == {"completed", "failed", "cancelled", "timeout"}

ASSUME FacadeAssumption ==
  /\ IsFiniteSet(Runs)
  /\ MaxConcurrent \in Nat
  /\ EventsBuffer \in Nat \ {0}
  /\ MessagesBuffer \in Nat \ {0}
  /\ MaxMessages \in Nat
  /\ Results \subseteq [status : AdapterStatus, session : BOOLEAN]
  /\ StoreFaults \in BOOLEAN
  /\ MayShutDown \in BOOLEAN
  /\ MayPoll \in BOOLEAN

VARIABLES
  pc,         \* where the StartRun call of a request is
  fw,         \* where the forwardEvents goroutine of a run is
  sem,        \* len(concurrencySem)
  active,     \* activeCount
  queued,     \* queuedCount
  released,   \* runs whose slotOnce has fired
  live,       \* keys of the runs sync.Map
  cancelled,  \* runs whose derived context is done
  adapter,    \* the session behind a run: "off", "running", "finished", "nil"
  emitted,    \* messages the CLI process has produced
  inbox,      \* contents of Session.Messages
  result,     \* contents of Session.Result
  seq,        \* forwardEvents' local sequence counter
  cur,        \* the event forwardEvents has in hand
  events,     \* contents of RunHandle.Events
  closed,     \* runs whose Events channel is closed
  done,       \* runs whose done channel is closed
  row,        \* runs.status of a run, "absent" before CreateRun succeeded
  log,        \* the run's rows of the events table, in seq order
  sessions,   \* runs with a row in the sessions table
  lost,       \* history: runs of which a store write has failed
  client,     \* the reader of Events: "waiting", "reading", "gone", "finished"
  got,        \* events that reader has received
  server,     \* progress of serveStack's shutdown
  handles,    \* the handles Facade.Close collected
  view        \* the GetRun call in progress for a run

startVars   == <<pc, sem, active, queued, released>>
sessionVars == <<adapter, emitted, inbox, result>>
forwardVars == <<fw, seq, cur, closed, done>>
streamVars  == <<events, client, got>>
storeVars   == <<row, log, sessions, lost>>
serverVars  == <<server, handles, view>>
vars == <<pc, fw, sem, active, queued, released, live, cancelled, adapter, emitted,
          inbox, result, seq, cur, events, closed, done, row, log, sessions, lost,
          client, got, server, handles, view>>

StartPC == {"idle", "created", "queued", "acquired", "dequeued", "execute", "execFailed",
            "uncount", "refusing", "refused", "register", "spawn", "returned"}
ForwardPC == {"none", "recv", "persist", "offer", "await", "persistResult", "sendResult",
              "finish", "saveSession", "closeEvents", "closeDone", "unregister",
              "cancel", "release", "decrement", "exited"}
ServerPC == {"serving", "draining", "closing", "waiting", "storeClosed"}

-----------------------------------------------------------------------------
(* Results and events *)

Unsent     == [status |-> "unsent", session |-> FALSE]  \* nothing on the channel yet
ZeroResult == [status |-> "", session |-> FALSE]        \* receive from a closed channel
NoResult   == [status |-> "failed", session |-> FALSE]  \* resultWaitTimeout, nil channel

normalizeStatus(s) ==
  CASE s \in {"aborted", "cancelled"} -> "cancelled"
    [] s = ""                         -> "failed"
    [] OTHER                          -> s

Event(s, kind, item, status, session) ==
  [seq |-> s, kind |-> kind, item |-> item, status |-> status, session |-> session]

NoEvent              == Event(0, "none", 0, "", FALSE)
messageToEvent(m, s) == Event(s, "message", m, "", FALSE)
panicEvent(s)        == Event(s, "error", 0, "", FALSE)
resultToEvent(res, s) ==
  Event(s, "result", 0, normalizeStatus(res.status), res.session)

-----------------------------------------------------------------------------
(* Store writes: each may fail when the store is faulty, all fail once it is *)
(* closed, and every failure is logged and swallowed by its caller.          *)

StoreOutcomes ==
  IF server = "storeClosed" THEN {FALSE} ELSE IF StoreFaults THEN BOOLEAN ELSE {TRUE}

Written(r, ok) == lost' = IF ok THEN lost ELSE lost \cup {r}

CreateRun(r) ==
  \E ok \in StoreOutcomes :
    /\ row' = IF ok THEN [row EXCEPT ![r] = "pending"] ELSE row
    /\ Written(r, ok)

AppendEvent(r, ev) ==
  \E ok \in StoreOutcomes :
    /\ log' = IF ok THEN [log EXCEPT ![r] = Append(@, ev)] ELSE log
    /\ Written(r, ok)

\* An update of a row that was never created is an error too.
FinishRun(r, status) ==
  \E ok \in StoreOutcomes :
    /\ row' = IF ok /\ row[r] # "absent" THEN [row EXCEPT ![r] = status] ELSE row
    /\ Written(r, ok /\ row[r] # "absent")

SaveSession(r) ==
  \E ok \in StoreOutcomes :
    /\ sessions' = IF ok THEN sessions \cup {r} ELSE sessions
    /\ Written(r, ok)

-----------------------------------------------------------------------------
(* StartRun *)

\* A routable request arrives: the pending row is written (a store failure is
\* not fatal) and the run's context derived from the request's.
Submit(r) ==
  /\ pc[r] = "idle"
  /\ server = "serving"
  /\ CreateRun(r)
  /\ pc' = [pc EXCEPT ![r] = IF MaxConcurrent > 0 THEN "created" ELSE "execute"]
  /\ UNCHANGED <<sem, active, queued, released, live, cancelled, log, sessions,
                 sessionVars, forwardVars, streamVars, serverVars>>

\* queuedCount is incremented before the select blocks.
EnterQueue(r) ==
  /\ pc[r] = "created"
  /\ queued' = queued + 1
  /\ pc' = [pc EXCEPT ![r] = "queued"]
  /\ UNCHANGED <<sem, active, released, live, cancelled, sessionVars, forwardVars,
                 streamVars, storeVars, serverVars>>

\* The select's send case: a slot of the semaphore.
Acquire(r) ==
  /\ pc[r] = "queued"
  /\ sem < MaxConcurrent
  /\ sem' = sem + 1
  /\ pc' = [pc EXCEPT ![r] = "acquired"]
  /\ UNCHANGED <<active, queued, released, live, cancelled, sessionVars, forwardVars,
                 streamVars, storeVars, serverVars>>

\* Mutants: the error path goes on instead of returning, ...
LeaveQueueFallsThrough(r) ==
  /\ pc[r] = "queued"
  /\ queued' = queued - 1
  /\ cancelled' = cancelled \cup {r}
  /\ pc' = [pc EXCEPT ![r] = "execute"]
  /\ UNCHANGED <<sem, active, released, live, sessionVars, forwardVars, streamVars,
                 storeVars, serverVars>>

\* ... after it has finalised the row, ...
LeaveQueueFinalisesAndGoesOn(r) ==
  /\ pc[r] = "queued"
  /\ queued' = queued - 1
  /\ cancelled' = cancelled \cup {r}
  /\ FinishRun(r, "failed")
  /\ pc' = [pc EXCEPT ![r] = "execute"]
  /\ UNCHANGED <<sem, active, released, live, sessionVars, forwardVars, streamVars,
                 log, sessions, serverVars>>

\* ... or forgets to count the request out of the queue.
LeaveQueueStillCounted(r) ==
  /\ pc[r] = "queued"
  /\ cancelled' = cancelled \cup {r}
  /\ pc' = [pc EXCEPT ![r] = "refusing"]
  /\ UNCHANGED <<sem, active, queued, released, live, sessionVars, forwardVars, streamVars,
                 storeVars, serverVars>>

\* The other two cases: time.After(queueTimeout) fired, whatever queueTimeout
\* is, or the caller's context is done. Both leave the queue and cancel.
LeaveQueue(r) ==
  /\ pc[r] = "queued"
  /\ queued' = queued - 1
  /\ cancelled' = cancelled \cup {r}
  /\ pc' = [pc EXCEPT ![r] = "refusing"]
  /\ UNCHANGED <<sem, active, released, live, sessionVars, forwardVars, streamVars,
                 storeVars, serverVars>>

\* Mutant: no timer in the select.
NoQueueTimeout(r) == FALSE /\ LeaveQueue(r)

QueueTimeout(r)         == LeaveQueue(r)
CancelledWhileQueued(r) == r \in cancelled /\ LeaveQueue(r)

\* Once through the select: queuedCount down, then activeCount up.
Dequeue(r) ==
  /\ pc[r] = "acquired"
  /\ queued' = queued - 1
  /\ pc' = [pc EXCEPT ![r] = "dequeued"]
  /\ UNCHANGED <<sem, active, released, live, cancelled, sessionVars, forwardVars,
                 streamVars, storeVars, serverVars>>

CountActive(r) ==
  /\ pc[r] = "dequeued"
  /\ active' = active + 1
  /\ pc' = [pc EXCEPT ![r] = "execute"]
  /\ UNCHANGED <<sem, queued, released, live, cancelled, sessionVars, forwardVars,
                 streamVars, storeVars, serverVars>>

\* safeExecute: the adapter starts a session, or returns an error or panics
\* (both are the error path), or returns neither session nor error.
ExecuteStarts(r) ==
  /\ pc[r] = "execute"
  /\ \E a \in {"running", "nil"} : adapter' = [adapter EXCEPT ![r] = a]
  /\ pc' = [pc EXCEPT ![r] = "register"]
  /\ UNCHANGED <<sem, active, queued, released, live, cancelled, emitted, inbox, result,
                 forwardVars, streamVars, storeVars, serverVars>>

ExecuteFails(r) ==
  /\ pc[r] = "execute"
  /\ cancelled' = cancelled \cup {r}
  /\ pc' = [pc EXCEPT ![r] = "execFailed"]
  /\ UNCHANGED <<sem, active, queued, released, live, sessionVars, forwardVars,
                 streamVars, storeVars, serverVars>>

\* slotOnce.Do(releaseConcurrentSlot), first half: receive from the semaphore.
\* The receive blocks on an empty channel.
TakeBackSlot(r) ==
  /\ MaxConcurrent > 0 /\ r \notin released
  /\ sem > 0
  /\ sem' = sem - 1
  /\ released' = released \cup {r}

NothingToRelease(r) ==
  /\ MaxConcurrent = 0 \/ r \in released
  /\ released' = released \cup {r}
  /\ UNCHANGED sem

\* Mutant: the slot is not given back when Execute fails.
KeepSlotAfterFailure(r) ==
  /\ pc[r] = "execFailed"
  /\ pc' = [pc EXCEPT ![r] = "refusing"]
  /\ UNCHANGED <<sem, released, active, queued, live, cancelled, sessionVars, forwardVars,
                 streamVars, storeVars, serverVars>>

ReleaseAfterFailure(r) ==
  /\ pc[r] = "execFailed"
  /\ \/ TakeBackSlot(r) /\ pc' = [pc EXCEPT ![r] = "uncount"]
     \/ NothingToRelease(r) /\ pc' = [pc EXCEPT ![r] = "refusing"]
  /\ UNCHANGED <<active, queued, live, cancelled, sessionVars, forwardVars, streamVars,
                 storeVars, serverVars>>

UncountAfterFailure(r) ==
  /\ pc[r] = "uncount"
  /\ active' = active - 1
  /\ pc' = [pc EXCEPT ![r] = "refusing"]
  /\ UNCHANGED <<sem, queued, released, live, cancelled, sessionVars, forwardVars,
                 streamVars, storeVars, serverVars>>

\* Every error path ends by finalising the row as failed and returning the error.
Refuse(r) ==
  /\ pc[r] = "refusing"
  /\ FinishRun(r, "failed")
  /\ pc' = [pc EXCEPT ![r] = "refused"]
  /\ client' = [client EXCEPT ![r] = IF @ = "waiting" THEN "finished" ELSE @]
  /\ UNCHANGED <<sem, active, queued, released, live, cancelled, log, sessions,
                 sessionVars, forwardVars, events, got, serverVars>>

Register(r) ==
  /\ pc[r] = "register"
  /\ live' = live \cup {r}
  /\ pc' = [pc EXCEPT ![r] = "spawn"]
  /\ UNCHANGED <<sem, active, queued, released, cancelled, sessionVars, forwardVars,
                 streamVars, storeVars, serverVars>>

\* go forwardEvents; the handle goes to the reader of Events.
Spawn(r) ==
  /\ pc[r] = "spawn"
  /\ fw' = [fw EXCEPT ![r] = "recv"]
  /\ pc' = [pc EXCEPT ![r] = "returned"]
  /\ client' = [client EXCEPT ![r] = IF @ = "waiting" THEN "reading" ELSE @]
  /\ UNCHANGED <<sem, active, queued, released, live, cancelled, seq, cur, closed, done,
                 sessionVars, events, got, storeVars, serverVars>>

StartRun(r) ==
  \/ Submit(r) \/ EnterQueue(r) \/ Acquire(r)
  \/ QueueTimeout(r) \/ CancelledWhileQueued(r)
  \/ Dequeue(r) \/ CountActive(r)
  \/ ExecuteStarts(r) \/ ExecuteFails(r)
  \/ ReleaseAfterFailure(r) \/ UncountAfterFailure(r) \/ Refuse(r)
  \/ Register(r) \/ Spawn(r)

-----------------------------------------------------------------------------
(* The adapter session: a CLI process and the goroutines that read it *)

\* trySend on the Messages channel: a message that finds it full is dropped.
\* Some adapters still emit while they shut down after reporting a Result.
AdapterEmits(r) ==
  /\ adapter[r] = "running"
  /\ emitted[r] < MaxMessages
  /\ emitted' = [emitted EXCEPT ![r] = @ + 1]
  /\ inbox' = IF Len(inbox[r]) < MessagesBuffer
              THEN [inbox EXCEPT ![r] = Append(@, emitted[r] + 1)]
              ELSE inbox
  /\ UNCHANGED <<adapter, result, live, cancelled, startVars, forwardVars, streamVars,
                 storeVars, serverVars>>

\* The Result channel gets its one value, or is closed without one, before or
\* after Messages is closed.
AdapterReports(r) ==
  /\ adapter[r] \in {"running", "finished"} /\ result[r] = Unsent
  /\ \E res \in Results \cup {ZeroResult} : result' = [result EXCEPT ![r] = res]
  /\ UNCHANGED <<adapter, emitted, inbox, live, cancelled, startVars, forwardVars,
                 streamVars, storeVars, serverVars>>

\* The process has exited and Messages is closed.
AdapterFinishes(r) ==
  /\ adapter[r] = "running"
  /\ adapter' = [adapter EXCEPT ![r] = "finished"]
  /\ UNCHANGED <<emitted, inbox, result, live, cancelled, startVars, forwardVars,
                 streamVars, storeVars, serverVars>>

Adapter(r) == AdapterEmits(r) \/ AdapterReports(r) \/ AdapterFinishes(r)

-----------------------------------------------------------------------------
(* forwardEvents *)

GoTo(r, from, to) == fw[r] = from /\ fw' = [fw EXCEPT ![r] = to]

\* Mutants: the message is offered without being stored, ...
ReceiveUnstored(r) ==
  /\ adapter[r] # "nil" /\ inbox[r] # <<>>
  /\ GoTo(r, "recv", "offer")
  /\ inbox' = [inbox EXCEPT ![r] = Tail(@)]
  /\ cur' = [cur EXCEPT ![r] = messageToEvent(Head(inbox[r]), seq[r])]
  /\ seq' = [seq EXCEPT ![r] = @ + 1]
  /\ UNCHANGED <<adapter, emitted, result, closed, done, live, cancelled, startVars,
                 streamVars, storeVars, serverVars>>

\* ... or seq is not incremented.
ReceiveSameSeq(r) ==
  /\ adapter[r] # "nil" /\ inbox[r] # <<>>
  /\ GoTo(r, "recv", "persist")
  /\ inbox' = [inbox EXCEPT ![r] = Tail(@)]
  /\ cur' = [cur EXCEPT ![r] = messageToEvent(Head(inbox[r]), seq[r])]
  /\ UNCHANGED <<seq, adapter, emitted, result, closed, done, live, cancelled, startVars,
                 streamVars, storeVars, serverVars>>

\* for msg := range session.Messages
ReceiveMessage(r) ==
  /\ adapter[r] # "nil" /\ inbox[r] # <<>>
  /\ GoTo(r, "recv", "persist")
  /\ inbox' = [inbox EXCEPT ![r] = Tail(@)]
  /\ cur' = [cur EXCEPT ![r] = messageToEvent(Head(inbox[r]), seq[r])]
  /\ seq' = [seq EXCEPT ![r] = @ + 1]
  /\ UNCHANGED <<adapter, emitted, result, closed, done, live, cancelled, startVars,
                 streamVars, storeVars, serverVars>>

\* Dereferencing a nil session panics; the deferred recover builds an error event.
RecoverPanic(r) ==
  /\ adapter[r] = "nil"
  /\ GoTo(r, "recv", "persist")
  /\ cur' = [cur EXCEPT ![r] = panicEvent(seq[r])]
  /\ seq' = [seq EXCEPT ![r] = @ + 1]
  /\ UNCHANGED <<closed, done, live, cancelled, startVars, sessionVars, streamVars,
                 storeVars, serverVars>>

PersistEvent(r) ==
  /\ GoTo(r, "persist", "offer")
  /\ AppendEvent(r, cur[r])
  /\ UNCHANGED <<seq, cur, closed, done, live, cancelled, row, sessions, startVars,
                 sessionVars, streamVars, serverVars>>

\* Mutant: the event is put on the channel without looking at its capacity.
OfferUnbounded(r) ==
  /\ events' = [events EXCEPT ![r] = Append(@, cur[r])]
  /\ \/ /\ cur[r].kind = "message"
        /\ GoTo(r, "offer", "recv")
        /\ UNCHANGED cur
     \/ /\ cur[r].kind = "error"
        /\ GoTo(r, "offer", "persistResult")
        /\ cur' = [cur EXCEPT ![r] = resultToEvent(NoResult, seq[r])]
  /\ UNCHANGED <<seq, closed, done, live, cancelled, client, got, startVars, sessionVars,
                 storeVars, serverVars>>

\* trySendEvent: dropped from the live stream when the buffer is full. After
\* an error event the recover goes on to the terminal failed event.
OfferEvent(r) ==
  /\ events' = IF Len(events[r]) < EventsBuffer
               THEN [events EXCEPT ![r] = Append(@, cur[r])]
               ELSE events
  /\ \/ /\ cur[r].kind = "message"
        /\ GoTo(r, "offer", "recv")
        /\ UNCHANGED cur
     \/ /\ cur[r].kind = "error"
        /\ GoTo(r, "offer", "persistResult")
        /\ cur' = [cur EXCEPT ![r] = resultToEvent(NoResult, seq[r])]
  /\ UNCHANGED <<seq, closed, done, live, cancelled, client, got, startVars, sessionVars,
                 storeVars, serverVars>>

\* Mutant: the slot is given back as soon as the CLI is done.
ReleaseBeforeResult(r) ==
  /\ adapter[r] = "finished" /\ inbox[r] = <<>>
  /\ TakeBackSlot(r)
  /\ GoTo(r, "recv", "await")
  /\ UNCHANGED <<pc, active, queued, seq, cur, closed, done, live, cancelled, sessionVars,
                 streamVars, storeVars, serverVars>>

\* The range loop ends once Messages is closed and drained.
MessagesClosed(r) ==
  /\ adapter[r] = "finished" /\ inbox[r] = <<>>
  /\ GoTo(r, "recv", "await")
  /\ UNCHANGED <<seq, cur, closed, done, live, cancelled, startVars, sessionVars,
                 streamVars, storeVars, serverVars>>

\* Mutants: the result is sent without being stored, ...
AwaitResultUnstored(r) ==
  /\ GoTo(r, "await", "sendResult")
  /\ cur' = [cur EXCEPT ![r] = resultToEvent(
                IF result[r] = Unsent THEN NoResult ELSE result[r], seq[r])]
  /\ UNCHANGED <<seq, closed, done, live, cancelled, startVars, sessionVars, streamVars,
                 storeVars, serverVars>>

\* ... or the row gets its final status before the result is stored.
FinishBeforeResult(r) ==
  /\ GoTo(r, "await", "persistResult")
  /\ cur' = [cur EXCEPT ![r] = resultToEvent(
                IF result[r] = Unsent THEN NoResult ELSE result[r], seq[r])]
  /\ FinishRun(r, cur'[r].status)
  /\ UNCHANGED <<seq, closed, done, live, cancelled, log, sessions, startVars, sessionVars,
                 streamVars, serverVars>>

\* The Result, or a failed one when resultWaitTimeout fires first (or the
\* Result channel is nil).
AwaitResult(r) ==
  /\ GoTo(r, "await", "persistResult")
  /\ cur' = [cur EXCEPT ![r] = resultToEvent(
                IF result[r] = Unsent THEN NoResult ELSE result[r], seq[r])]
  /\ UNCHANGED <<seq, closed, done, live, cancelled, startVars, sessionVars, streamVars,
                 storeVars, serverVars>>

\* Mutant: the terminal send is skipped when the run's context is done.
PersistResultThenCheckContext(r) ==
  /\ GoTo(r, "persistResult", IF r \in cancelled THEN "finish" ELSE "sendResult")
  /\ AppendEvent(r, cur[r])
  /\ UNCHANGED <<seq, cur, closed, done, live, cancelled, row, sessions, startVars,
                 sessionVars, streamVars, serverVars>>

PersistResult(r) ==
  /\ GoTo(r, "persistResult", "sendResult")
  /\ AppendEvent(r, cur[r])
  /\ UNCHANGED <<seq, cur, closed, done, live, cancelled, row, sessions, startVars,
                 sessionVars, streamVars, serverVars>>

\* Mutants: the terminal send has no timeout, ...
SendResultForever(r) ==
  /\ GoTo(r, "sendResult", "finish")
  /\ Len(events[r]) < EventsBuffer
  /\ events' = [events EXCEPT ![r] = Append(@, cur[r])]
  /\ UNCHANGED <<seq, cur, closed, done, live, cancelled, client, got, startVars,
                 sessionVars, storeVars, serverVars>>

\* ... or the stream is closed before the run is finalised.
SendResultAndClose(r) ==
  /\ GoTo(r, "sendResult", "finish")
  /\ events' = IF Len(events[r]) < EventsBuffer
               THEN [events EXCEPT ![r] = Append(@, cur[r])]
               ELSE events
  /\ closed' = closed \cup {r}
  /\ UNCHANGED <<seq, cur, done, live, cancelled, client, got, startVars, sessionVars,
                 storeVars, serverVars>>

\* The terminal send blocks while the buffer is full, for terminalSendTimeout
\* at most: then the event is dropped from the live stream.
SendResult(r) ==
  /\ GoTo(r, "sendResult", "finish")
  /\ events' = IF Len(events[r]) < EventsBuffer
               THEN [events EXCEPT ![r] = Append(@, cur[r])]
               ELSE events
  /\ UNCHANGED <<seq, cur, closed, done, live, cancelled, client, got, startVars,
                 sessionVars, storeVars, serverVars>>

\* Mutant: the session id is never saved.
FinaliseWithoutSession(r) ==
  /\ GoTo(r, "finish", "closeEvents")
  /\ FinishRun(r, cur[r].status)
  /\ UNCHANGED <<seq, cur, closed, done, live, cancelled, log, sessions, startVars,
                 sessionVars, streamVars, serverVars>>

Finalise(r) ==
  /\ GoTo(r, "finish", IF cur[r].session THEN "saveSession" ELSE "closeEvents")
  /\ FinishRun(r, cur[r].status)
  /\ UNCHANGED <<seq, cur, closed, done, live, cancelled, log, sessions, startVars,
                 sessionVars, streamVars, serverVars>>

SaveSessionId(r) ==
  /\ GoTo(r, "saveSession", "closeEvents")
  /\ SaveSession(r)
  /\ UNCHANGED <<seq, cur, closed, done, live, cancelled, row, log, startVars,
                 sessionVars, streamVars, serverVars>>

\* The deferred calls, last registered first.
CloseEvents(r) ==
  /\ GoTo(r, "closeEvents", "closeDone")
  /\ closed' = closed \cup {r}
  /\ UNCHANGED <<seq, cur, done, live, cancelled, startVars, sessionVars, streamVars,
                 storeVars, serverVars>>

CloseDone(r) ==
  /\ GoTo(r, "closeDone", "unregister")
  /\ done' = done \cup {r}
  /\ UNCHANGED <<seq, cur, closed, live, cancelled, startVars, sessionVars, streamVars,
                 storeVars, serverVars>>

Unregister(r) ==
  /\ GoTo(r, "unregister", "cancel")
  /\ live' = live \ {r}
  /\ UNCHANGED <<seq, cur, closed, done, cancelled, startVars, sessionVars, streamVars,
                 storeVars, serverVars>>

CancelOnExit(r) ==
  /\ GoTo(r, "cancel", "release")
  /\ cancelled' = cancelled \cup {r}
  /\ UNCHANGED <<seq, cur, closed, done, live, startVars, sessionVars, streamVars,
                 storeVars, serverVars>>

ReleaseSlot(r) ==
  /\ \/ TakeBackSlot(r) /\ GoTo(r, "release", "decrement")
     \/ NothingToRelease(r) /\ GoTo(r, "release", "exited")
  /\ UNCHANGED <<pc, active, queued, seq, cur, closed, done, live, cancelled, sessionVars,
                 streamVars, storeVars, serverVars>>

UncountActive(r) ==
  /\ GoTo(r, "decrement", "exited")
  /\ active' = active - 1
  /\ UNCHANGED <<pc, sem, queued, released, seq, cur, closed, done, live, cancelled,
                 sessionVars, streamVars, storeVars, serverVars>>

ForwardEvents(r) ==
  \/ ReceiveMessage(r) \/ RecoverPanic(r) \/ PersistEvent(r) \/ OfferEvent(r)
  \/ MessagesClosed(r) \/ AwaitResult(r) \/ PersistResult(r) \/ SendResult(r)
  \/ Finalise(r) \/ SaveSessionId(r)
  \/ CloseEvents(r) \/ CloseDone(r) \/ Unregister(r) \/ CancelOnExit(r)
  \/ ReleaseSlot(r) \/ UncountActive(r)

-----------------------------------------------------------------------------
(* The reader of Events, the caller of the API, and CancelRun *)

Receive(r) ==
  /\ client[r] = "reading" /\ events[r] # <<>>
  /\ got' = [got EXCEPT ![r] = Append(@, Head(events[r]))]
  /\ events' = [events EXCEPT ![r] = Tail(@)]
  /\ UNCHANGED <<client, live, cancelled, startVars, sessionVars, forwardVars, storeVars,
                 serverVars>>

SeeClosed(r) ==
  /\ client[r] = "reading" /\ events[r] = <<>> /\ r \in closed
  /\ client' = [client EXCEPT ![r] = "finished"]
  /\ UNCHANGED <<events, got, live, cancelled, startVars, sessionVars, forwardVars,
                 storeVars, serverVars>>

\* The HTTP client is gone (or a write to it failed): the request context is
\* done, the handler calls handle.Cancel and stops reading.
Disconnect(r) ==
  /\ pc[r] # "idle" /\ client[r] \in {"waiting", "reading"}
  /\ client' = [client EXCEPT ![r] = "gone"]
  /\ cancelled' = cancelled \cup {r}
  /\ UNCHANGED <<events, got, live, startVars, sessionVars, forwardVars, storeVars,
                 serverVars>>

\* The deadline of a request with TimeoutMs > 0 passes.
Expire(r) ==
  /\ pc[r] # "idle" /\ r \notin cancelled
  /\ cancelled' = cancelled \cup {r}
  /\ UNCHANGED <<live, startVars, sessionVars, forwardVars, streamVars, storeVars,
                 serverVars>>

\* A run that is not in the live map is answered with an error.
CancelRun(r) ==
  /\ r \in live /\ r \notin cancelled
  /\ cancelled' = cancelled \cup {r}
  /\ UNCHANGED <<live, startVars, sessionVars, forwardVars, streamVars, storeVars,
                 serverVars>>

Reader(r) == Receive(r) \/ SeeClosed(r)
Caller(r) == Disconnect(r) \/ Expire(r) \/ CancelRun(r)

-----------------------------------------------------------------------------
(* GetRun reads the runs row, then the events rows: two queries, no transaction *)

NoView == [phase |-> "idle", status |-> "absent", timeline |-> <<>>]

GetRunLeaves == <<server, handles, cancelled, live, startVars, sessionVars, forwardVars,
                  streamVars, storeVars>>

\* A run without a row is answered with an error.
GetRunRow(r) ==
  /\ MayPoll /\ server # "storeClosed"
  /\ view[r].phase = "idle" /\ row[r] # "absent"
  /\ view' = [view EXCEPT ![r].phase = "rowRead", ![r].status = row[r]]
  /\ UNCHANGED GetRunLeaves

GetRunEvents(r) ==
  /\ view[r].phase = "rowRead" /\ server # "storeClosed"
  /\ view' = [view EXCEPT ![r].phase = "answered", ![r].timeline = log[r]]
  /\ UNCHANGED GetRunLeaves

\* The caller may ask again.
GetRunAgain(r) ==
  /\ view[r].phase = "answered"
  /\ view' = [view EXCEPT ![r] = NoView]
  /\ UNCHANGED GetRunLeaves

GetRun(r) == GetRunRow(r) \/ GetRunEvents(r) \/ GetRunAgain(r)

-----------------------------------------------------------------------------
(* serveStack's shutdown: HTTP server, Facade.Close, store *)

otherThanServer == <<view, live, startVars, sessionVars, forwardVars, streamVars, storeVars>>

Shutdown ==
  /\ MayShutDown /\ server = "serving"
  /\ server' = "draining"
  /\ UNCHANGED <<handles, cancelled, otherThanServer>>

\* httpSrv.Shutdown returns when every handler has, or after its 10s budget.
DrainEnds ==
  /\ server = "draining"
  /\ server' = "closing"
  /\ UNCHANGED <<handles, cancelled, otherThanServer>>

\* Mutant: Close waits for the runs without cancelling them.
CloseOnlyWaits ==
  /\ server = "closing"
  /\ server' = "waiting"
  /\ handles' = live
  /\ UNCHANGED <<cancelled, otherThanServer>>

\* Close: collect the live handles and cancel each of them ...
CloseCancels ==
  /\ server = "closing"
  /\ server' = "waiting"
  /\ handles' = live
  /\ cancelled' = cancelled \cup live
  /\ UNCHANGED otherThanServer

\* Mutant: Close cancels the runs and returns at once.
CloseWithoutWaiting ==
  /\ server = "waiting"
  /\ server' = "storeClosed"
  /\ UNCHANGED <<handles, cancelled, otherThanServer>>

\* ... then wait for the done channel of each, and close the store. serveStack
\* returns and the process exits at some point from here on: nothing durable
\* can change any more, so the exit itself needs no step.
CloseReturns ==
  /\ server = "waiting" /\ handles \subseteq done
  /\ server' = "storeClosed"
  /\ UNCHANGED <<handles, cancelled, otherThanServer>>

Server == Shutdown \/ DrainEnds \/ CloseCancels \/ CloseReturns

-----------------------------------------------------------------------------

Init ==
  /\ pc = [r \in Runs |-> "idle"]
  /\ fw = [r \in Runs |-> "none"]
  /\ sem = 0 /\ active = 0 /\ queued = 0
  /\ released = {} /\ live = {} /\ cancelled = {}
  /\ adapter = [r \in Runs |-> "off"]
  /\ emitted = [r \in Runs |-> 0]
  /\ inbox = [r \in Runs |-> <<>>]
  /\ result = [r \in Runs |-> Unsent]
  /\ seq = [r \in Runs |-> 0]
  /\ cur = [r \in Runs |-> NoEvent]
  /\ events = [r \in Runs |-> <<>>]
  /\ closed = {} /\ done = {}
  /\ row = [r \in Runs |-> "absent"]
  /\ log = [r \in Runs |-> <<>>]
  /\ sessions = {} /\ lost = {}
  /\ client = [r \in Runs |-> "waiting"]
  /\ got = [r \in Runs |-> <<>>]
  /\ server = "serving" /\ handles = {}
  /\ view = [r \in Runs |-> NoView]

RunStep(r) ==
  StartRun(r) \/ Adapter(r) \/ ForwardEvents(r) \/ Reader(r) \/ Caller(r)
  \/ GetRun(r)

\* Nothing is left to do for a request: it is answered and every goroutine of
\* its run has returned.
RunOver(r) ==
  \/ pc[r] = "refused"
  \/ pc[r] = "returned" /\ fw[r] = "exited" /\ client[r] \in {"gone", "finished"}

Terminated ==
  /\ server = "storeClosed" \/ \A r \in Runs : RunOver(r)
  /\ UNCHANGED vars

Next ==
  \/ \E r \in Runs : RunStep(r)
  \/ Server
  \/ Terminated

\* Go schedules every runnable goroutine and armed timers fire. Nothing makes a
\* client read or a caller cancel, nor an adapter close Messages: not even for a
\* cancelled run, since most adapters kill the CLI process alone, and a descendant
\* that holds its stdout keeps their reader.
Fairness ==
  /\ \A r \in Runs :
       /\ WF_vars(pc[r] # "idle" /\ StartRun(r))
       /\ WF_vars(ForwardEvents(r))
  /\ WF_vars(server # "serving" /\ Server)

Spec     == Init /\ [][Next]_vars
FairSpec == Spec /\ Fairness

-----------------------------------------------------------------------------
(* Type correctness *)

EventSet == [seq : Nat, kind : {"none", "message", "error", "result"}, item : Nat,
             status : Terminal \cup {""}, session : BOOLEAN]

StartTypeOK ==
  /\ pc \in [Runs -> StartPC]
  /\ sem \in 0..MaxConcurrent /\ active \in Int /\ queued \in Int
  /\ released \subseteq Runs

SessionTypeOK ==
  /\ adapter \in [Runs -> {"off", "running", "finished", "nil"}]
  /\ emitted \in [Runs -> 0..MaxMessages]
  /\ inbox \in [Runs -> Seq(1..MaxMessages)]
  /\ \A r \in Runs : Len(inbox[r]) <= MessagesBuffer
  /\ result \in [Runs -> Results \cup {Unsent, ZeroResult}]

ForwardTypeOK ==
  /\ fw \in [Runs -> ForwardPC]
  /\ seq \in [Runs -> Nat]
  /\ cur \in [Runs -> EventSet]
  /\ closed \subseteq Runs /\ done \subseteq Runs

StreamTypeOK ==
  /\ events \in [Runs -> Seq(EventSet)]
  /\ \A r \in Runs : Len(events[r]) <= EventsBuffer
  /\ client \in [Runs -> {"waiting", "reading", "gone", "finished"}]
  /\ got \in [Runs -> Seq(EventSet)]

StoreTypeOK ==
  /\ row \in [Runs -> Terminal \cup {"absent", "pending"}]
  /\ log \in [Runs -> Seq(EventSet)]
  /\ sessions \subseteq Runs /\ lost \subseteq Runs

ServerTypeOK ==
  /\ live \subseteq Runs /\ cancelled \subseteq Runs
  /\ server \in ServerPC /\ handles \subseteq Runs
  /\ view \in [Runs -> [phase : {"idle", "rowRead", "answered"},
                        status : Terminal \cup {"absent", "pending"},
                        timeline : Seq(EventSet)]]

\* Every variable has the type its Go counterpart has, and no channel holds
\* more than its capacity.
TypeOK ==
  /\ StartTypeOK /\ SessionTypeOK /\ ForwardTypeOK
  /\ StreamTypeOK /\ StoreTypeOK /\ ServerTypeOK

-----------------------------------------------------------------------------
(* The concurrency cap *)

\* Runs that took a slot in StartRun and have not given it back.
StartHolds   == {"acquired", "dequeued", "execute", "execFailed", "register", "spawn"}
ForwardHolds == ForwardPC \ {"none", "decrement", "exited"}
Holders ==
  IF MaxConcurrent = 0 THEN {}
  ELSE {r \in Runs : pc[r] \in StartHolds \/ (pc[r] = "returned" /\ fw[r] \in ForwardHolds)}

\* The semaphore holds exactly one token per run that owns a slot: neither the
\* error path of StartRun nor the deferred release leaks or double-frees one.
SlotAccounting == sem = Cardinality(Holders)

\* No more CLI sessions run at once than max_concurrent_runs allows.
CapRespected ==
  MaxConcurrent > 0 => Cardinality({r \in Runs : adapter[r] = "running"}) <= MaxConcurrent

\* "no point waking a queued request" before the store is finalised: a run
\* that has given its slot back has its final status in the store.
SlotOutlivesRun ==
  \A r \in released \ lost : pc[r] = "returned" => row[r] \in Terminal

\* When every request is answered and every forwarder has exited, both counters
\* and the semaphore are back to zero, no run is still listed as live, and the
\* context derived for each run has been cancelled, on whatever path it ended.
NothingLeaks ==
  (\A r \in Runs : RunOver(r)) =>
    sem = 0 /\ active = 0 /\ queued = 0 /\ live = {} /\ cancelled = Runs

-----------------------------------------------------------------------------
(* The timeline of a run, in the store and on the live stream *)

IsOrdered(s)  == \A i, j \in DOMAIN s : i < j => s[i].seq < s[j].seq
IsTerminal(e) == e.kind = "result"
Stream(r)     == got[r] \o events[r]

\* RunHandle.Events: "Every event on this channel has already been persisted to
\* the store", and the channel delivers them in timeline order: a trySend may
\* drop an event but none is reordered, repeated or invented.
StreamedIsStored ==
  \A r \in Runs :
    /\ IsOrdered(Stream(r))
    /\ r \notin lost => Range(Stream(r)) \subseteq Range(log[r])

\* The stored timeline has no gap or repeat in its sequence numbers (the primary
\* key of the events table), and nothing follows the terminal event.
TimelineIsWellFormed ==
  \A r \in Runs :
    /\ IsOrdered(log[r])
    /\ r \notin lost => \A i \in DOMAIN log[r] : log[r][i].seq = i - 1
    /\ \A i \in DOMAIN log[r] : IsTerminal(log[r][i]) => i = Len(log[r])

\* Whatever instant the process dies at, a run whose row has a final status has
\* the terminal event with that very status in the events table (a request
\* refused before its session began has no event at all).
SettledHasResult ==
  \A r \in Runs \ lost : row[r] \in Terminal =>
    IF pc[r] = "returned"
    THEN log[r] # <<>> /\ IsTerminal(log[r][Len(log[r])])
         /\ log[r][Len(log[r])].status = row[r]
    ELSE row[r] = "failed" /\ log[r] = <<>>

\* Seeing Events closed means the run is over: the row has its final status and
\* so does the session mapping, so a GetRun or a resume issued next finds them.
ClosedMeansFinalised ==
  \A r \in closed \ lost :
    row[r] \in Terminal /\ (cur[r].session <=> r \in sessions)

\* A final status is never overwritten: of the several callers of finishRun
\* (four exits of StartRun, the forwarder, its recover) at most one runs.
FinalStatusIsFinal ==
  [][\A r \in Runs : row[r] \in Terminal => row'[r] = row[r]]_row

\* A live reader that keeps reading gets the terminal event before the close,
\* unless the terminal send timed out on a full buffer.
ReaderGetsResult ==
  \A r \in closed : client[r] \in {"reading", "finished"} =>
    \E e \in Range(Stream(r)) : IsTerminal(e)

\* trySend's "only streaming consumers are affected by the drop": every message
\* the CLI emitted is in the stored timeline of the finished run.
DropOnlyAffectsStream ==
  \A r \in done \ lost : adapter[r] = "finished" =>
    Cardinality({e \in Range(log[r]) : e.kind = "message"}) = emitted[r]

\* GetRun never answers with a final status and a timeline that lacks the
\* result: the events are read after the row, and forwardEvents writes the
\* result before the status.
FinalAnswerIsComplete ==
  \A r \in Runs \ lost :
    view[r].phase = "answered" /\ view[r].status \in Terminal /\ pc[r] = "returned" =>
      \E e \in Range(view[r].timeline) : IsTerminal(e) /\ e.status = view[r].status

-----------------------------------------------------------------------------
(* Shutdown *)

\* The store is closed only after the forwarder of every run Close knew of has
\* made its last write, whether or not the writes succeeded.
CloseFinalises ==
  server = "storeClosed" =>
    \A r \in handles : fw[r] \in {"unregister", "cancel", "release", "decrement", "exited"}

\* Close "waits for all forwarder goroutines to finish finalising the store", so
\* none is at work when the store is closed and the process exits.
NoRunOutlivesClose ==
  server = "storeClosed" => \A r \in Runs : fw[r] = "none" \/ r \in done

-----------------------------------------------------------------------------
(* Liveness, under Fairness *)

\* A request is never stuck in StartRun: it gets a slot or is refused.
StartRunReturns ==
  \A r \in Runs : pc[r] \notin {"idle", "returned", "refused"}
                   ~> pc[r] \in {"returned", "refused"}

\* Once its context is done (client gone, deadline, cancel) a started run is
\* finalised, its stream closed and its slot returned, whoever still reads: only
\* an adapter that never closes Messages again can keep it.
CancelledRunEnds ==
  \A r \in Runs : (r \in cancelled /\ pc[r] = "returned")
                   ~> (fw[r] = "exited" \/ [](adapter[r] = "running"))

\* A shutdown comes to an end whatever the runs are doing. Only the adapter of a
\* run Close has cancelled can keep Close, which has no bound of its own, waiting,
\* by never closing Messages again.
ShutdownEnds ==
  (server = "draining")
    ~> \/ server = "storeClosed"
       \/ [](\E r \in handles : r \in cancelled /\ adapter[r] = "running")

=============================================================================
