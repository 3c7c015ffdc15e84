---------------------------- MODULE FacadeProofs ----------------------------
(* Type correctness and the concurrency cap of Facade, for any number of     *)
(* runs and any cap.                                                         *)
EXTENDS Facade, FiniteSetTheorems, SequenceTheorems, TLAPS

\* The event the forwarder is about to finalise the run with is a result.
ResultInHand ==
  \A r \in Runs : fw[r] \in {"persistResult", "sendResult", "finish"} =>
    cur[r].status \in Terminal

TypeInv == TypeOK /\ ResultInHand

LEMMA NormalizedIsTerminal ==
  ASSUME NEW s \in AdapterStatus
  PROVE  normalizeStatus(s) \in Terminal
BY DEF AdapterStatus, normalizeStatus, Terminal

LEMMA ResultEventType ==
  ASSUME NEW res \in Results \cup {ZeroResult, NoResult}, NEW s \in Nat
  PROVE  /\ resultToEvent(res, s) \in EventSet
         /\ resultToEvent(res, s).status \in Terminal
<1>1. res \in [status : AdapterStatus, session : BOOLEAN]
  <2>1. ZeroResult \in [status : AdapterStatus, session : BOOLEAN]
    BY DEF ZeroResult, AdapterStatus
  <2>2. NoResult \in [status : AdapterStatus, session : BOOLEAN]
    BY DEF NoResult, AdapterStatus
  <2> QED
    BY <2>1, <2>2, FacadeAssumption DEF FacadeAssumption
<1>2. normalizeStatus(res.status) \in Terminal
  BY <1>1, NormalizedIsTerminal
<1> QED
  BY <1>1, <1>2 DEF resultToEvent, Event, EventSet

LEMMA MessageEventType ==
  ASSUME NEW m \in Nat, NEW s \in Nat
  PROVE  messageToEvent(m, s) \in EventSet /\ panicEvent(s) \in EventSet
BY DEF messageToEvent, panicEvent, Event, EventSet

\* Taking the first message of a channel.
LEMMA TakeFirst ==
  ASSUME NEW S, NEW s \in Seq(S), s # <<>>
  PROVE  Head(s) \in S /\ Tail(s) \in Seq(S) /\ Len(Tail(s)) = Len(s) - 1 /\ Len(s) \in Nat
<1>1. Head(s) \in S /\ Tail(s) \in Seq(S) /\ Len(Tail(s)) = Len(s) - 1
  BY HeadTailProperties
<1> QED
  BY <1>1, LenProperties

LEMMA InitTypeInv == Init => TypeInv
<1> SUFFICES ASSUME Init PROVE TypeInv
  OBVIOUS
<1> USE FacadeAssumption DEF Init
<1>1. StartTypeOK
  BY DEF StartTypeOK, StartPC
<1>2. SessionTypeOK
  BY DEF SessionTypeOK
<1>3. ForwardTypeOK
  BY DEF ForwardTypeOK, ForwardPC, NoEvent, Event, EventSet
<1>4. StreamTypeOK
  BY DEF StreamTypeOK
<1>5. StoreTypeOK
  BY DEF StoreTypeOK
<1>6. ServerTypeOK
  BY DEF ServerTypeOK, ServerPC, NoView
<1>7. ResultInHand
  BY DEF ResultInHand
<1> QED
  BY <1>1, <1>2, <1>3, <1>4, <1>5, <1>6, <1>7 DEF TypeInv, TypeOK

-----------------------------------------------------------------------------
(* A step that leaves a group of variables alone keeps its type. *)

LEMMA KeepStart == StartTypeOK /\ UNCHANGED startVars => StartTypeOK'
BY DEF StartTypeOK, startVars

LEMMA KeepSession == SessionTypeOK /\ UNCHANGED sessionVars => SessionTypeOK'
BY DEF SessionTypeOK, sessionVars

LEMMA KeepForward ==
  ForwardTypeOK /\ ResultInHand /\ UNCHANGED forwardVars => ForwardTypeOK' /\ ResultInHand'
BY DEF ForwardTypeOK, ResultInHand, forwardVars

LEMMA KeepStream == StreamTypeOK /\ UNCHANGED streamVars => StreamTypeOK'
BY DEF StreamTypeOK, streamVars

LEMMA KeepStore == StoreTypeOK /\ UNCHANGED storeVars => StoreTypeOK'
BY DEF StoreTypeOK, storeVars

LEMMA KeepServer ==
  ServerTypeOK /\ UNCHANGED <<live, cancelled, serverVars>> => ServerTypeOK'
BY DEF ServerTypeOK, serverVars

\* A store write keeps the store's type, whether it succeeds or fails.
LEMMA CreateRunType ==
  ASSUME NEW r \in Runs, StoreTypeOK, CreateRun(r), UNCHANGED <<log, sessions>>
  PROVE  StoreTypeOK'
BY DEF StoreTypeOK, Written, CreateRun, Terminal

LEMMA AppendEventType ==
  ASSUME NEW r \in Runs, NEW e \in EventSet, StoreTypeOK, AppendEvent(r, e),
         UNCHANGED <<row, sessions>>
  PROVE  StoreTypeOK'
BY DEF StoreTypeOK, Written, AppendEvent

LEMMA FinishRunType ==
  ASSUME NEW r \in Runs, NEW s \in Terminal, StoreTypeOK, FinishRun(r, s),
         UNCHANGED <<log, sessions>>
  PROVE  StoreTypeOK'
BY DEF StoreTypeOK, Written, FinishRun

LEMMA SaveSessionType ==
  ASSUME NEW r \in Runs, StoreTypeOK, SaveSession(r), UNCHANGED <<row, log>>
  PROVE  StoreTypeOK'
BY DEF StoreTypeOK, Written, SaveSession

LEMMA StartTypeStep ==
  ASSUME NEW r \in Runs, TypeInv, StartRun(r)
  PROVE  TypeInv'
<1> USE FacadeAssumption DEF FacadeAssumption, TypeInv, TypeOK
<1>1. CASE Submit(r)
  BY <1>1, KeepSession, KeepForward, KeepStream, KeepServer, CreateRunType
  DEF Submit, StartTypeOK, StoreTypeOK, StartPC
<1>2. CASE EnterQueue(r)
  BY <1>2, KeepSession, KeepForward, KeepStream, KeepStore, KeepServer
  DEF EnterQueue, StartTypeOK, StartPC
<1>3. CASE Acquire(r)
  BY <1>3, KeepSession, KeepForward, KeepStream, KeepStore, KeepServer
  DEF Acquire, StartTypeOK, StartPC
<1>4. CASE QueueTimeout(r)
  BY <1>4, KeepSession, KeepForward, KeepStream, KeepStore
  DEF QueueTimeout, StartTypeOK, ServerTypeOK, serverVars, LeaveQueue, StartPC
<1>5. CASE CancelledWhileQueued(r)
  BY <1>5, KeepSession, KeepForward, KeepStream, KeepStore
  DEF CancelledWhileQueued, StartTypeOK, ServerTypeOK, serverVars, LeaveQueue, StartPC
<1>6. CASE Dequeue(r)
  BY <1>6, KeepSession, KeepForward, KeepStream, KeepStore, KeepServer
  DEF Dequeue, StartTypeOK, StartPC
<1>7. CASE CountActive(r)
  BY <1>7, KeepSession, KeepForward, KeepStream, KeepStore, KeepServer
  DEF CountActive, StartTypeOK, StartPC
<1>8. CASE ExecuteStarts(r)
  BY <1>8, KeepForward, KeepStream, KeepStore, KeepServer
  DEF ExecuteStarts, StartTypeOK, SessionTypeOK, StartPC
<1>9. CASE ExecuteFails(r)
  BY <1>9, KeepSession, KeepForward, KeepStream, KeepStore
  DEF ExecuteFails, StartTypeOK, ServerTypeOK, serverVars, StartPC
<1>10. CASE ReleaseAfterFailure(r)
  BY <1>10, KeepSession, KeepForward, KeepStream, KeepStore, KeepServer
  DEF ReleaseAfterFailure, StartTypeOK, TakeBackSlot, NothingToRelease, StartPC
<1>11. CASE UncountAfterFailure(r)
  BY <1>11, KeepSession, KeepForward, KeepStream, KeepStore, KeepServer
  DEF UncountAfterFailure, StartTypeOK, StartPC
<1>12. CASE Refuse(r)
  BY <1>12, KeepSession, KeepForward, KeepServer, FinishRunType
  DEF Refuse, StartTypeOK, StreamTypeOK, StoreTypeOK, StartPC, Terminal
<1>13. CASE Register(r)
  BY <1>13, KeepSession, KeepForward, KeepStream, KeepStore
  DEF Register, StartTypeOK, ServerTypeOK, serverVars, StartPC
<1>14. CASE Spawn(r)
  BY <1>14, KeepSession, KeepStore, KeepServer
  DEF Spawn, StartTypeOK, ForwardTypeOK, ResultInHand, StreamTypeOK, StartPC, ForwardPC
<1> QED
  BY <1>1, <1>2, <1>3, <1>4, <1>5, <1>6, <1>7, <1>8, <1>9, <1>10, <1>11, <1>12, <1>13, <1>14 DEF StartRun

LEMMA AdapterTypeStep ==
  ASSUME NEW r \in Runs, TypeInv, Adapter(r)
  PROVE  TypeInv'
<1> USE FacadeAssumption DEF FacadeAssumption, TypeInv, TypeOK
<1>1. CASE AdapterEmits(r)
  BY <1>1, KeepStart, KeepForward, KeepStream, KeepStore, KeepServer
  DEF AdapterEmits, SessionTypeOK
<1>2. CASE AdapterReports(r)
  BY <1>2, KeepStart, KeepForward, KeepStream, KeepStore, KeepServer
  DEF AdapterReports, SessionTypeOK
<1>3. CASE AdapterFinishes(r)
  BY <1>3, KeepStart, KeepForward, KeepStream, KeepStore, KeepServer
  DEF AdapterFinishes, SessionTypeOK
<1> QED
  BY <1>1, <1>2, <1>3 DEF Adapter

LEMMA CallerTypeStep ==
  ASSUME NEW r \in Runs, TypeInv, Caller(r)
  PROVE  TypeInv'
<1> USE FacadeAssumption DEF FacadeAssumption, TypeInv, TypeOK
<1>1. CASE Disconnect(r)
  BY <1>1, KeepStart, KeepSession, KeepForward, KeepStore
  DEF Disconnect, StreamTypeOK, ServerTypeOK, serverVars
<1>2. CASE Expire(r)
  BY <1>2, KeepStart, KeepSession, KeepForward, KeepStream, KeepStore
  DEF Expire, ServerTypeOK, serverVars
<1>3. CASE CancelRun(r)
  BY <1>3, KeepStart, KeepSession, KeepForward, KeepStream, KeepStore
  DEF CancelRun, ServerTypeOK, serverVars
<1> QED
  BY <1>1, <1>2, <1>3 DEF Caller

LEMMA ReaderTypeStep ==
  ASSUME NEW r \in Runs, TypeInv, Reader(r)
  PROVE  TypeInv'
<1> USE FacadeAssumption DEF FacadeAssumption, TypeInv, TypeOK
<1>1. CASE Receive(r)
  BY <1>1, KeepStart, KeepSession, KeepForward, KeepStore, KeepServer
  DEF Receive, StreamTypeOK
<1>2. CASE SeeClosed(r)
  BY <1>2, KeepStart, KeepSession, KeepForward, KeepStore, KeepServer
  DEF SeeClosed, StreamTypeOK
<1> QED
  BY <1>1, <1>2 DEF Reader

LEMMA GetRunTypeStep ==
  ASSUME NEW r \in Runs, TypeInv, GetRun(r)
  PROVE  TypeInv'
<1> USE DEF TypeInv, TypeOK, GetRunLeaves
<1>1. UNCHANGED <<startVars, sessionVars, forwardVars, streamVars, storeVars>>
  BY DEF GetRun, GetRunRow, GetRunEvents, GetRunAgain
<1>2. ServerTypeOK'
  <2> DEFINE Views == [phase : {"idle", "rowRead", "answered"},
                       status : Terminal \cup {"absent", "pending"},
                       timeline : Seq(EventSet)]
  <2>1. view[r] \in Views /\ row[r] \in Terminal \cup {"absent", "pending"}
        /\ log[r] \in Seq(EventSet)
    BY DEF ServerTypeOK, StoreTypeOK
  <2>2. NoView \in Views
    BY DEF NoView
  <2>3. PICK v \in Views : view' = [view EXCEPT ![r] = v]
    <3>1. CASE GetRunRow(r)
      <4>1. [view[r] EXCEPT !.phase = "rowRead", !.status = row[r]] \in Views
        BY <2>1
      <4>2. view' = [view EXCEPT ![r] = [view[r] EXCEPT !.phase = "rowRead", !.status = row[r]]]
        BY <3>1 DEF GetRunRow, ServerTypeOK
      <4> QED
        BY <4>1, <4>2
    <3>2. CASE GetRunEvents(r)
      <4>1. [view[r] EXCEPT !.phase = "answered", !.timeline = log[r]] \in Views
        BY <2>1
      <4>2. view' = [view EXCEPT ![r] = [view[r] EXCEPT !.phase = "answered", !.timeline = log[r]]]
        BY <3>2 DEF GetRunEvents, ServerTypeOK
      <4> QED
        BY <4>1, <4>2
    <3>3. CASE GetRunAgain(r)
      BY <3>3, <2>2 DEF GetRunAgain
    <3> QED
      BY <3>1, <3>2, <3>3 DEF GetRun
  <2>4. UNCHANGED <<server, handles, live, cancelled>>
    BY DEF GetRun, GetRunRow, GetRunEvents, GetRunAgain
  <2> QED
    BY <2>3, <2>4 DEF ServerTypeOK
<1> QED
  BY <1>1, <1>2, KeepStart, KeepSession, KeepForward, KeepStream, KeepStore

LEMMA ForwardTypeStep ==
  ASSUME NEW r \in Runs, TypeInv, ForwardEvents(r)
  PROVE  TypeInv'
<1> USE FacadeAssumption DEF FacadeAssumption, TypeInv, TypeOK
<1>1. CASE ReceiveMessage(r)
  <2>1. /\ inbox[r] \in Seq(1..MaxMessages) /\ inbox[r] # <<>>
        /\ seq[r] \in Nat
    BY <1>1 DEF ReceiveMessage, SessionTypeOK, ForwardTypeOK
  <2>2. /\ Head(inbox[r]) \in Nat
        /\ Tail(inbox[r]) \in Seq(1..MaxMessages)
        /\ Len(Tail(inbox[r])) <= Len(inbox[r])
    <3>1. /\ Head(inbox[r]) \in 1..MaxMessages
          /\ Tail(inbox[r]) \in Seq(1..MaxMessages)
          /\ Len(Tail(inbox[r])) = Len(inbox[r]) - 1 /\ Len(inbox[r]) \in Nat
      BY <2>1, TakeFirst
    <3> HIDE DEF TypeInv, TypeOK
    <3> QED
      BY <3>1
  <2>3. messageToEvent(Head(inbox[r]), seq[r]) \in EventSet
    BY <2>1, <2>2, MessageEventType
  <2>4. SessionTypeOK'
    BY <1>1, <2>1, <2>2 DEF ReceiveMessage, SessionTypeOK
  <2>5. ForwardTypeOK' /\ ResultInHand'
    BY <1>1, <2>1, <2>3 DEF ReceiveMessage, ForwardTypeOK, ResultInHand, GoTo, ForwardPC
  <2> QED
    BY <1>1, <2>4, <2>5, KeepStart, KeepStream, KeepStore, KeepServer DEF ReceiveMessage
<1>2. CASE RecoverPanic(r)
  <2>1. panicEvent(seq[r]) \in EventSet
    BY MessageEventType DEF ForwardTypeOK
  <2> QED
    BY <1>2, <2>1, KeepStart, KeepSession, KeepStream, KeepStore, KeepServer
    DEF RecoverPanic, ForwardTypeOK, ResultInHand, GoTo, ForwardPC
<1>3. CASE PersistEvent(r)
  BY <1>3, KeepStart, KeepSession, KeepStream, KeepServer, AppendEventType
  DEF PersistEvent, ForwardTypeOK, ResultInHand, StoreTypeOK, GoTo, ForwardPC
<1>4. CASE OfferEvent(r)
  <2>1. /\ resultToEvent(NoResult, seq[r]) \in EventSet
        /\ resultToEvent(NoResult, seq[r]).status \in Terminal
    BY ResultEventType DEF ForwardTypeOK
  <2>2. ForwardTypeOK' /\ ResultInHand'
    BY <1>4, <2>1 DEF OfferEvent, ForwardTypeOK, ResultInHand, GoTo, ForwardPC
  <2>3. StreamTypeOK'
    BY <1>4 DEF OfferEvent, StreamTypeOK, ForwardTypeOK
  <2> QED
    BY <1>4, <2>2, <2>3, KeepStart, KeepSession, KeepStore, KeepServer DEF OfferEvent
<1>5. CASE MessagesClosed(r)
  BY <1>5, KeepStart, KeepSession, KeepStream, KeepStore, KeepServer
  DEF MessagesClosed, ForwardTypeOK, ResultInHand, GoTo, ForwardPC
<1>6. CASE AwaitResult(r)
  BY <1>6, KeepStart, KeepSession, KeepStream, KeepStore, KeepServer, ResultEventType
  DEF AwaitResult, ForwardTypeOK, ResultInHand, SessionTypeOK, GoTo, ForwardPC
<1>7. CASE PersistResult(r)
  BY <1>7, KeepStart, KeepSession, KeepStream, KeepServer, AppendEventType
  DEF PersistResult, ForwardTypeOK, ResultInHand, StoreTypeOK, GoTo, ForwardPC
<1>8. CASE SendResult(r)
  BY <1>8, KeepStart, KeepSession, KeepStore, KeepServer
  DEF SendResult, ForwardTypeOK, ResultInHand, StreamTypeOK, GoTo, ForwardPC
<1>9. CASE Finalise(r)
  BY <1>9, KeepStart, KeepSession, KeepStream, KeepServer, FinishRunType
  DEF Finalise, ForwardTypeOK, ResultInHand, StoreTypeOK, GoTo, ForwardPC
<1>10. CASE SaveSessionId(r)
  BY <1>10, KeepStart, KeepSession, KeepStream, KeepServer, SaveSessionType
  DEF SaveSessionId, ForwardTypeOK, ResultInHand, StoreTypeOK, GoTo, ForwardPC
<1>11. CASE CloseEvents(r)
  BY <1>11, KeepStart, KeepSession, KeepStream, KeepStore, KeepServer
  DEF CloseEvents, ForwardTypeOK, ResultInHand, GoTo, ForwardPC
<1>12. CASE CloseDone(r)
  BY <1>12, KeepStart, KeepSession, KeepStream, KeepStore, KeepServer
  DEF CloseDone, ForwardTypeOK, ResultInHand, GoTo, ForwardPC
<1>13. CASE Unregister(r)
  BY <1>13, KeepStart, KeepSession, KeepStream, KeepStore
  DEF Unregister, ForwardTypeOK, ResultInHand, ServerTypeOK, serverVars, GoTo, ForwardPC
<1>14. CASE CancelOnExit(r)
  BY <1>14, KeepStart, KeepSession, KeepStream, KeepStore
  DEF CancelOnExit, ForwardTypeOK, ResultInHand, ServerTypeOK, serverVars, GoTo, ForwardPC
<1>15. CASE ReleaseSlot(r)
  BY <1>15, KeepSession, KeepStream, KeepStore, KeepServer
  DEF ReleaseSlot, StartTypeOK, ForwardTypeOK, ResultInHand, TakeBackSlot, NothingToRelease, GoTo, ForwardPC
<1>16. CASE UncountActive(r)
  BY <1>16, KeepSession, KeepStream, KeepStore, KeepServer
  DEF UncountActive, StartTypeOK, ForwardTypeOK, ResultInHand, GoTo, ForwardPC
<1> QED
  BY <1>1, <1>2, <1>3, <1>4, <1>5, <1>6, <1>7, <1>8, <1>9, <1>10, <1>11, <1>12, <1>13, <1>14, <1>15, <1>16 DEF ForwardEvents

LEMMA ServerTypeStep ==
  ASSUME TypeInv, Server
  PROVE  TypeInv'
<1> USE DEF TypeInv, TypeOK, otherThanServer
<1>1. ServerTypeOK'
  BY DEF ServerTypeOK, ServerPC, Server, Shutdown, DrainEnds, CloseCancels, CloseReturns
<1>2. UNCHANGED <<startVars, sessionVars, forwardVars, streamVars, storeVars>>
  BY DEF Server, Shutdown, DrainEnds, CloseCancels, CloseReturns
<1> QED
  BY <1>1, <1>2, KeepStart, KeepSession, KeepForward, KeepStream, KeepStore

LEMMA NextTypeInv == TypeInv /\ [Next]_vars => TypeInv'
<1> SUFFICES ASSUME TypeInv, [Next]_vars PROVE TypeInv'
  OBVIOUS
<1>1. ASSUME NEW r \in Runs, RunStep(r) PROVE TypeInv'
  BY <1>1, StartTypeStep, AdapterTypeStep, ForwardTypeStep, ReaderTypeStep, CallerTypeStep,
     GetRunTypeStep
  DEF RunStep
<1>2. CASE Server
  BY <1>2, ServerTypeStep
<1>3. CASE UNCHANGED vars
  <2>1. UNCHANGED <<startVars, sessionVars, forwardVars, streamVars, storeVars,
                    serverVars, live, cancelled>>
    BY <1>3 DEF vars, startVars, sessionVars, forwardVars, streamVars, storeVars, serverVars
  <2> QED
    BY <2>1, KeepStart, KeepSession, KeepForward, KeepStream, KeepStore, KeepServer
    DEF TypeInv, TypeOK
<1> QED
  BY <1>1, <1>2, <1>3 DEF Next, Terminated

\* In every reachable state each variable has its type, for any set of requests,
\* any cap and any channel capacities: no channel ever exceeds its capacity.
THEOREM TypeCorrect == Spec => []TypeOK
<1>1. Spec => []TypeInv
  BY InitTypeInv, NextTypeInv, PTL DEF Spec
<1>2. TypeInv => TypeOK
  BY DEF TypeInv
<1> QED
  BY <1>1, <1>2, PTL
-----------------------------------------------------------------------------
(* The concurrency cap: the semaphore counts the runs that own a slot. *)

\* The forwarder exists from Spawn on.
ForwarderStarted == \A r \in Runs : fw[r] # "none" <=> pc[r] = "returned"

\* slotOnce has fired only for runs past their release.
ReleasedIsPast ==
  \A r \in released : \/ pc[r] \in {"uncount", "refusing", "refused"}
                      \/ fw[r] \in {"decrement", "exited"}

\* A session in progress belongs to a run that has not got to its release.
SessionInProgress ==
  \A r \in Runs : adapter[r] = "running" =>
    pc[r] \in {"register", "spawn"} \/ fw[r] \in {"recv", "persist", "offer"}

\* An error event is in hand only when there is no session.
PanicHasNoSession ==
  \A r \in Runs : fw[r] \in {"persist", "offer"} /\ cur[r].kind = "error" =>
    adapter[r] = "nil"

Ownership == ForwarderStarted /\ ReleasedIsPast /\ SessionInProgress /\ PanicHasNoSession

SlotInv == TypeInv /\ Ownership /\ SlotAccounting

LEMMA HoldersFinite == IsFiniteSet(Holders)
<1>1. Holders \subseteq Runs
  BY DEF Holders
<1> QED
  BY <1>1, FS_Subset, FacadeAssumption DEF FacadeAssumption

LEMMA InitSlotInv == Init => SlotInv
<1> SUFFICES ASSUME Init PROVE SlotInv
  OBVIOUS
<1>1. Ownership
  BY DEF Init, Ownership, ForwarderStarted, ReleasedIsPast, SessionInProgress, PanicHasNoSession
<1>2. Holders = {}
  BY DEF Init, Holders, StartHolds
<1>3. SlotAccounting
  BY <1>2, FS_EmptySet DEF Init, SlotAccounting
<1> QED
  BY <1>1, <1>3, InitTypeInv DEF SlotInv

Owns(r) ==
  MaxConcurrent > 0 /\ (pc[r] \in StartHolds \/ (pc[r] = "returned" /\ fw[r] \in ForwardHolds))

\* What a step of run r can do to the set of slot owners: nothing, ...
LEMMA OwnersKept ==
  ASSUME SlotAccounting, \A q \in Runs : Owns(q)' <=> Owns(q), sem' = sem
  PROVE  SlotAccounting'
<1>1. \A q : q \in Holders' <=> q \in Holders
  BY FacadeAssumption DEF Owns, Holders, FacadeAssumption
<1>2. Holders' = Holders
  BY <1>1, Zenon
<1> QED
  BY <1>2 DEF SlotAccounting

\* ... make r an owner, ...
LEMMA OwnerAdded ==
  ASSUME NEW r \in Runs, SlotAccounting, sem' = sem + 1, ~Owns(r), Owns(r)',
         \A q \in Runs \ {r} : Owns(q)' <=> Owns(q)
  PROVE  SlotAccounting'
<1>1. r \notin Holders /\ Holders' = Holders \cup {r}
  BY FacadeAssumption DEF Owns, Holders, FacadeAssumption
<1> QED
  BY <1>1, HoldersFinite, FS_AddElement DEF SlotAccounting

\* ... or make it give its slot back.
LEMMA OwnerRemoved ==
  ASSUME NEW r \in Runs, SlotAccounting, sem' = sem - 1, Owns(r), ~Owns(r)',
         \A q \in Runs \ {r} : Owns(q)' <=> Owns(q)
  PROVE  SlotAccounting'
<1>1. r \in Holders /\ Holders' = Holders \ {r}
  BY FacadeAssumption DEF Owns, Holders, FacadeAssumption
<1> QED
  BY <1>1, HoldersFinite, FS_RemoveElement DEF SlotAccounting

LEMMA StartSlotStep ==
  ASSUME NEW r \in Runs, SlotInv, StartRun(r)
  PROVE  Ownership' /\ SlotAccounting'
<1> USE FacadeAssumption DEF FacadeAssumption, SlotInv, Ownership
<1>0. /\ pc \in [Runs -> StartPC] /\ fw \in [Runs -> ForwardPC] /\ released \subseteq Runs
      /\ sem \in 0..MaxConcurrent
      /\ adapter \in [Runs -> {"off", "running", "finished", "nil"}]
  BY DEF TypeInv, TypeOK, StartTypeOK, ForwardTypeOK, SessionTypeOK
<1> USE <1>0 DEF ForwarderStarted, ReleasedIsPast, SessionInProgress, PanicHasNoSession,
                 forwardVars, sessionVars
<1>1. CASE Acquire(r)
  <2>1. Ownership'
    BY <1>1 DEF Acquire
  <2>2. ~Owns(r) /\ Owns(r)' /\ \A q \in Runs \ {r} : Owns(q)' <=> Owns(q)
    BY <1>1 DEF Acquire, Owns, StartHolds
  <2> QED
    BY <1>1, <2>1, <2>2, OwnerAdded DEF Acquire
<1>2. CASE ReleaseAfterFailure(r)
  <2>1. CASE TakeBackSlot(r) /\ pc' = [pc EXCEPT ![r] = "uncount"]
    <3>1. Ownership'
      BY <1>2, <2>1 DEF ReleaseAfterFailure, TakeBackSlot
    <3>2. Owns(r) /\ ~Owns(r)' /\ \A q \in Runs \ {r} : Owns(q)' <=> Owns(q)
      BY <1>2, <2>1 DEF ReleaseAfterFailure, TakeBackSlot, Owns, StartHolds
    <3> QED
      BY <2>1, <3>1, <3>2, OwnerRemoved DEF TakeBackSlot
  <2>2. CASE NothingToRelease(r) /\ pc' = [pc EXCEPT ![r] = "refusing"]
    <3>1. Ownership'
      BY <1>2, <2>2 DEF ReleaseAfterFailure, NothingToRelease
    <3>2. MaxConcurrent = 0
      BY <1>2, <2>2 DEF ReleaseAfterFailure, NothingToRelease
    <3>3. \A q \in Runs : Owns(q)' <=> Owns(q)
      BY <3>2 DEF Owns
    <3> QED
      BY <2>2, <3>1, <3>3, OwnersKept DEF NothingToRelease
  <2> QED
    BY <1>2, <2>1, <2>2 DEF ReleaseAfterFailure
<1>3. ASSUME Submit(r) \/ EnterQueue(r) \/ QueueTimeout(r) \/ CancelledWhileQueued(r)
      PROVE  Ownership' /\ SlotAccounting'
  <2>1. Ownership' /\ sem' = sem
    BY <1>3 DEF Submit, EnterQueue, QueueTimeout, CancelledWhileQueued, LeaveQueue
  <2>2. \A q \in Runs : Owns(q)' <=> Owns(q)
    BY <1>3 DEF Submit, EnterQueue, QueueTimeout, CancelledWhileQueued, LeaveQueue,
                Owns, StartHolds
  <2> QED
    BY <2>1, <2>2, OwnersKept
<1>4. ASSUME Dequeue(r) \/ CountActive(r) \/ ExecuteStarts(r) \/ ExecuteFails(r)
      PROVE  Ownership' /\ SlotAccounting'
  <2>1. Ownership' /\ sem' = sem
    BY <1>4 DEF Dequeue, CountActive, ExecuteStarts, ExecuteFails
  <2>2. \A q \in Runs : Owns(q)' <=> Owns(q)
    BY <1>4 DEF Dequeue, CountActive, ExecuteStarts, ExecuteFails, Owns, StartHolds
  <2> QED
    BY <2>1, <2>2, OwnersKept
<1>5. ASSUME UncountAfterFailure(r) \/ Refuse(r) \/ Register(r)
      PROVE  Ownership' /\ SlotAccounting'
  <2>1. Ownership' /\ sem' = sem
    BY <1>5 DEF UncountAfterFailure, Refuse, Register
  <2>2. \A q \in Runs : Owns(q)' <=> Owns(q)
    BY <1>5 DEF UncountAfterFailure, Refuse, Register, Owns, StartHolds
  <2> QED
    BY <2>1, <2>2, OwnersKept
<1>6. CASE Spawn(r)
  <2>1. Ownership' /\ sem' = sem
    BY <1>6 DEF Spawn
  <2>2. \A q \in Runs : Owns(q)' <=> Owns(q)
    BY <1>6 DEF Spawn, Owns, StartHolds, ForwardHolds, ForwardPC
  <2> QED
    BY <2>1, <2>2, OwnersKept
<1> QED
  BY <1>1, <1>2, <1>3, <1>4, <1>5, <1>6 DEF StartRun

LEMMA ForwardSlotStep ==
  ASSUME NEW r \in Runs, SlotInv, ForwardEvents(r)
  PROVE  Ownership' /\ SlotAccounting'
<1> USE FacadeAssumption DEF FacadeAssumption, SlotInv, Ownership
<1>0. /\ pc \in [Runs -> StartPC] /\ fw \in [Runs -> ForwardPC] /\ released \subseteq Runs
      /\ sem \in 0..MaxConcurrent /\ cur \in [Runs -> EventSet]
      /\ adapter \in [Runs -> {"off", "running", "finished", "nil"}]
  BY DEF TypeInv, TypeOK, StartTypeOK, ForwardTypeOK, SessionTypeOK
<1> USE <1>0 DEF ForwarderStarted, ReleasedIsPast, SessionInProgress, PanicHasNoSession,
                 startVars, sessionVars, GoTo
<1>1. CASE ReleaseSlot(r)
  <2>1. CASE TakeBackSlot(r) /\ GoTo(r, "release", "decrement")
    <3>1. Ownership'
      BY <1>1, <2>1 DEF ReleaseSlot, TakeBackSlot
    <3>2. Owns(r) /\ ~Owns(r)' /\ \A q \in Runs \ {r} : Owns(q)' <=> Owns(q)
      BY <1>1, <2>1 DEF ReleaseSlot, TakeBackSlot, Owns, StartHolds, ForwardHolds, ForwardPC
    <3> QED
      BY <2>1, <3>1, <3>2, OwnerRemoved DEF TakeBackSlot
  <2>2. CASE NothingToRelease(r) /\ GoTo(r, "release", "exited")
    <3>1. Ownership'
      BY <1>1, <2>2 DEF ReleaseSlot, NothingToRelease
    <3>2. MaxConcurrent = 0
      BY <1>1, <2>2 DEF ReleaseSlot, NothingToRelease
    <3>3. \A q \in Runs : Owns(q)' <=> Owns(q)
      BY <3>2 DEF Owns
    <3> QED
      BY <2>2, <3>1, <3>3, OwnersKept DEF NothingToRelease
  <2> QED
    BY <1>1, <2>1, <2>2 DEF ReleaseSlot
<1>2. ASSUME ReceiveMessage(r) \/ RecoverPanic(r) \/ PersistEvent(r) \/ OfferEvent(r)
      PROVE  Ownership' /\ SlotAccounting'
  <2>1. Ownership'
    <3>1. CASE ReceiveMessage(r)
      BY <3>1 DEF ReceiveMessage, messageToEvent, Event
    <3>2. CASE RecoverPanic(r)
      BY <3>2 DEF RecoverPanic
    <3>3. CASE PersistEvent(r)
      BY <3>3 DEF PersistEvent
    <3>4. CASE OfferEvent(r)
      BY <3>4 DEF OfferEvent
    <3> QED
      BY <1>2, <3>1, <3>2, <3>3, <3>4
  <2>2. /\ \A q \in Runs : Owns(q)' <=> Owns(q)
        /\ sem' = sem
    BY <1>2 DEF ReceiveMessage, RecoverPanic, PersistEvent, OfferEvent, Owns, ForwardHolds,
                ForwardPC
  <2> QED
    BY <2>1, <2>2, OwnersKept
<1>3. ASSUME MessagesClosed(r) \/ AwaitResult(r) \/ PersistResult(r) \/ SendResult(r)
      PROVE  Ownership' /\ SlotAccounting'
  <2>1. Ownership'
    BY <1>3 DEF MessagesClosed, AwaitResult, PersistResult, SendResult
  <2>2. /\ \A q \in Runs : Owns(q)' <=> Owns(q)
        /\ sem' = sem
    BY <1>3 DEF MessagesClosed, AwaitResult, PersistResult, SendResult, Owns, ForwardHolds,
                ForwardPC
  <2> QED
    BY <2>1, <2>2, OwnersKept
<1>4. ASSUME Finalise(r) \/ SaveSessionId(r) \/ CloseEvents(r) \/ CloseDone(r)
      PROVE  Ownership' /\ SlotAccounting'
  <2>1. Ownership'
    BY <1>4 DEF Finalise, SaveSessionId, CloseEvents, CloseDone
  <2>2. /\ \A q \in Runs : Owns(q)' <=> Owns(q)
        /\ sem' = sem
    BY <1>4 DEF Finalise, SaveSessionId, CloseEvents, CloseDone, Owns, ForwardHolds, ForwardPC
  <2> QED
    BY <2>1, <2>2, OwnersKept
<1>5. ASSUME Unregister(r) \/ CancelOnExit(r) \/ UncountActive(r)
      PROVE  Ownership' /\ SlotAccounting'
  <2>1. Ownership'
    BY <1>5 DEF Unregister, CancelOnExit, UncountActive
  <2>2. /\ \A q \in Runs : Owns(q)' <=> Owns(q)
        /\ sem' = sem
    BY <1>5 DEF Unregister, CancelOnExit, UncountActive, Owns, ForwardHolds, ForwardPC
  <2> QED
    BY <2>1, <2>2, OwnersKept
<1> QED
  BY <1>1, <1>2, <1>3, <1>4, <1>5 DEF ForwardEvents

\* The session, the reader, the caller and the shutdown own no slot.
LEMMA OtherSlotStep ==
  ASSUME SlotInv, UNCHANGED <<startVars, fw, cur>>,
         \A r \in Runs : /\ adapter'[r] = "running" => adapter[r] = "running"
                         /\ adapter[r] = "nil" => adapter'[r] = "nil"
  PROVE  Ownership' /\ SlotAccounting'
<1>1. Ownership'
  BY DEF SlotInv, Ownership, ForwarderStarted, ReleasedIsPast, SessionInProgress,
         PanicHasNoSession, startVars
<1>2. (\A q \in Runs : Owns(q)' <=> Owns(q)) /\ sem' = sem
  BY DEF Owns, startVars
<1> QED
  BY <1>1, <1>2, OwnersKept DEF SlotInv

LEMMA NextSlotInv == SlotInv /\ [Next]_vars => SlotInv'
<1> SUFFICES ASSUME SlotInv, [Next]_vars PROVE Ownership' /\ SlotAccounting'
  BY NextTypeInv DEF SlotInv
<1>0. adapter \in [Runs -> {"off", "running", "finished", "nil"}]
  BY DEF SlotInv, TypeInv, TypeOK, SessionTypeOK
<1>1. ASSUME NEW r \in Runs, RunStep(r) PROVE Ownership' /\ SlotAccounting'
  <2>1. CASE Adapter(r)
    BY <1>0, <2>1, OtherSlotStep
    DEF Adapter, AdapterEmits, AdapterReports, AdapterFinishes, forwardVars
  <2>2. CASE Reader(r)
    BY <2>2, OtherSlotStep DEF Reader, Receive, SeeClosed, sessionVars, forwardVars
  <2>3. CASE Caller(r)
    BY <2>3, OtherSlotStep DEF Caller, Disconnect, Expire, CancelRun, sessionVars, forwardVars
  <2>4. CASE GetRun(r)
    BY <2>4, OtherSlotStep
    DEF GetRun, GetRunRow, GetRunEvents, GetRunAgain, GetRunLeaves, sessionVars, forwardVars
  <2> QED
    BY <1>1, <2>1, <2>2, <2>3, <2>4, StartSlotStep, ForwardSlotStep DEF RunStep
<1>2. CASE Server
  BY <1>2, OtherSlotStep
  DEF Server, Shutdown, DrainEnds, CloseCancels, CloseReturns, otherThanServer, sessionVars,
      forwardVars
<1>3. CASE UNCHANGED vars
  BY <1>3, OtherSlotStep DEF vars, startVars
<1> QED
  BY <1>1, <1>2, <1>3 DEF Next, Terminated

\* The semaphore holds exactly one token per run that owns a slot, whatever the
\* order in which requests queue, fail, are cancelled, run and exit: no path of
\* StartRun or forwardEvents leaks a slot or frees one twice.
THEOREM SlotsAccounted == Spec => []SlotAccounting
<1>1. Spec => []SlotInv
  BY InitSlotInv, NextSlotInv, PTL DEF Spec
<1>2. SlotInv => SlotAccounting
  BY DEF SlotInv
<1> QED
  BY <1>1, <1>2, PTL

\* Never more CLI sessions in progress than max_concurrent_runs: a session in
\* progress belongs to an owner of a slot, and the owners are counted by the
\* semaphore, which cannot exceed its capacity.
THEOREM CapHolds == Spec => []CapRespected
<1>1. SlotInv => CapRespected
  <2> SUFFICES ASSUME SlotInv, MaxConcurrent > 0
               PROVE  Cardinality({r \in Runs : adapter[r] = "running"}) <= MaxConcurrent
    BY DEF CapRespected
  <2> DEFINE InProgress == {r \in Runs : adapter[r] = "running"}
  <2>1. InProgress \in SUBSET Holders
    BY DEF SlotInv, Ownership, SessionInProgress, ForwarderStarted, Holders, StartHolds,
           ForwardHolds, ForwardPC
  <2>2. Cardinality(InProgress) <= Cardinality(Holders)
    BY <2>1, HoldersFinite, FS_Subset
  <2>3. Cardinality(Holders) \in Nat /\ Cardinality(InProgress) \in Nat
    BY <2>1, HoldersFinite, FS_Subset, FS_CardinalityType
  <2>4. Cardinality(Holders) <= MaxConcurrent
    BY FacadeAssumption
    DEF FacadeAssumption, SlotInv, SlotAccounting, TypeInv, TypeOK, StartTypeOK
  <2> QED
    BY <2>2, <2>3, <2>4, FacadeAssumption DEF FacadeAssumption
<1>2. Spec => []SlotInv
  BY InitSlotInv, NextSlotInv, PTL DEF Spec
<1> QED
  BY <1>1, <1>2, PTL
=============================================================================
