------------------------- MODULE FacadeAnswerProofs -------------------------
(* What a concurrent GetRun answers, what Close waits for, and what is left   *)
(* when every request is over, for any number of runs and a store that may    *)
(* fail at every write.                                                       *)
EXTENDS FacadeTimelineProofs

\* A final status GetRun has read is still the run's, and the timeline it read
\* afterwards has the result.
Seen(r) ==
  /\ view[r].phase # "idle" /\ view[r].status \in Terminal => row[r] = view[r].status
  /\ view[r].phase = "answered" /\ view[r].status \in Terminal /\ pc[r] = "returned" /\ r \notin lost =>
       \E e \in Range(view[r].timeline) : IsTerminal(e) /\ e.status = view[r].status

\* The store is closed when the runs Close knew of are done.
Waited == server = "storeClosed" => handles \subseteq done

\* The counters are the numbers of requests at the places they count.
InQueue  == {r \in Runs : pc[r] \in {"queued", "acquired"}}
Counting == {r \in Runs : \/ pc[r] \in {"execute", "execFailed", "uncount", "register", "spawn"}
                          \/ pc[r] = "returned" /\ fw[r] # "exited"}
Listed   == {r \in Runs : pc[r] = "spawn" \/ fw[r] \in ForwardPC \ {"none", "cancel", "release", "decrement", "exited"}}

Counters ==
  /\ queued = Cardinality(InQueue)
  /\ active = IF MaxConcurrent = 0 THEN 0 ELSE Cardinality(Counting)
  /\ live = Listed

\* Without a semaphore no request queues or is counted.
Slotless(r) ==
  MaxConcurrent = 0 => /\ pc[r] \notin {"created", "queued", "acquired", "dequeued", "uncount"}
                       /\ fw[r] # "decrement"

\* Both error paths of StartRun and the deferred calls of the forwarder cancel
\* the run's context, and nothing revives it.
ContextOver(r) ==
  \/ pc[r] \in {"execFailed", "uncount", "refusing", "refused"}
  \/ fw[r] \in {"release", "decrement", "exited"}
  => r \in cancelled

AnswerInv ==
  /\ SlotInv /\ TimelineInv /\ Waited /\ Counters
  /\ \A r \in Runs : Slotless(r) /\ Seen(r) /\ ContextOver(r)

-----------------------------------------------------------------------------
(* The counters *)

\* One run enters or leaves a set, or none does.
LEMMA CountStep ==
  ASSUME NEW S \in SUBSET Runs, NEW T \in SUBSET Runs, NEW r \in Runs, NEW n,
         \A q \in Runs \ {r} : q \in T <=> q \in S,
         \/ (r \in T <=> r \in S) /\ n = Cardinality(S)
         \/ r \notin S /\ r \in T /\ n = Cardinality(S) + 1
         \/ r \in S /\ r \notin T /\ n = Cardinality(S) - 1
  PROVE  n = Cardinality(T)
<1>1. IsFiniteSet(S) /\ Cardinality(S) \in Nat
  BY FacadeAssumption, FS_Subset, FS_CardinalityType DEF FacadeAssumption
<1>2. CASE (r \in T <=> r \in S) /\ n = Cardinality(S)
  <2>1. T = S
    BY <1>2
  <2> QED
    BY <1>2, <2>1
<1>3. CASE r \notin S /\ r \in T /\ n = Cardinality(S) + 1
  <2>1. T = S \cup {r}
    BY <1>3
  <2> QED
    BY <1>1, <1>3, <2>1, FS_AddElement
<1>4. CASE r \in S /\ r \notin T /\ n = Cardinality(S) - 1
  <2>1. T = S \ {r}
    BY <1>4
  <2> QED
    BY <1>1, <1>4, <2>1, FS_RemoveElement
<1> QED
  BY <1>2, <1>3, <1>4

\* What a step of run r does to the counters and to r's places among them.
QueueMoves(r) ==
  \/ (r \in InQueue' <=> r \in InQueue) /\ queued' = queued
  \/ r \notin InQueue /\ r \in InQueue' /\ queued' = queued + 1
  \/ r \in InQueue /\ r \notin InQueue' /\ queued' = queued - 1

ActiveMoves(r) ==
  \/ (r \in Counting' <=> r \in Counting) /\ active' = active
  \/ r \notin Counting /\ r \in Counting' /\ active' = active + 1
  \/ r \in Counting /\ r \notin Counting' /\ active' = active - 1

LiveMoves(r) ==
  \/ (r \in Listed' <=> r \in Listed) /\ live' = live
  \/ r \in Listed' /\ live' = live \cup {r}
  \/ r \notin Listed' /\ live' = live \ {r}

LEMMA CountersKept ==
  ASSUME NEW r \in Runs, Counters, \A q \in Runs \ {r} : Same(q), QueueMoves(r),
         IF MaxConcurrent = 0 THEN active' = active ELSE ActiveMoves(r), LiveMoves(r)
  PROVE  Counters'
<1>1. queued' = Cardinality(InQueue')
  <2>1. InQueue \in SUBSET Runs /\ InQueue' \in SUBSET Runs
        /\ \A q \in Runs \ {r} : q \in InQueue' <=> q \in InQueue
    BY DEF InQueue, Same
  <2>2. \/ (r \in InQueue' <=> r \in InQueue) /\ queued' = Cardinality(InQueue)
        \/ r \notin InQueue /\ r \in InQueue' /\ queued' = Cardinality(InQueue) + 1
        \/ r \in InQueue /\ r \notin InQueue' /\ queued' = Cardinality(InQueue) - 1
    BY DEF Counters, QueueMoves
  <2> QED
    BY <2>1, <2>2, CountStep
<1>2. active' = IF MaxConcurrent = 0 THEN 0 ELSE Cardinality(Counting')
  <2>1. CASE MaxConcurrent = 0
    BY <2>1 DEF Counters
  <2>2. CASE MaxConcurrent # 0
    <3>1. Counting \in SUBSET Runs /\ Counting' \in SUBSET Runs
          /\ \A q \in Runs \ {r} : q \in Counting' <=> q \in Counting
      BY DEF Counting, Same
    <3>2. \/ (r \in Counting' <=> r \in Counting) /\ active' = Cardinality(Counting)
          \/ r \notin Counting /\ r \in Counting' /\ active' = Cardinality(Counting) + 1
          \/ r \in Counting /\ r \notin Counting' /\ active' = Cardinality(Counting) - 1
      BY <2>2 DEF Counters, ActiveMoves
    <3> QED
      BY <2>2, <3>1, <3>2, CountStep
  <2> QED
    BY <2>1, <2>2
<1>3. live' = Listed'
  <2>1. \A q \in Runs \ {r} : q \in Listed' <=> q \in Listed
    BY DEF Listed, Same
  <2>2. Listed \in SUBSET Runs /\ Listed' \in SUBSET Runs /\ live = Listed
    BY DEF Listed, Counters
  <2>3. CASE (r \in Listed' <=> r \in Listed) /\ live' = live
    BY <2>1, <2>2, <2>3
  <2>4. CASE r \in Listed' /\ live' = live \cup {r}
    BY <2>1, <2>2, <2>4
  <2>5. CASE r \notin Listed' /\ live' = live \ {r}
    BY <2>1, <2>2, <2>5
  <2> QED
    BY <2>3, <2>4, <2>5 DEF LiveMoves
<1> QED
  BY <1>1, <1>2, <1>3 DEF Counters

\* The places of one run, without the sets.
LEMMA Places ==
  ASSUME NEW r \in Runs
  PROVE  /\ r \in InQueue <=> pc[r] \in {"queued", "acquired"}
         /\ r \in Counting <=> \/ pc[r] \in {"execute", "execFailed", "uncount", "register", "spawn"}
                               \/ pc[r] = "returned" /\ fw[r] # "exited"
         /\ r \in Listed <=>
              pc[r] = "spawn" \/ fw[r] \in ForwardPC \ {"none", "cancel", "release", "decrement", "exited"}
         /\ r \in InQueue' <=> pc'[r] \in {"queued", "acquired"}
         /\ r \in Counting' <=> \/ pc'[r] \in {"execute", "execFailed", "uncount", "register", "spawn"}
                                \/ pc'[r] = "returned" /\ fw'[r] # "exited"
         /\ r \in Listed' <=>
              pc'[r] = "spawn" \/ fw'[r] \in ForwardPC \ {"none", "cancel", "release", "decrement", "exited"}
BY DEF InQueue, Counting, Listed

LEMMA StartCountersStep ==
  ASSUME NEW r \in Runs, SlotInv, Counters, Slotless(r), StartRun(r)
  PROVE  Counters' /\ Slotless(r)'
<1>0. /\ pc \in [Runs -> StartPC] /\ fw \in [Runs -> ForwardPC] /\ MaxConcurrent \in Nat
      /\ fw[r] # "none" <=> pc[r] = "returned"
      /\ r \in released => \/ pc[r] \in {"uncount", "refusing", "refused"}
                           \/ fw[r] \in {"decrement", "exited"}
  BY FacadeAssumption
  DEF FacadeAssumption, SlotInv, TypeInv, TypeOK, StartTypeOK, ForwardTypeOK, Ownership,
      ForwarderStarted, ReleasedIsPast
<1>1. \A q \in Runs \ {r} : Same(q)
  BY OthersSame DEF SlotInv
<1>2. ReleaseAfterFailure(r) =>
        \/ pc'[r] = "uncount" /\ MaxConcurrent # 0
        \/ pc'[r] = "refusing" /\ MaxConcurrent = 0
  <2> SUFFICES ASSUME ReleaseAfterFailure(r)
               PROVE  \/ pc'[r] = "uncount" /\ MaxConcurrent # 0
                      \/ pc'[r] = "refusing" /\ MaxConcurrent = 0
    OBVIOUS
  <2>1. CASE TakeBackSlot(r) /\ pc' = [pc EXCEPT ![r] = "uncount"]
    BY <1>0, <2>1 DEF TakeBackSlot
  <2>2. CASE NothingToRelease(r) /\ pc' = [pc EXCEPT ![r] = "refusing"]
    <3>1. r \notin released
      BY <1>0 DEF ReleaseAfterFailure
    <3> QED
      BY <1>0, <2>2, <3>1 DEF NothingToRelease
  <2> QED
    BY <2>1, <2>2 DEF ReleaseAfterFailure
<1> USE <1>0, Places DEF QueueMoves, ActiveMoves, LiveMoves, Slotless, forwardVars
<1>3. /\ QueueMoves(r) /\ LiveMoves(r) /\ IF MaxConcurrent = 0 THEN active' = active ELSE ActiveMoves(r)
      /\ Slotless(r)'
  <2>1. CASE Submit(r)
    BY <2>1 DEF Submit
  <2>2. CASE EnterQueue(r) \/ Acquire(r)
    BY <2>2 DEF EnterQueue, Acquire
  <2>3. CASE QueueTimeout(r) \/ CancelledWhileQueued(r)
    <3>1. /\ pc[r] = "queued" /\ pc'[r] = "refusing" /\ fw'[r] = fw[r]
          /\ queued' = queued - 1 /\ active' = active /\ live' = live
      BY <2>3 DEF QueueTimeout, CancelledWhileQueued, LeaveQueue
    <3> QED
      BY <3>1
  <2>4. CASE Dequeue(r) \/ CountActive(r)
    BY <2>4 DEF Dequeue, CountActive
  <2>5. CASE ExecuteStarts(r) \/ ExecuteFails(r)
    BY <2>5 DEF ExecuteStarts, ExecuteFails
  <2>6. CASE ReleaseAfterFailure(r)
    <3>1. /\ pc[r] = "execFailed" /\ fw'[r] = fw[r]
          /\ queued' = queued /\ active' = active /\ live' = live
      BY <2>6 DEF ReleaseAfterFailure
    <3>2. \/ pc'[r] = "uncount" /\ MaxConcurrent # 0
          \/ pc'[r] = "refusing" /\ MaxConcurrent = 0
      BY <1>2, <2>6
    <3> QED
      BY <3>1, <3>2
  <2>7. CASE UncountAfterFailure(r) \/ Refuse(r)
    BY <2>7 DEF UncountAfterFailure, Refuse
  <2>8. CASE Register(r) \/ Spawn(r)
    BY <2>8 DEF Register, Spawn, ForwardPC
  <2> QED
    BY <2>1, <2>2, <2>3, <2>4, <2>5, <2>6, <2>7, <2>8 DEF StartRun
<1> QED
  BY <1>1, <1>3, CountersKept

LEMMA ForwardCountersStep ==
  ASSUME NEW r \in Runs, SlotInv, Counters, Slotless(r), ForwardEvents(r)
  PROVE  Counters' /\ Slotless(r)'
<1>0. /\ pc \in [Runs -> StartPC] /\ fw \in [Runs -> ForwardPC] /\ MaxConcurrent \in Nat
      /\ fw[r] # "none" <=> pc[r] = "returned"
      /\ r \in released => \/ pc[r] \in {"uncount", "refusing", "refused"}
                           \/ fw[r] \in {"decrement", "exited"}
  BY FacadeAssumption
  DEF FacadeAssumption, SlotInv, TypeInv, TypeOK, StartTypeOK, ForwardTypeOK, Ownership,
      ForwarderStarted, ReleasedIsPast
<1>1. \A q \in Runs \ {r} : Same(q)
  BY OthersSame DEF SlotInv
<1> USE <1>0 DEF GoTo, startVars, ForwardPC
<1>2. /\ pc' = pc /\ queued' = queued /\ fw[r] # "none" /\ fw'[r] # "none"
      /\ fw'[r] \in ForwardPC
      /\ \/ /\ fw[r] \notin {"unregister", "cancel", "release", "decrement", "exited"}
            /\ fw'[r] \notin {"cancel", "release", "decrement", "exited"}
            /\ active' = active /\ live' = live
         \/ fw[r] = "unregister" /\ fw'[r] = "cancel" /\ active' = active /\ live' = live \ {r}
         \/ fw[r] = "cancel" /\ fw'[r] = "release" /\ active' = active /\ live' = live
         \/ /\ fw[r] = "release" /\ fw'[r] = "decrement" /\ active' = active /\ live' = live
            /\ MaxConcurrent > 0
         \/ /\ fw[r] = "release" /\ fw'[r] = "exited" /\ active' = active /\ live' = live
            /\ MaxConcurrent = 0
         \/ fw[r] = "decrement" /\ fw'[r] = "exited" /\ active' = active - 1 /\ live' = live
  <2>1. CASE ReceiveMessage(r) \/ RecoverPanic(r) \/ PersistEvent(r)
    BY <2>1 DEF ReceiveMessage, RecoverPanic, PersistEvent
  <2>2. CASE OfferEvent(r) \/ MessagesClosed(r) \/ AwaitResult(r)
    BY <2>2 DEF OfferEvent, MessagesClosed, AwaitResult
  <2>3. CASE PersistResult(r) \/ SendResult(r) \/ Finalise(r) \/ SaveSessionId(r)
    BY <2>3 DEF PersistResult, SendResult, Finalise, SaveSessionId
  <2>4. CASE CloseEvents(r) \/ CloseDone(r) \/ Unregister(r) \/ CancelOnExit(r)
    BY <2>4 DEF CloseEvents, CloseDone, Unregister, CancelOnExit
  <2>5. CASE ReleaseSlot(r)
    BY <2>5 DEF ReleaseSlot, TakeBackSlot, NothingToRelease
  <2>6. CASE UncountActive(r)
    BY <2>6 DEF UncountActive
  <2> QED
    BY <2>1, <2>2, <2>3, <2>4, <2>5, <2>6 DEF ForwardEvents
<1>3. QueueMoves(r) /\ LiveMoves(r)
  <2>1. fw[r] \in ForwardPC
    OBVIOUS
  <2>2. QueueMoves(r)
    BY <1>2, Places DEF QueueMoves
  <2>3. pc[r] # "spawn" /\ pc'[r] # "spawn"
    BY <1>2
  <2> QED
    BY <1>2, <2>1, <2>2, <2>3, Places DEF LiveMoves
<1>4. MaxConcurrent # 0 => ActiveMoves(r)
  BY <1>2, Places DEF ActiveMoves
<1>5. MaxConcurrent = 0 => active' = active
  BY <1>2 DEF Slotless
<1>6. Slotless(r)'
  BY <1>2 DEF Slotless
<1> QED
  BY <1>1, <1>3, <1>4, <1>5, <1>6, CountersKept

\* A step that is none of a run's own code moves no counter.
LEMMA OtherCountersStep ==
  ASSUME Counters, \A r \in Runs : Slotless(r), \A r \in Runs : Same(r),
         UNCHANGED <<queued, active, live>>
  PROVE  Counters' /\ \A r \in Runs : Slotless(r)'
<1>1. InQueue' = InQueue /\ Counting' = Counting /\ Listed' = Listed
  BY DEF InQueue, Counting, Listed, Same
<1> QED
  BY <1>1 DEF Counters, Slotless, Same

LEMMA CountersInvariant ==
  ASSUME SlotInv, Counters, \A r \in Runs : Slotless(r), [Next]_vars
  PROVE  Counters' /\ \A r \in Runs : Slotless(r)'
<1>1. ASSUME NEW q \in Runs, StartRun(q) \/ ForwardEvents(q)
      PROVE  Counters' /\ \A r \in Runs : Slotless(r)'
  <2>1. \A r \in Runs \ {q} : Same(r)
    BY <1>1, OthersSame DEF SlotInv
  <2>2. Counters' /\ Slotless(q)'
    BY <1>1, StartCountersStep, ForwardCountersStep
  <2> QED
    BY <2>1, <2>2 DEF Slotless, Same
<1>2. ASSUME NEW q \in Runs, Reader(q)
      PROVE  Counters' /\ \A r \in Runs : Slotless(r)'
  <2>1. UNCHANGED <<pc, fw, queued, active, live>>
    BY <1>2 DEF Reader, Receive, SeeClosed, startVars, forwardVars
  <2> QED
    BY <2>1 DEF Counters, Slotless, InQueue, Counting, Listed
<1>3. CASE Server \/ UNCHANGED vars \/ \E q \in Runs : Adapter(q) \/ Caller(q) \/ GetRun(q)
  <2>1. UNCHANGED <<queued, active, live>>
    <3>1. CASE Server
      BY <3>1 DEF Server, Shutdown, DrainEnds, CloseCancels, CloseReturns, otherThanServer, startVars
    <3>2. CASE UNCHANGED vars
      BY <3>2 DEF vars
    <3>3. ASSUME NEW q \in Runs, Adapter(q) PROVE UNCHANGED <<queued, active, live>>
      BY <3>3 DEF Adapter, AdapterEmits, AdapterReports, AdapterFinishes, startVars
    <3>4. ASSUME NEW q \in Runs, Caller(q) PROVE UNCHANGED <<queued, active, live>>
      BY <3>4 DEF Caller, Disconnect, Expire, CancelRun, startVars
    <3>5. ASSUME NEW q \in Runs, GetRun(q) PROVE UNCHANGED <<queued, active, live>>
      BY <3>5 DEF GetRun, GetRunRow, GetRunEvents, GetRunAgain, GetRunLeaves, startVars
    <3> QED
      BY <1>3, <3>1, <3>2, <3>3, <3>4, <3>5
  <2> QED
    BY <1>3, <2>1, OtherStepSame, OtherCountersStep
<1> QED
  BY <1>1, <1>2, <1>3 DEF Next, RunStep, Terminated

-----------------------------------------------------------------------------
(* What GetRun has read, and what Close waits for *)

\* An event that ends the timeline of a settled run is the run's result.
LEMMA ResultStored ==
  ASSUME NEW r \in Runs, TimelineInv, r \notin lost, pc[r] = "returned", row[r] \in Terminal
  PROVE  \E e \in Range(log[r]) : IsTerminal(e) /\ e.status = row[r]
<1>1. Kept(r) /\ (fw[r] # "none" <=> pc[r] = "returned")
  BY DEF TimelineInv, Ownership, ForwarderStarted
<1>2. fw[r] \in Settled /\ row[r] = cur[r].status
  BY <1>1 DEF Kept, RowKept
<1>3. cur[r].kind = "result" /\ log[r] # <<>> /\ log[r][Len(log[r])] = cur[r]
  BY <1>1, <1>2 DEF Kept, InHand, LogKept, Recorded
<1>4. Len(log[r]) \in DOMAIN log[r]
  BY <1>3, Types, EmptySeq, LenProperties DEF TimelineInv
<1> QED
  BY <1>2, <1>3, <1>4 DEF Range, IsTerminal

\* A settled row does not change, and the timeline of a run never shrinks.
LEMMA SettledStays ==
  ASSUME NEW r \in Runs, TimelineInv, [Next]_vars, row[r] \in Terminal
  PROVE  row'[r] = row[r] /\ pc'[r] = pc[r]
<1>1. /\ pc[r] = "refused" \/ fw[r] \in Settled
      /\ fw[r] # "none" <=> pc[r] = "returned"
      /\ row \in [Runs -> Terminal \cup {"absent", "pending"}]
  BY DEF TimelineInv, Kept, RowKept, Ownership, ForwarderStarted, TypeInv, TypeOK, StoreTypeOK
<1>2. ASSUME NEW q \in Runs, StartRun(q) PROVE row'[r] = row[r] /\ pc'[r] = pc[r]
  <2>1. CASE q # r
    BY <1>2, <2>1, OthersSame DEF TimelineInv, Same
  <2>2. CASE q = r
    BY <1>1, <1>2, <2>2
    DEF StartRun, Submit, EnterQueue, Acquire, QueueTimeout, CancelledWhileQueued, LeaveQueue,
        Dequeue, CountActive, ExecuteStarts, ExecuteFails, ReleaseAfterFailure,
        UncountAfterFailure, Refuse, Register, Spawn, storeVars, Settled, Over, Left
  <2> QED
    BY <2>1, <2>2
<1>3. ASSUME NEW q \in Runs, ForwardEvents(q) PROVE row'[r] = row[r] /\ pc'[r] = pc[r]
  <2>1. CASE q # r
    BY <1>3, <2>1, OthersSame DEF TimelineInv, Same
  <2>2. CASE q = r
    BY <1>1, <1>3, <2>2
    DEF ForwardEvents, ReceiveMessage, RecoverPanic, PersistEvent, OfferEvent, MessagesClosed,
        AwaitResult, PersistResult, SendResult, Finalise, SaveSessionId, CloseEvents, CloseDone,
        Unregister, CancelOnExit, ReleaseSlot, UncountActive, GoTo, startVars, storeVars,
        Settled, Over, Left
  <2> QED
    BY <2>1, <2>2
<1>4. ASSUME NEW q \in Runs, Reader(q) PROVE row'[r] = row[r] /\ pc'[r] = pc[r]
  BY <1>4 DEF Reader, Receive, SeeClosed, startVars, storeVars
<1>5. CASE Server \/ UNCHANGED vars \/ \E q \in Runs : Adapter(q) \/ Caller(q) \/ GetRun(q)
  BY <1>5, OtherStepSame DEF Same
<1> QED
  BY <1>2, <1>3, <1>4, <1>5 DEF Next, RunStep, Terminated

\* Only GetRun's own steps move a view, and no write that failed is forgotten.
LEMMA ViewMoves ==
  ASSUME NEW r \in Runs, TypeInv, [Next]_vars
  PROVE  /\ view'[r] = view[r] \/ GetRun(r)
         /\ r \in lost => r \in lost'
<1>0. view \in [Runs -> [phase : {"idle", "rowRead", "answered"},
                        status : Terminal \cup {"absent", "pending"}, timeline : Seq(EventSet)]]
  BY DEF TypeInv, TypeOK, ServerTypeOK
<1> USE DEF startVars, forwardVars, streamVars, storeVars, serverVars, Written
<1>1. ASSUME NEW q \in Runs, StartRun(q) PROVE view'[r] = view[r] /\ (r \in lost => r \in lost')
  BY <1>1
  DEF StartRun, Submit, CreateRun, EnterQueue, Acquire, QueueTimeout, CancelledWhileQueued,
      LeaveQueue, Dequeue, CountActive, ExecuteStarts, ExecuteFails, ReleaseAfterFailure,
      UncountAfterFailure, Refuse, FinishRun, Register, Spawn
<1>2. ASSUME NEW q \in Runs, ForwardEvents(q) PROVE view'[r] = view[r] /\ (r \in lost => r \in lost')
  BY <1>2
  DEF ForwardEvents, ReceiveMessage, RecoverPanic, PersistEvent, AppendEvent, OfferEvent,
      MessagesClosed, AwaitResult, PersistResult, SendResult, Finalise, FinishRun, SaveSessionId,
      SaveSession, CloseEvents, CloseDone, Unregister, CancelOnExit, ReleaseSlot, UncountActive
<1>3. ASSUME NEW q \in Runs, Adapter(q) \/ Reader(q) \/ Caller(q)
      PROVE  view'[r] = view[r] /\ (r \in lost => r \in lost')
  BY <1>3
  DEF Adapter, AdapterEmits, AdapterReports, AdapterFinishes, Reader, Receive, SeeClosed,
      Caller, Disconnect, Expire, CancelRun
<1>4. ASSUME NEW q \in Runs, GetRun(q)
      PROVE  (view'[r] = view[r] \/ GetRun(r)) /\ (r \in lost => r \in lost')
  <2>1. lost' = lost
    BY <1>4 DEF GetRun, GetRunRow, GetRunEvents, GetRunAgain, GetRunLeaves
  <2>2. CASE q # r
    BY <1>0, <1>4, <2>1, <2>2 DEF GetRun, GetRunRow, GetRunEvents, GetRunAgain
  <2> QED
    BY <1>4, <2>1, <2>2
<1>5. CASE Server \/ UNCHANGED vars
  BY <1>5
  DEF Server, Shutdown, DrainEnds, CloseCancels, CloseReturns, otherThanServer, vars
<1> QED
  BY <1>1, <1>2, <1>3, <1>4, <1>5 DEF Next, RunStep, Terminated

LEMMA SeenStep ==
  ASSUME NEW r \in Runs, TimelineInv, Seen(r), [Next]_vars
  PROVE  Seen(r)'
<1>0. view \in [Runs -> [phase : {"idle", "rowRead", "answered"},
                        status : Terminal \cup {"absent", "pending"}, timeline : Seq(EventSet)]]
  BY DEF TimelineInv, TypeInv, TypeOK, ServerTypeOK
<1>1. CASE view'[r] = view[r]
  <2>1. view[r].phase # "idle" /\ view[r].status \in Terminal =>
          row'[r] = row[r] /\ pc'[r] = pc[r]
    BY SettledStays DEF Seen
  <2>2. r \in lost => r \in lost'
    BY ViewMoves DEF TimelineInv
  <2> QED
    BY <1>1, <2>1, <2>2 DEF Seen
<1>2. CASE GetRun(r)
  <2>0. row' = row /\ log' = log /\ pc' = pc /\ lost' = lost
    BY <1>2 DEF GetRun, GetRunRow, GetRunEvents, GetRunAgain, GetRunLeaves, startVars, storeVars
  <2>1. CASE GetRunRow(r)
    <3>1. view'[r].phase = "rowRead" /\ view'[r].status = row[r]
      BY <1>0, <2>1 DEF GetRunRow
    <3> QED
      BY <2>0, <3>1 DEF Seen
  <2>2. CASE GetRunEvents(r)
    <3>1. /\ view[r].phase = "rowRead" /\ view'[r].phase = "answered"
          /\ view'[r].status = view[r].status /\ view'[r].timeline = log[r]
      BY <1>0, <2>2 DEF GetRunEvents
    <3> QED
      BY <2>0, <3>1, ResultStored DEF Seen
  <2>3. CASE GetRunAgain(r)
    <3>1. view'[r] = NoView
      BY <1>0, <2>3 DEF GetRunAgain
    <3> QED
      BY <3>1 DEF Seen, NoView, Terminal
  <2> QED
    BY <1>2, <2>1, <2>2, <2>3 DEF GetRun
<1> QED
  BY <1>1, <1>2, ViewMoves DEF TimelineInv

LEMMA WaitedStep ==
  ASSUME Waited, TypeInv, [Next]_vars
  PROVE  Waited'
<1> USE DEF startVars, forwardVars, streamVars, storeVars, serverVars, Waited
<1>1. ASSUME NEW q \in Runs, StartRun(q) \/ Adapter(q) \/ Reader(q) \/ Caller(q) \/ GetRun(q)
      PROVE  UNCHANGED <<server, handles, done>>
  <2>1. CASE StartRun(q)
    BY <2>1
    DEF StartRun, Submit, EnterQueue, Acquire, QueueTimeout, CancelledWhileQueued, LeaveQueue,
        Dequeue, CountActive, ExecuteStarts, ExecuteFails, ReleaseAfterFailure,
        UncountAfterFailure, Refuse, Register, Spawn
  <2>2. CASE Adapter(q) \/ Reader(q) \/ Caller(q)
    BY <2>2
    DEF Adapter, AdapterEmits, AdapterReports, AdapterFinishes, Reader, Receive, SeeClosed,
        Caller, Disconnect, Expire, CancelRun
  <2>3. CASE GetRun(q)
    BY <2>3 DEF GetRun, GetRunRow, GetRunEvents, GetRunAgain, GetRunLeaves
  <2> QED
    BY <1>1, <2>1, <2>2, <2>3
<1>2. ASSUME NEW q \in Runs, ForwardEvents(q)
      PROVE  server' = server /\ handles' = handles /\ done \subseteq done'
  BY <1>2
  DEF ForwardEvents, ReceiveMessage, RecoverPanic, PersistEvent, OfferEvent, MessagesClosed,
      AwaitResult, PersistResult, SendResult, Finalise, SaveSessionId, CloseEvents, CloseDone,
      Unregister, CancelOnExit, ReleaseSlot, UncountActive
<1>3. CASE Server
  BY <1>3 DEF Server, Shutdown, DrainEnds, CloseCancels, CloseReturns, otherThanServer
<1>4. CASE UNCHANGED vars
  BY <1>4 DEF vars
<1> QED
  BY <1>1, <1>2, <1>3, <1>4 DEF Next, RunStep, Terminated

LEMMA ContextStep ==
  ASSUME NEW r \in Runs, SlotInv, ContextOver(r), [Next]_vars
  PROVE  ContextOver(r)'
<1>0. pc \in [Runs -> StartPC] /\ fw \in [Runs -> ForwardPC]
  BY DEF SlotInv, TypeInv, TypeOK, StartTypeOK, ForwardTypeOK
<1> USE DEF startVars, sessionVars, forwardVars, streamVars, storeVars, serverVars, ContextOver
<1>1. ASSUME NEW q \in Runs, StartRun(q) \/ ForwardEvents(q), r # q
      PROVE  Same(r) /\ cancelled \subseteq cancelled'
  <2>1. Same(r)
    BY <1>1, OthersSame DEF SlotInv
  <2>2. CASE StartRun(q)
    BY <2>1, <2>2
    DEF StartRun, Submit, EnterQueue, Acquire, QueueTimeout, CancelledWhileQueued, LeaveQueue,
        Dequeue, CountActive, ExecuteStarts, ExecuteFails, ReleaseAfterFailure,
        UncountAfterFailure, Refuse, Register, Spawn
  <2>3. CASE ForwardEvents(q)
    BY <2>1, <2>3
    DEF ForwardEvents, ReceiveMessage, RecoverPanic, PersistEvent, OfferEvent, MessagesClosed,
        AwaitResult, PersistResult, SendResult, Finalise, SaveSessionId, CloseEvents, CloseDone,
        Unregister, CancelOnExit, ReleaseSlot, UncountActive
  <2> QED
    BY <1>1, <2>1, <2>2, <2>3
<1>2. CASE StartRun(r)
  <2>1. CASE Submit(r) \/ EnterQueue(r) \/ Acquire(r) \/ Dequeue(r) \/ CountActive(r)
             \/ ExecuteStarts(r) \/ Register(r) \/ Spawn(r)
    BY <1>0, <2>1 DEF Submit, EnterQueue, Acquire, Dequeue, CountActive, ExecuteStarts, Register, Spawn
  <2>2. CASE QueueTimeout(r) \/ CancelledWhileQueued(r) \/ ExecuteFails(r)
    BY <1>0, <2>2 DEF QueueTimeout, CancelledWhileQueued, LeaveQueue, ExecuteFails
  <2>3. CASE ReleaseAfterFailure(r) \/ UncountAfterFailure(r) \/ Refuse(r)
    BY <1>0, <2>3 DEF ReleaseAfterFailure, UncountAfterFailure, Refuse
  <2> QED
    BY <1>2, <2>1, <2>2, <2>3 DEF StartRun
<1>3. CASE ForwardEvents(r)
  <2> USE DEF GoTo
  <2>1. CASE ReceiveMessage(r) \/ RecoverPanic(r) \/ PersistEvent(r) \/ OfferEvent(r)
             \/ MessagesClosed(r) \/ AwaitResult(r)
    BY <1>0, <2>1 DEF ReceiveMessage, RecoverPanic, PersistEvent, OfferEvent, MessagesClosed, AwaitResult
  <2>2. CASE PersistResult(r) \/ SendResult(r) \/ Finalise(r) \/ SaveSessionId(r)
    BY <1>0, <2>2 DEF PersistResult, SendResult, Finalise, SaveSessionId
  <2>3. CASE CloseEvents(r) \/ CloseDone(r) \/ Unregister(r) \/ CancelOnExit(r)
    BY <1>0, <2>3 DEF CloseEvents, CloseDone, Unregister, CancelOnExit
  <2>4. CASE ReleaseSlot(r) \/ UncountActive(r)
    BY <1>0, <2>4 DEF ReleaseSlot, UncountActive
  <2> QED
    BY <1>3, <2>1, <2>2, <2>3, <2>4 DEF ForwardEvents
<1>4. ASSUME NEW q \in Runs, Adapter(q) \/ Reader(q) \/ Caller(q) \/ GetRun(q)
      PROVE  pc' = pc /\ fw' = fw /\ cancelled \subseteq cancelled'
  BY <1>4
  DEF Adapter, AdapterEmits, AdapterReports, AdapterFinishes, Reader, Receive, SeeClosed,
      Caller, Disconnect, Expire, CancelRun, GetRun, GetRunRow, GetRunEvents, GetRunAgain, GetRunLeaves
<1>5. CASE Server \/ UNCHANGED vars
  BY <1>5 DEF Server, Shutdown, DrainEnds, CloseCancels, CloseReturns, otherThanServer, vars
<1>6. ASSUME NEW q \in Runs, StartRun(q) \/ ForwardEvents(q)
      PROVE  ContextOver(r)'
  BY <1>1, <1>2, <1>3, <1>6 DEF Same
<1> QED
  BY <1>4, <1>5, <1>6 DEF Next, RunStep, Terminated

-----------------------------------------------------------------------------

LEMMA AnswerInvariant == Spec => []AnswerInv
<1>1. Init => SlotInv /\ TimelineInv
  BY InitSlotInv, InitKept DEF TimelineInv, SlotInv
<1>2. Init => Waited /\ Counters /\ \A r \in Runs : Slotless(r) /\ Seen(r) /\ ContextOver(r)
  <2> SUFFICES ASSUME Init
               PROVE  Waited /\ Counters /\ \A r \in Runs : Slotless(r) /\ Seen(r) /\ ContextOver(r)
    OBVIOUS
  <2>1. InQueue = {} /\ Counting = {} /\ Listed = {}
    BY DEF Init, InQueue, Counting, Listed
  <2>2. Counters
    BY <2>1, FS_EmptySet DEF Init, Counters
  <2> QED
    BY <2>2 DEF Init, Waited, Slotless, Seen, ContextOver, NoView, Terminal
<1>3. Spec => []TimelineInv
  BY TimelineInvariant
<1>4. AnswerInv /\ TimelineInv' /\ [Next]_vars => AnswerInv'
  BY NextSlotInv, CountersInvariant, SeenStep, WaitedStep, ContextStep DEF AnswerInv, TimelineInv
<1>5. Init => AnswerInv
  BY <1>1, <1>2 DEF AnswerInv
<1> QED
  BY <1>3, <1>4, <1>5, PTL DEF Spec

\* When every request is over, no slot, no count, no live entry and no context
\* that nobody has cancelled is left.
THEOREM NothingIsLeft == Spec => []NothingLeaks
<1>1. AnswerInv => NothingLeaks
  <2> SUFFICES ASSUME AnswerInv, \A r \in Runs : RunOver(r)
               PROVE  sem = 0 /\ active = 0 /\ queued = 0 /\ live = {} /\ cancelled = Runs
    BY DEF NothingLeaks
  <2>1. /\ \A r \in Runs : fw[r] # "none" <=> pc[r] = "returned"
        /\ SlotAccounting /\ Counters
    BY DEF AnswerInv, SlotInv, Ownership, ForwarderStarted
  <2>2. InQueue = {} /\ Counting = {} /\ Listed = {}
    BY <2>1 DEF RunOver, InQueue, Counting, Listed
  <2>3. Holders = {}
    BY <2>1 DEF RunOver, Holders, StartHolds, ForwardHolds
  <2>4. cancelled = Runs
    <3>1. cancelled \subseteq Runs
      BY DEF AnswerInv, SlotInv, TypeInv, TypeOK, ServerTypeOK
    <3> QED
      BY <3>1 DEF AnswerInv, ContextOver, RunOver
  <2> QED
    BY <2>1, <2>2, <2>3, <2>4, FS_EmptySet DEF Counters, SlotAccounting
<1> QED
  BY <1>1, AnswerInvariant, PTL

\* Two queries without a transaction are enough: an answer with a final status
\* has the result in its timeline.
THEOREM AnswersAreComplete == Spec => []FinalAnswerIsComplete
<1>1. AnswerInv => FinalAnswerIsComplete
  BY DEF AnswerInv, Seen, FinalAnswerIsComplete
<1> QED
  BY <1>1, AnswerInvariant, PTL

\* Close returns only after the last write of every run it knew of.
THEOREM CloseWaits == Spec => []CloseFinalises
<1>1. AnswerInv => CloseFinalises
  <2> SUFFICES ASSUME AnswerInv, server = "storeClosed", NEW r \in handles
               PROVE  fw[r] \in Left
    BY DEF CloseFinalises, Left
  <2>1. r \in Runs /\ r \in done
    BY DEF AnswerInv, Waited, SlotInv, TypeInv, TypeOK, ServerTypeOK
  <2> QED
    BY <2>1 DEF AnswerInv, TimelineInv, Kept, ClosedKept
<1> QED
  BY <1>1, AnswerInvariant, PTL

-----------------------------------------------------------------------------
(* The terminal event on the live stream *)

\* No more events than messages, and one for the panic over a nil session.
Numbered(r) ==
  /\ Len(inbox[r]) <= emitted[r]
  /\ IF adapter[r] = "nil"
     THEN \/ fw[r] \in {"none", "recv"} /\ seq[r] = 0
          \/ /\ fw[r] \notin {"none", "recv"} /\ seq[r] = 1
             /\ fw[r] \in {"persist", "offer"} => cur[r].kind = "error"
     ELSE seq[r] + Len(inbox[r]) <= emitted[r]

\* What waits for the reader has been offered; once the result has, it is there.
Delivered(r) ==
  /\ Len(events[r]) <= Offered(r)
  /\ fw[r] \in Recorded \ {"sendResult"} => \E e \in Range(Stream(r)) : IsTerminal(e)

RoomInv == TimelineInv /\ \A r \in Runs : Numbered(r) /\ Delivered(r)

\* What Numbered and Delivered speak of, for one run.
SameSession(r) == adapter'[r] = adapter[r] /\ emitted'[r] = emitted[r] /\ inbox'[r] = inbox[r]

LEMMA RoomTypes ==
  ASSUME NEW r \in Runs, TypeInv
  PROVE  /\ emitted[r] \in 0..MaxMessages /\ emitted[r] \in Nat /\ MaxMessages \in Nat
         /\ inbox[r] \in Seq(1..MaxMessages) /\ Len(inbox[r]) \in Nat
         /\ seq[r] \in Nat /\ events[r] \in Seq(EventSet) /\ Len(events[r]) \in Nat
         /\ fw[r] \in ForwardPC /\ EventsBuffer \in Nat
<1>1. /\ emitted[r] \in 0..MaxMessages /\ inbox[r] \in Seq(1..MaxMessages)
      /\ events[r] \in Seq(EventSet) /\ seq[r] \in Nat /\ fw[r] \in ForwardPC
  BY DEF TypeInv, TypeOK, SessionTypeOK, StreamTypeOK, ForwardTypeOK
<1> QED
  BY <1>1, FacadeAssumption, LenProperties DEF FacadeAssumption

LEMMA RoomSame ==
  ASSUME NEW r \in Runs, Numbered(r), Delivered(r), Same(r), SameSession(r)
  PROVE  Numbered(r)' /\ Delivered(r)'
<1>1. Offered(r)' = Offered(r) /\ Stream(r)' = Stream(r)
  BY DEF Same, Offered, Stream
<1> QED
  BY <1>1 DEF Same, SameSession, Numbered, Delivered

\* Nothing a step of one run or of the server does reaches the session of another.
LEMMA SessionsApart ==
  ASSUME NEW r \in Runs, TypeInv, NEW q \in Runs, q # r,
         StartRun(q) \/ Adapter(q) \/ ForwardEvents(q)
  PROVE  SameSession(r)
<1>0. /\ adapter \in [Runs -> {"off", "running", "finished", "nil"}]
      /\ emitted \in [Runs -> 0..MaxMessages] /\ inbox \in [Runs -> Seq(1..MaxMessages)]
  BY DEF TypeInv, TypeOK, SessionTypeOK
<1> USE <1>0 DEF SameSession, sessionVars
<1>1. CASE StartRun(q)
  BY <1>1
  DEF StartRun, Submit, EnterQueue, Acquire, QueueTimeout, CancelledWhileQueued, LeaveQueue,
      Dequeue, CountActive, ExecuteStarts, ExecuteFails, ReleaseAfterFailure,
      UncountAfterFailure, Refuse, Register, Spawn
<1>2. CASE Adapter(q)
  BY <1>2 DEF Adapter, AdapterEmits, AdapterReports, AdapterFinishes
<1>3. CASE ForwardEvents(q)
  BY <1>3
  DEF ForwardEvents, ReceiveMessage, RecoverPanic, PersistEvent, OfferEvent, MessagesClosed,
      AwaitResult, PersistResult, SendResult, Finalise, SaveSessionId, CloseEvents, CloseDone,
      Unregister, CancelOnExit, ReleaseSlot, UncountActive
<1> QED
  BY <1>1, <1>2, <1>3

LEMMA SessionsKept ==
  ASSUME NEW r \in Runs, Server \/ UNCHANGED vars \/ \E q \in Runs : Reader(q) \/ Caller(q) \/ GetRun(q)
  PROVE  SameSession(r)
<1> USE DEF SameSession, sessionVars
<1>1. CASE Server
  BY <1>1 DEF Server, Shutdown, DrainEnds, CloseCancels, CloseReturns, otherThanServer
<1>2. CASE UNCHANGED vars
  BY <1>2 DEF vars
<1>3. ASSUME NEW q \in Runs, Reader(q) \/ Caller(q) PROVE SameSession(r)
  BY <1>3 DEF Reader, Receive, SeeClosed, Caller, Disconnect, Expire, CancelRun
<1>4. ASSUME NEW q \in Runs, GetRun(q) PROVE SameSession(r)
  BY <1>4 DEF GetRun, GetRunRow, GetRunEvents, GetRunAgain, GetRunLeaves
<1> QED
  BY <1>1, <1>2, <1>3, <1>4

\* A session starts before its forwarder does.
LEMMA StartRoom ==
  ASSUME NEW r \in Runs, TypeInv, Kept(r), fw[r] # "none" <=> pc[r] = "returned",
         Numbered(r), Delivered(r), StartRun(r)
  PROVE  Numbered(r)' /\ Delivered(r)'
<1>0. pc[r] # "returned"
  BY DEF StartRun, Submit, EnterQueue, Acquire, QueueTimeout, CancelledWhileQueued, LeaveQueue,
      Dequeue, CountActive, ExecuteStarts, ExecuteFails, ReleaseAfterFailure,
      UncountAfterFailure, Refuse, Register, Spawn
<1>1. fw[r] = "none" /\ seq[r] = 0 /\ got[r] = <<>> /\ events[r] = <<>>
  BY <1>0 DEF Kept, LogKept, StreamKept
<1>2. /\ fw'[r] \in {"none", "recv"} /\ seq'[r] = seq[r] /\ events'[r] = events[r]
      /\ got'[r] = got[r] /\ emitted'[r] = emitted[r] /\ inbox'[r] = inbox[r]
      /\ adapter'[r] = adapter[r] \/ adapter'[r] \in {"running", "nil"}
  <2>0. fw \in [Runs -> ForwardPC] /\ adapter \in [Runs -> {"off", "running", "finished", "nil"}]
    BY DEF TypeInv, TypeOK, ForwardTypeOK, SessionTypeOK
  <2> QED
    BY <1>1, <2>0
    DEF StartRun, Submit, EnterQueue, Acquire, QueueTimeout, CancelledWhileQueued, LeaveQueue,
        Dequeue, CountActive, ExecuteStarts, ExecuteFails, ReleaseAfterFailure,
        UncountAfterFailure, Refuse, Register, Spawn, forwardVars, streamVars, sessionVars
<1>3. Numbered(r)'
  BY <1>1, <1>2, RoomTypes DEF Numbered
<1>4. Delivered(r)'
  <2>1. events'[r] = <<>> /\ Offered(r)' = 0
    BY <1>1, <1>2 DEF Offered, Recorded, Settled, Over, Left
  <2> QED
    BY <1>2, <2>1 DEF Delivered, Recorded, Settled, Over, Left
<1> QED
  BY <1>3, <1>4

LEMMA AdapterRoom ==
  ASSUME NEW r \in Runs, TypeInv, Numbered(r), Delivered(r), Adapter(r), Same(r)
  PROVE  Numbered(r)' /\ Delivered(r)'
<1>1. CASE AdapterEmits(r)
  <2>1. /\ emitted'[r] = emitted[r] + 1 /\ adapter'[r] = adapter[r] /\ adapter[r] = "running"
        /\ inbox'[r] = inbox[r] \/ inbox'[r] = Append(inbox[r], emitted[r] + 1)
    BY <1>1 DEF AdapterEmits, TypeInv, TypeOK, SessionTypeOK
  <2>2. emitted[r] + 1 \in 1..MaxMessages
    BY <1>1, RoomTypes DEF AdapterEmits
  <2>3. Len(inbox'[r]) <= Len(inbox[r]) + 1 /\ Len(inbox'[r]) \in Nat
    BY <2>1, <2>2, RoomTypes, AppendProperties
  <2>4. Offered(r)' = Offered(r) /\ Stream(r)' = Stream(r)
    BY DEF Same, Offered, Stream
  <2> QED
    BY <2>1, <2>3, <2>4, RoomTypes DEF Numbered, Delivered, Same
<1>2. CASE AdapterReports(r) \/ AdapterFinishes(r)
  <2>1. /\ emitted'[r] = emitted[r] /\ inbox'[r] = inbox[r]
        /\ adapter'[r] = "nil" <=> adapter[r] = "nil"
    BY <1>2 DEF AdapterReports, AdapterFinishes, TypeInv, TypeOK, SessionTypeOK
  <2>2. Offered(r)' = Offered(r) /\ Stream(r)' = Stream(r)
    BY DEF Same, Offered, Stream
  <2> QED
    BY <2>1, <2>2 DEF Numbered, Delivered, Same
<1> QED
  BY <1>1, <1>2 DEF Adapter

\* Taking a message counts it; the panic is counted once.
LEMMA ReceiveRoom ==
  ASSUME NEW r \in Runs, TypeInv, Numbered(r), Delivered(r),
         ReceiveMessage(r) \/ RecoverPanic(r)
  PROVE  Numbered(r)' /\ Delivered(r)'
<1>1. /\ fw[r] = "recv" /\ fw'[r] = "persist" /\ seq'[r] = seq[r] + 1
      /\ events' = events /\ got' = got /\ adapter' = adapter /\ emitted' = emitted
  <2>1. fw \in [Runs -> ForwardPC] /\ seq \in [Runs -> Nat]
    BY DEF TypeInv, TypeOK, ForwardTypeOK
  <2> QED
    BY <2>1 DEF ReceiveMessage, RecoverPanic, GoTo, streamVars, sessionVars
<1>2. Delivered(r)'
  <2>1. Offered(r)' = Offered(r)
    BY <1>1, RoomTypes DEF Offered, Recorded, Settled, Over, Left
  <2> QED
    BY <1>1, <2>1 DEF Delivered, Recorded, Settled, Over, Left
<1>3. CASE ReceiveMessage(r)
  <2>1. adapter[r] # "nil" /\ inbox[r] # <<>> /\ inbox'[r] = Tail(inbox[r])
    BY <1>3 DEF ReceiveMessage, TypeInv, TypeOK, SessionTypeOK
  <2>2. Len(inbox'[r]) = Len(inbox[r]) - 1
    BY <2>1, RoomTypes, TakeFirst
  <2> QED
    BY <1>1, <1>2, <2>1, <2>2, RoomTypes DEF Numbered
<1>4. CASE RecoverPanic(r)
  <2>1. adapter[r] = "nil" /\ inbox'[r] = inbox[r] /\ cur'[r].kind = "error"
    BY <1>4 DEF RecoverPanic, panicEvent, Event, TypeInv, TypeOK, ForwardTypeOK, sessionVars
  <2> QED
    BY <1>1, <1>2, <2>1 DEF Numbered
<1> QED
  BY <1>3, <1>4

\* An offered event joins the stream or is dropped.
LEMMA OfferRoom ==
  ASSUME NEW r \in Runs, TypeInv, Numbered(r), Delivered(r), OfferEvent(r)
  PROVE  Numbered(r)' /\ Delivered(r)'
<1>1. /\ fw[r] = "offer" /\ seq' = seq /\ UNCHANGED sessionVars
      /\ \/ fw'[r] = "recv" /\ cur[r].kind = "message"
         \/ fw'[r] = "persistResult"
      /\ events'[r] = events[r] \/ events'[r] = Append(events[r], cur[r])
  BY DEF OfferEvent, GoTo, TypeInv, TypeOK, ForwardTypeOK, StreamTypeOK
<1>2. Numbered(r)'
  BY <1>1 DEF Numbered, sessionVars
<1>3. Offered(r)' = Offered(r) + 1
  BY <1>1, RoomTypes DEF Offered, Recorded, Settled, Over, Left
<1>4. Len(events'[r]) <= Len(events[r]) + 1 /\ Len(events'[r]) \in Nat
  BY <1>1, Types, RoomTypes, Appended
<1>5. Delivered(r)'
  BY <1>1, <1>3, <1>4, Types, RoomTypes DEF Delivered, Recorded, Settled, Over, Left
<1> QED
  BY <1>2, <1>5

\* The result finds room in a buffer for all that can have been offered before it.
LEMMA ResultRoom ==
  ASSUME EventsBuffer >= MaxMessages + 2,
         NEW r \in Runs, TypeInv, Kept(r), Numbered(r), Delivered(r), SendResult(r)
  PROVE  Numbered(r)' /\ Delivered(r)'
<1>1. /\ fw[r] = "sendResult" /\ fw'[r] = "finish" /\ UNCHANGED <<seq, cur, got, sessionVars>>
      /\ cur[r].kind = "result"
  BY DEF SendResult, GoTo, TypeInv, TypeOK, ForwardTypeOK, Kept, InHand, Recorded
<1>2. Numbered(r)'
  BY <1>1 DEF Numbered, sessionVars
<1>3. seq[r] <= MaxMessages + 1
  BY <1>1, RoomTypes DEF Numbered
<1>4. Len(events[r]) < EventsBuffer
  BY <1>1, <1>3, RoomTypes DEF Delivered, Offered, Recorded
<1>5. events'[r] = Append(events[r], cur[r])
  BY <1>4 DEF SendResult, TypeInv, TypeOK, StreamTypeOK
<1>6. Stream(r)' = Append(Stream(r), cur[r])
  <2>1. Stream(r)' = got[r] \o Append(events[r], cur[r])
    BY <1>1, <1>5 DEF Stream
  <2>2. got[r] \o Append(events[r], cur[r]) = Append(got[r] \o events[r], cur[r])
    BY Types, StreamGrows
  <2> QED
    BY <2>1, <2>2 DEF Stream
<1>7. \E e \in Range(Stream(r)') : IsTerminal(e)
  <2>1. /\ DOMAIN Stream(r)' = 1..(Len(Stream(r)) + 1) /\ Len(Stream(r)) \in Nat
        /\ Stream(r)'[Len(Stream(r)) + 1] = cur[r]
    BY <1>6, Types, Appended
  <2> QED
    BY <1>1, <2>1 DEF Range, IsTerminal
<1>8. Len(events'[r]) = Len(events[r]) + 1
  BY <1>5, Types, Appended
<1>9. Offered(r)' = Offered(r) + 1
  BY <1>1, RoomTypes DEF Offered, Recorded, Settled, Over, Left
<1> QED
  BY <1>2, <1>7, <1>8, <1>9, Types, RoomTypes DEF Delivered

\* The other steps of the forwarder only take it further.
LEMMA RestRoom ==
  ASSUME NEW r \in Runs, TypeInv, Numbered(r), Delivered(r), ForwardEvents(r),
         ~(ReceiveMessage(r) \/ RecoverPanic(r) \/ OfferEvent(r) \/ SendResult(r))
  PROVE  Numbered(r)' /\ Delivered(r)'
<1>1. /\ UNCHANGED <<seq, sessionVars, events, got>>
      /\ \/ fw[r] = "persist" /\ fw'[r] = "offer" /\ cur' = cur
         \/ fw[r] = "recv" /\ fw'[r] = "await" /\ adapter[r] = "finished"
         \/ fw[r] = "await" /\ fw'[r] = "persistResult"
         \/ fw[r] = "persistResult" /\ fw'[r] = "sendResult"
         \/ fw[r] \in Recorded \ {"sendResult"} /\ fw'[r] \in Recorded \ {"sendResult"}
  BY
  DEF ForwardEvents, PersistEvent, MessagesClosed, AwaitResult, PersistResult, Finalise,
      SaveSessionId, CloseEvents, CloseDone, Unregister, CancelOnExit, ReleaseSlot,
      UncountActive, GoTo, startVars, sessionVars, streamVars, TypeInv, TypeOK, ForwardTypeOK,
      Recorded, Settled, Over, Left
<1>2. Offered(r)' = Offered(r) /\ Stream(r)' = Stream(r)
  BY <1>1 DEF Offered, Stream, Recorded, Settled, Over, Left
<1>3. Numbered(r)'
  BY <1>1 DEF Numbered, sessionVars, Recorded, Settled, Over, Left
<1>4. Delivered(r)'
  BY <1>1, <1>2 DEF Delivered, Recorded, Settled, Over, Left
<1> QED
  BY <1>3, <1>4

\* What the reader takes moves from the channel to what it has.
LEMMA ReaderRoom ==
  ASSUME NEW r \in Runs, TypeInv, Numbered(r), Delivered(r), Reader(r)
  PROVE  Numbered(r)' /\ Delivered(r)'
<1>1. fw' = fw /\ seq' = seq /\ cur' = cur /\ UNCHANGED sessionVars
  BY DEF Reader, Receive, SeeClosed, forwardVars
<1>2. Numbered(r)' /\ Offered(r)' = Offered(r)
  BY <1>1 DEF Numbered, Offered, sessionVars
<1>3. CASE Receive(r)
  <2>1. /\ events[r] # <<>> /\ events'[r] = Tail(events[r])
        /\ got'[r] = Append(got[r], Head(events[r]))
    BY <1>3 DEF Receive, TypeInv, TypeOK, StreamTypeOK
  <2>2. Stream(r)' = Stream(r)
    BY <2>1, Types, StreamMoves DEF Stream
  <2>3. Len(events'[r]) = Len(events[r]) - 1
    BY <2>1, Types, TakeFirst
  <2> QED
    BY <1>1, <1>2, <2>2, <2>3, Types, RoomTypes DEF Delivered
<1>4. CASE SeeClosed(r)
  BY <1>1, <1>2, <1>4 DEF SeeClosed, Delivered, Stream
<1> QED
  BY <1>3, <1>4 DEF Reader

LEMMA RoomStep ==
  ASSUME EventsBuffer >= MaxMessages + 2, RoomInv, NEW r \in Runs, [Next]_vars
  PROVE  Numbered(r)' /\ Delivered(r)'
<1>0. /\ TypeInv /\ Kept(r) /\ Numbered(r) /\ Delivered(r)
      /\ fw[r] # "none" <=> pc[r] = "returned"
  BY DEF RoomInv, TimelineInv, Ownership, ForwarderStarted
<1>1. ASSUME NEW q \in Runs, StartRun(q) \/ ForwardEvents(q) \/ Reader(q)
      PROVE  Numbered(r)' /\ Delivered(r)'
  <2>1. CASE q # r
    <3>1. Same(r)
      BY <1>0, <1>1, <2>1, OthersSame
    <3>2. SameSession(r)
      BY <1>0, <1>1, <2>1, SessionsApart, SessionsKept
    <3> QED
      BY <1>0, <3>1, <3>2, RoomSame
  <2>2. CASE q = r /\ ForwardEvents(q)
    BY <1>0, <2>2, ReceiveRoom, OfferRoom, ResultRoom, RestRoom
  <2>3. CASE q = r /\ (StartRun(q) \/ Reader(q))
    BY <1>0, <2>3, StartRoom, ReaderRoom
  <2> QED
    BY <1>1, <2>1, <2>2, <2>3
<1>2. ASSUME NEW q \in Runs, Adapter(q)
      PROVE  Numbered(r)' /\ Delivered(r)'
  <2>1. Same(r)
    BY <1>2, OtherStepSame
  <2>2. CASE q # r
    BY <1>0, <1>2, <2>1, <2>2, SessionsApart, RoomSame
  <2>3. CASE q = r
    BY <1>0, <1>2, <2>1, <2>3, AdapterRoom
  <2> QED
    BY <2>2, <2>3
<1>3. CASE Server \/ UNCHANGED vars \/ \E q \in Runs : Caller(q) \/ GetRun(q)
  BY <1>0, <1>3, OtherStepSame, SessionsKept, RoomSame
<1> QED
  BY <1>1, <1>2, <1>3 DEF Next, RunStep, Terminated

\* A reader that keeps reading sees how its run ended before the channel is closed, if
\* the buffer has room for all that one run can offer: the blocking select on the
\* terminal event at the end of forwardEvents.
THEOREM ReadersGetTheResult ==
  ASSUME EventsBuffer >= MaxMessages + 2
  PROVE  Spec => []ReaderGetsResult
<1>1. Init => RoomInv
  <2> SUFFICES ASSUME Init, NEW r \in Runs PROVE Numbered(r) /\ Delivered(r)
    BY InitSlotInv, InitKept DEF RoomInv, TimelineInv, SlotInv
  <2> QED
    BY DEF Init, Numbered, Delivered, Offered, Recorded, Settled, Over, Left
<1>2. RoomInv /\ TimelineInv' /\ [Next]_vars => RoomInv'
  <2> SUFFICES ASSUME RoomInv, TimelineInv', [Next]_vars PROVE RoomInv'
    OBVIOUS
  <2>1. \A r \in Runs : Numbered(r)' /\ Delivered(r)'
    BY RoomStep
  <2> QED
    BY <2>1 DEF RoomInv
<1>3. RoomInv => ReaderGetsResult
  <2> SUFFICES ASSUME RoomInv, NEW r \in closed PROVE \E e \in Range(Stream(r)) : IsTerminal(e)
    BY DEF ReaderGetsResult
  <2>1. r \in Runs
    BY DEF RoomInv, TimelineInv, TypeInv, TypeOK, ForwardTypeOK
  <2>2. fw[r] \in Over
    BY <2>1 DEF RoomInv, TimelineInv, Kept, ClosedKept
  <2> QED
    BY <2>1, <2>2 DEF RoomInv, Delivered, Recorded, Settled, Over, Left
<1>4. Spec => []TimelineInv
  BY TimelineInvariant
<1> QED
  BY <1>1, <1>2, <1>3, <1>4, PTL DEF Spec
=============================================================================
