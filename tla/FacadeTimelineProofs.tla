------------------------ MODULE FacadeTimelineProofs ------------------------
(* The timeline of a run, on disk and on the live stream, and the status that *)
(* goes with it, for any number of runs, any buffers and a store that may     *)
(* fail at every write; and that the facade implements RunLifecycle, as a     *)
(* whole where nothing fails and for each intact run where something does.    *)
EXTENDS MCFacade, FacadeProofs

\* Where the forwarder has stored the result, written the row, closed Events and
\* closed done.
Left     == {"unregister", "cancel", "release", "decrement", "exited"}
Over     == Left \cup {"closeDone"}
Settled  == Over \cup {"saveSession", "closeEvents"}
Recorded == Settled \cup {"sendResult", "finish"}

\* The event in hand has the number the code gives it, and the right kind.
InHand(r) ==
  /\ fw[r] \in {"persist", "offer"} =>
       cur[r].seq + 1 = seq[r] /\ cur[r].kind \in {"message", "error"}
  /\ fw[r] \in Recorded \cup {"persistResult"} =>
       cur[r].seq = seq[r] /\ cur[r].kind = "result" /\ cur[r].status \in Terminal

\* How many events have been through the store, and through the stream.
Stored(r) ==
  IF fw[r] = "persist" THEN seq[r] - 1 ELSE IF fw[r] \in Recorded THEN seq[r] + 1 ELSE seq[r]
Offered(r) ==
  IF fw[r] \in {"persist", "offer"} THEN seq[r] - 1
  ELSE IF fw[r] \in Recorded \ {"sendResult"} THEN seq[r] + 1 ELSE seq[r]

LogKept(r) ==
  /\ fw[r] = "none" => log[r] = <<>> /\ seq[r] = 0
  /\ IsOrdered(log[r])
  /\ \A i \in DOMAIN log[r] : log[r][i].seq < Stored(r)
  /\ \A i \in DOMAIN log[r] : IsTerminal(log[r][i]) => fw[r] \in Recorded /\ i = Len(log[r])
  /\ r \notin lost =>
       /\ Len(log[r]) = Stored(r)
       /\ \A i \in DOMAIN log[r] : log[r][i].seq = i - 1
       /\ fw[r] \in Recorded \cup {"offer"} => log[r] # <<>> /\ log[r][Len(log[r])] = cur[r]

StreamKept(r) ==
  /\ fw[r] = "none" => got[r] = <<>> /\ events[r] = <<>>
  /\ IsOrdered(Stream(r))
  /\ \A i \in DOMAIN Stream(r) : Stream(r)[i].seq < Offered(r)
  /\ r \notin lost =>
       \A i \in DOMAIN Stream(r) : \E j \in DOMAIN log[r] : Stream(r)[i] = log[r][j]

RowKept(r) ==
  /\ row[r] \in Terminal => pc[r] = "refused" \/ fw[r] \in Settled
  /\ r \notin lost =>
       row[r] = IF pc[r] = "idle" THEN "absent"
                ELSE IF pc[r] = "refused" THEN "failed"
                ELSE IF fw[r] \in Settled THEN cur[r].status ELSE "pending"

ClosedKept(r) ==
  /\ r \in closed <=> fw[r] \in Over
  /\ r \in done <=> fw[r] \in Left
  /\ fw[r] = "saveSession" => cur[r].session
  /\ r \in sessions => fw[r] \in Settled \ {"saveSession"} /\ cur[r].session
  /\ r \notin lost /\ fw[r] \in Settled \ {"saveSession"} /\ cur[r].session => r \in sessions

Kept(r) == InHand(r) /\ LogKept(r) /\ StreamKept(r) /\ RowKept(r) /\ ClosedKept(r)

TimelineInv == TypeInv /\ Ownership /\ \A r \in Runs : Kept(r)

-----------------------------------------------------------------------------
(* What appending an event does to a sequence of events. *)

LEMMA Appended ==
  ASSUME NEW s \in Seq(EventSet), NEW e \in EventSet
  PROVE  /\ Append(s, e) \in Seq(EventSet)
         /\ Len(s) \in Nat /\ Len(Append(s, e)) = Len(s) + 1
         /\ DOMAIN s = 1..Len(s) /\ DOMAIN Append(s, e) = 1..(Len(s) + 1)
         /\ \A i \in 1..Len(s) : Append(s, e)[i] = s[i]
         /\ Append(s, e)[Len(s) + 1] = e
         /\ Append(s, e) # <<>>
BY AppendProperties, LenProperties

\* Every event of a sequence has a sequence number.
LEMMA Numbers ==
  ASSUME NEW s \in Seq(EventSet)
  PROVE  Len(s) \in Nat /\ DOMAIN s = 1..Len(s) /\ \A i \in DOMAIN s : s[i].seq \in Nat
<1>1. Len(s) \in Nat /\ DOMAIN s = 1..Len(s)
  BY LenProperties
<1>2. \A i \in 1..Len(s) : s[i] \in EventSet
  BY ElementOfSeq
<1> QED
  BY <1>1, <1>2 DEF EventSet

\* An event later than all of an ordered sequence may follow it.
LEMMA AppendKeepsOrder ==
  ASSUME NEW s \in Seq(EventSet), NEW e \in EventSet, IsOrdered(s),
         \A i \in DOMAIN s : s[i].seq < e.seq
  PROVE  IsOrdered(Append(s, e))
<1> DEFINE t == Append(s, e)
<1>1. /\ Len(s) \in Nat /\ DOMAIN s = 1..Len(s) /\ DOMAIN t = 1..(Len(s) + 1)
      /\ \A i \in 1..Len(s) : t[i] = s[i]
      /\ t[Len(s) + 1] = e
  BY Appended
<1> HIDE DEF t
<1>2. ASSUME NEW i \in DOMAIN t, NEW j \in DOMAIN t, i < j PROVE t[i].seq < t[j].seq
  <2>1. i \in 1..Len(s) /\ t[i] = s[i]
    BY <1>1, <1>2
  <2>2. CASE j = Len(s) + 1
    BY <1>1, <2>1, <2>2
  <2>3. CASE j \in 1..Len(s)
    BY <1>1, <1>2, <2>1, <2>3 DEF IsOrdered
  <2> QED
    BY <1>1, <2>2, <2>3
<1>3. IsOrdered(t)
  BY <1>2 DEF IsOrdered
<1> QED
  BY <1>3 DEF t

\* The stream is what the reader has and what waits for it: an offered event is
\* appended to it, and the reader's receive leaves it as it is.
LEMMA StreamGrows ==
  ASSUME NEW g \in Seq(EventSet), NEW s \in Seq(EventSet), NEW e \in EventSet
  PROVE  g \o Append(s, e) = Append(g \o s, e)
<1> DEFINE a == g \o Append(s, e)
           b == Append(g \o s, e)
<1>1. /\ g \o s \in Seq(EventSet) /\ Len(g \o s) = Len(g) + Len(s)
      /\ Len(g) \in Nat /\ Len(s) \in Nat
      /\ \A i \in 1..(Len(g) + Len(s)) : (g \o s)[i] = IF i <= Len(g) THEN g[i] ELSE s[i - Len(g)]
  BY ConcatProperties, LenProperties
<1>2. a \in Seq(EventSet) /\ b \in Seq(EventSet) /\ Len(a) = Len(g) + (Len(s) + 1)
      /\ Len(b) = Len(a)
  BY <1>1, Appended, ConcatProperties
<1>3. ASSUME NEW i \in 1..Len(a) PROVE a[i] = b[i]
  <2>1. a[i] = IF i <= Len(g) THEN g[i] ELSE Append(s, e)[i - Len(g)]
    <3>1. Append(s, e) \in Seq(EventSet) /\ Len(Append(s, e)) = Len(s) + 1
      BY Appended
    <3>2. i \in 1..(Len(g) + Len(Append(s, e)))
      BY <1>2, <3>1
    <3> QED
      BY <3>1, <3>2, ConcatProperties
  <2> HIDE DEF a
  <2>2. CASE i <= Len(g) + Len(s)
    BY <1>1, <1>2, <2>1, <2>2, Appended
  <2>3. CASE i = Len(g) + Len(s) + 1
    BY <1>1, <1>2, <2>1, <2>3, Appended
  <2> QED
    BY <1>1, <1>2, <2>2, <2>3
<1> HIDE DEF a, b
<1>4. a = b
  BY <1>2, <1>3, SeqEqual
<1> QED
  BY <1>4 DEF a, b

LEMMA StreamMoves ==
  ASSUME NEW g \in Seq(EventSet), NEW s \in Seq(EventSet), s # <<>>
  PROVE  Append(g, Head(s)) \o Tail(s) = g \o s
<1> DEFINE a == Append(g, Head(s)) \o Tail(s)
           b == g \o s
<1>1. /\ Head(s) \in EventSet /\ Head(s) = s[1] /\ Tail(s) \in Seq(EventSet)
      /\ Len(Tail(s)) = Len(s) - 1 /\ \A i \in 1..(Len(s) - 1) : Tail(s)[i] = s[i + 1]
      /\ Len(g) \in Nat /\ Len(s) \in Nat
  BY HeadTailProperties, LenProperties
<1>2. a \in Seq(EventSet) /\ b \in Seq(EventSet) /\ Len(a) = Len(g) + Len(s)
      /\ Len(b) = Len(a)
  BY <1>1, Appended, ConcatProperties
<1>3. ASSUME NEW i \in 1..Len(a) PROVE a[i] = b[i]
  <2>1. a[i] = IF i <= Len(g) + 1 THEN Append(g, Head(s))[i] ELSE Tail(s)[i - (Len(g) + 1)]
    BY <1>1, <1>2, Appended, ConcatProperties
  <2>2. b[i] = IF i <= Len(g) THEN g[i] ELSE s[i - Len(g)]
    BY <1>1, <1>2, ConcatProperties
  <2> HIDE DEF a, b
  <2>3. CASE i <= Len(g)
    BY <1>1, <1>2, <2>1, <2>2, <2>3, Appended
  <2>4. CASE i = Len(g) + 1
    BY <1>1, <1>2, <2>1, <2>2, <2>4, Appended
  <2>5. CASE i > Len(g) + 1
    BY <1>1, <1>2, <2>1, <2>2, <2>5
  <2> QED
    BY <1>1, <1>2, <2>3, <2>4, <2>5
<1> HIDE DEF a, b
<1>4. a = b
  BY <1>2, <1>3, SeqEqual
<1> QED
  BY <1>4 DEF a, b

-----------------------------------------------------------------------------
(* What a step has to leave alone, or may do, for each part to be kept. *)

\* The types used below, for one run.
LEMMA Types ==
  ASSUME NEW r \in Runs, TypeInv
  PROVE  /\ fw[r] \in ForwardPC /\ pc[r] \in StartPC
         /\ seq[r] \in Nat /\ cur[r] \in EventSet /\ cur[r].seq \in Nat
         /\ log[r] \in Seq(EventSet) /\ got[r] \in Seq(EventSet) /\ events[r] \in Seq(EventSet)
         /\ Stream(r) \in Seq(EventSet)
         /\ row[r] \in Terminal \cup {"absent", "pending"}
         /\ Stored(r) \in Int /\ Offered(r) \in Int
<1>1. /\ fw[r] \in ForwardPC /\ pc[r] \in StartPC /\ seq[r] \in Nat /\ cur[r] \in EventSet
      /\ log[r] \in Seq(EventSet) /\ got[r] \in Seq(EventSet) /\ events[r] \in Seq(EventSet)
      /\ row[r] \in Terminal \cup {"absent", "pending"}
  BY DEF TypeInv, TypeOK, StartTypeOK, ForwardTypeOK, StreamTypeOK, StoreTypeOK
<1>2. cur[r].seq \in Nat
  BY <1>1 DEF EventSet
<1>3. Stream(r) \in Seq(EventSet)
  BY <1>1, ConcatProperties DEF Stream
<1>4. Stored(r) \in Int /\ Offered(r) \in Int
  BY <1>1 DEF Stored, Offered
<1> QED
  BY <1>1, <1>2, <1>3, <1>4

\* The part of the state Kept speaks about is untouched for run r.
Same(r) ==
  /\ pc'[r] = pc[r] /\ fw'[r] = fw[r] /\ seq'[r] = seq[r] /\ cur'[r] = cur[r]
  /\ log'[r] = log[r] /\ row'[r] = row[r] /\ got'[r] = got[r] /\ events'[r] = events[r]
  /\ r \in lost' <=> r \in lost
  /\ r \in closed' <=> r \in closed
  /\ r \in done' <=> r \in done
  /\ r \in sessions' <=> r \in sessions

LEMMA SameIsKept ==
  ASSUME NEW r \in Runs, Kept(r), Same(r)
  PROVE  Kept(r)'
<1>1. Stored(r)' = Stored(r) /\ Offered(r)' = Offered(r) /\ Stream(r)' = Stream(r)
  BY DEF Same, Stored, Offered, Stream
<1>2. InHand(r)' /\ RowKept(r)' /\ ClosedKept(r)'
  BY DEF Same, Kept, InHand, RowKept, ClosedKept
<1>3. LogKept(r)'
  BY <1>1 DEF Same, Kept, LogKept, IsOrdered, IsTerminal
<1>4. StreamKept(r)'
  BY <1>1 DEF Same, Kept, StreamKept, IsOrdered
<1> QED
  BY <1>2, <1>3, <1>4 DEF Kept

LEMMA LogStays ==
  ASSUME NEW r \in Runs, LogKept(r), log'[r] = log[r], Stored(r)' = Stored(r),
         r \in lost => r \in lost',
         fw'[r] = "none" => fw[r] = "none" /\ seq'[r] = seq[r],
         fw[r] \in Recorded => fw'[r] \in Recorded,
         fw'[r] \in Recorded \cup {"offer"} =>
           fw[r] \in Recorded \cup {"offer"} /\ cur'[r] = cur[r]
  PROVE  LogKept(r)'
BY DEF LogKept, IsOrdered, IsTerminal

LEMMA StreamStays ==
  ASSUME NEW r \in Runs, StreamKept(r), Stream(r)' = Stream(r), Offered(r)' = Offered(r),
         \A j \in DOMAIN log[r] : j \in DOMAIN log'[r] /\ log'[r][j] = log[r][j],
         r \in lost => r \in lost', fw'[r] # "none"
  PROVE  StreamKept(r)'
BY DEF StreamKept, IsOrdered

\* The event in hand, which has the next number, goes to the store or is lost.
LEMMA LogGrows ==
  ASSUME NEW r \in Runs, TypeInv, LogKept(r), fw[r] \in {"persist", "persistResult"},
         cur[r].seq = Stored(r), IsTerminal(cur[r]) => fw'[r] \in Recorded,
         fw'[r] \in Recorded \cup {"offer"}, cur'[r] = cur[r], Stored(r)' = Stored(r) + 1,
         r \in lost => r \in lost',
         \/ log'[r] = Append(log[r], cur[r])
         \/ log'[r] = log[r] /\ r \in lost'
  PROVE  /\ LogKept(r)'
         /\ \A j \in DOMAIN log[r] : j \in DOMAIN log'[r] /\ log'[r][j] = log[r][j]
<1>0. /\ log[r] \in Seq(EventSet) /\ cur[r] \in EventSet /\ Stored(r) \in Int /\ cur[r].seq \in Nat
      /\ DOMAIN log[r] = 1..Len(log[r]) /\ Len(log[r]) \in Nat
      /\ \A i \in DOMAIN log[r] : log[r][i].seq \in Nat
  BY Types, Numbers
<1>1. fw'[r] # "none" /\ fw[r] \notin Recorded
  BY DEF Recorded, Settled, Over, Left
<1>2. CASE log'[r] = Append(log[r], cur[r])
  <2>1. /\ Len(log'[r]) = Len(log[r]) + 1 /\ DOMAIN log'[r] = 1..(Len(log[r]) + 1)
        /\ \A i \in 1..Len(log[r]) : log'[r][i] = log[r][i]
        /\ log'[r][Len(log[r]) + 1] = cur[r] /\ log'[r] # <<>>
    BY <1>0, <1>2, Appended
  <2>2. IsOrdered(log'[r])
    BY <1>0, <1>2, AppendKeepsOrder DEF LogKept
  <2>3. \A i \in DOMAIN log'[r] : i = Len(log[r]) + 1 \/ i \in DOMAIN log[r]
    BY <1>0, <2>1
  <2>4. \A i \in DOMAIN log'[r] : log'[r][i].seq < Stored(r)'
    BY <1>0, <2>1, <2>3 DEF LogKept
  <2>5. \A i \in DOMAIN log'[r] : IsTerminal(log'[r][i]) => fw'[r] \in Recorded /\ i = Len(log'[r])
    BY <1>0, <1>1, <2>1, <2>3 DEF LogKept, IsTerminal
  <2>6. r \notin lost' => /\ Len(log'[r]) = Stored(r)'
                          /\ \A i \in DOMAIN log'[r] : log'[r][i].seq = i - 1
                          /\ log'[r] # <<>> /\ log'[r][Len(log'[r])] = cur'[r]
    <3>1. r \notin lost' => Len(log[r]) = Stored(r) /\ \A i \in DOMAIN log[r] : log[r][i].seq = i - 1
      BY DEF LogKept
    <3>2. r \notin lost' => \A i \in DOMAIN log'[r] : log'[r][i].seq = i - 1
      <4> SUFFICES ASSUME r \notin lost', NEW i \in DOMAIN log'[r] PROVE log'[r][i].seq = i - 1
        OBVIOUS
      <4>1. CASE i = Len(log[r]) + 1
        BY <1>0, <2>1, <3>1, <4>1
      <4>2. CASE i \in DOMAIN log[r]
        BY <1>0, <2>1, <3>1, <4>2
      <4> QED
        BY <2>3, <4>1, <4>2
    <3> QED
      BY <1>0, <2>1, <3>1, <3>2
  <2>7. \A j \in DOMAIN log[r] : j \in DOMAIN log'[r] /\ log'[r][j] = log[r][j]
    BY <1>0, <2>1
  <2> QED
    BY <1>1, <2>2, <2>4, <2>5, <2>6, <2>7 DEF LogKept
<1>3. CASE log'[r] = log[r] /\ r \in lost'
  <2>1. \A i \in DOMAIN log[r] : log[r][i].seq < Stored(r)'
    BY <1>0 DEF LogKept
  <2> QED
    BY <1>1, <1>3, <2>1 DEF LogKept, IsOrdered, IsTerminal
<1> QED
  BY <1>2, <1>3

\* The event in hand, later than all of the stream and already stored, goes to
\* the stream or is dropped.
LEMMA StreamGrowsBy ==
  ASSUME NEW r \in Runs, TypeInv, StreamKept(r), fw'[r] # "none",
         cur[r].seq = Offered(r), Offered(r)' = Offered(r) + 1,
         log'[r] = log[r], r \in lost' <=> r \in lost, got'[r] = got[r],
         r \notin lost => log[r] # <<>> /\ log[r][Len(log[r])] = cur[r],
         \/ events'[r] = Append(events[r], cur[r])
         \/ events'[r] = events[r]
  PROVE  StreamKept(r)'
<1>0. /\ got[r] \in Seq(EventSet) /\ events[r] \in Seq(EventSet) /\ Stream(r) \in Seq(EventSet)
      /\ cur[r] \in EventSet /\ Offered(r) \in Int /\ cur[r].seq \in Nat
      /\ DOMAIN Stream(r) = 1..Len(Stream(r)) /\ Len(Stream(r)) \in Nat
      /\ \A i \in DOMAIN Stream(r) : Stream(r)[i].seq \in Nat
  BY Types, Numbers
<1>1. r \notin lost => \E j \in DOMAIN log[r] : cur[r] = log[r][j]
  <2>1. log[r] \in Seq(EventSet) /\ (log[r] # <<>> => Len(log[r]) \in DOMAIN log[r])
    BY Types, EmptySeq, LenProperties
  <2> QED
    BY <2>1
<1>2. CASE events'[r] = Append(events[r], cur[r])
  <2>1. Stream(r)' = Append(Stream(r), cur[r])
    BY <1>0, <1>2, StreamGrows DEF Stream
  <2>2. /\ DOMAIN Stream(r)' = 1..(Len(Stream(r)) + 1)
        /\ \A i \in 1..Len(Stream(r)) : Stream(r)'[i] = Stream(r)[i]
        /\ Stream(r)'[Len(Stream(r)) + 1] = cur[r]
    BY <1>0, <2>1, Appended
  <2>3. IsOrdered(Stream(r)')
    BY <1>0, <2>1, AppendKeepsOrder DEF StreamKept
  <2>4. \A i \in DOMAIN Stream(r)' : i = Len(Stream(r)) + 1 \/ i \in DOMAIN Stream(r)
    BY <1>0, <2>2
  <2>5. \A i \in DOMAIN Stream(r)' : Stream(r)'[i].seq < Offered(r)'
    BY <1>0, <2>2, <2>4 DEF StreamKept
  <2>6. r \notin lost' =>
          \A i \in DOMAIN Stream(r)' : \E j \in DOMAIN log'[r] : Stream(r)'[i] = log'[r][j]
    BY <1>0, <1>1, <2>2, <2>4 DEF StreamKept
  <2> QED
    BY <2>3, <2>5, <2>6 DEF StreamKept, IsOrdered
<1>3. CASE events'[r] = events[r]
  <2>1. Stream(r)' = Stream(r)
    BY <1>3 DEF Stream
  <2>2. \A i \in DOMAIN Stream(r) : Stream(r)[i].seq < Offered(r)'
    BY <1>0 DEF StreamKept
  <2> QED
    BY <2>1, <2>2 DEF StreamKept, IsOrdered
<1> QED
  BY <1>2, <1>3

-----------------------------------------------------------------------------
(* Every step of a run keeps its own part, ... *)

\* A step of StartRun other than Submit, Refuse and Spawn only moves pc among the
\* places where the row is pending.
LEMMA WaitingIsKept ==
  ASSUME NEW r \in Runs, Kept(r), pc[r] \notin {"idle", "refused"},
         pc'[r] \notin {"idle", "refused"}, UNCHANGED <<forwardVars, events, got, storeVars>>
  PROVE  Kept(r)'
<1>1. Stored(r)' = Stored(r) /\ Offered(r)' = Offered(r) /\ Stream(r)' = Stream(r)
  BY DEF Stored, Offered, Stream, forwardVars
<1>2. InHand(r)' /\ RowKept(r)' /\ ClosedKept(r)'
  BY DEF Kept, InHand, RowKept, ClosedKept, forwardVars, storeVars
<1>3. LogKept(r)'
  BY <1>1 DEF Kept, LogKept, IsOrdered, IsTerminal, forwardVars, storeVars
<1>4. StreamKept(r)'
  BY <1>1 DEF Kept, StreamKept, IsOrdered, forwardVars, storeVars
<1> QED
  BY <1>2, <1>3, <1>4 DEF Kept

\* A step that writes the row of a run that has no forwarder.
LEMMA RowWrite ==
  ASSUME NEW r \in Runs, Kept(r), fw[r] = "none", RowKept(r)',
         UNCHANGED <<forwardVars, events, got, log, sessions>>, r \in lost => r \in lost'
  PROVE  Kept(r)'
<1>1. Stored(r)' = Stored(r) /\ Offered(r)' = Offered(r) /\ Stream(r)' = Stream(r)
  BY DEF Stored, Offered, Stream, forwardVars
<1>2. InHand(r)' /\ ClosedKept(r)'
  BY DEF Kept, InHand, ClosedKept, forwardVars, Recorded, Settled, Over, Left
<1>3. LogKept(r)'
  BY <1>1 DEF Kept, LogKept, IsOrdered, IsTerminal, forwardVars
<1>4. StreamKept(r)'
  BY <1>1 DEF Kept, StreamKept, IsOrdered, forwardVars
<1> QED
  BY <1>2, <1>3, <1>4 DEF Kept

LEMMA StartKept ==
  ASSUME NEW r \in Runs, TypeInv, Ownership, Kept(r), StartRun(r)
  PROVE  Kept(r)'
<1>0. /\ pc \in [Runs -> StartPC] /\ fw \in [Runs -> ForwardPC] /\ lost \subseteq Runs
      /\ row \in [Runs -> Terminal \cup {"absent", "pending"}]
      /\ pc[r] # "returned" => fw[r] = "none"
  BY DEF TypeInv, TypeOK, StartTypeOK, ForwardTypeOK, StoreTypeOK, Ownership, ForwarderStarted
<1>1. CASE Submit(r)
  <2>1. RowKept(r)'
    BY <1>0, <1>1 DEF Submit, CreateRun, Written, Kept, RowKept, forwardVars, Terminal,
                      Recorded, Settled, Over, Left
  <2> QED
    BY <1>0, <1>1, <2>1, RowWrite DEF Submit, CreateRun, Written, streamVars
<1>2. CASE Refuse(r)
  <2>1. RowKept(r)'
    BY <1>0, <1>2 DEF Refuse, FinishRun, Written, Kept, RowKept, forwardVars, Terminal,
                      Recorded, Settled, Over, Left
  <2> QED
    BY <1>0, <1>2, <2>1, RowWrite DEF Refuse, FinishRun, Written
<1>3. CASE Spawn(r)
  <2>1. fw[r] = "none" /\ fw'[r] = "recv" /\ UNCHANGED <<seq, cur, events, got, storeVars, closed, done>>
    BY <1>0, <1>3 DEF Spawn
  <2>2. Stored(r)' = Stored(r) /\ Offered(r)' = Offered(r) /\ Stream(r)' = Stream(r)
    BY <2>1 DEF Stored, Offered, Stream, Recorded, Settled, Over, Left
  <2>3. InHand(r)' /\ ClosedKept(r)'
    BY <2>1 DEF Kept, InHand, ClosedKept, storeVars, Recorded, Settled, Over, Left
  <2>4. RowKept(r)'
    BY <1>0, <1>3, <2>1 DEF Spawn, Kept, RowKept, storeVars, Recorded, Settled, Over, Left
  <2>5. LogKept(r)'
    BY <2>1, <2>2, LogStays DEF Kept, storeVars, Recorded, Settled, Over, Left
  <2>6. StreamKept(r)'
    BY <2>1, <2>2, StreamStays DEF Kept, storeVars
  <2> QED
    BY <2>3, <2>4, <2>5, <2>6 DEF Kept
<1>4. ASSUME EnterQueue(r) \/ Acquire(r) \/ QueueTimeout(r) \/ CancelledWhileQueued(r)
      PROVE  Kept(r)'
  BY <1>0, <1>4, WaitingIsKept
  DEF EnterQueue, Acquire, QueueTimeout, CancelledWhileQueued, LeaveQueue, streamVars
<1>5. ASSUME Dequeue(r) \/ CountActive(r) \/ ExecuteStarts(r) \/ ExecuteFails(r)
      PROVE  Kept(r)'
  BY <1>0, <1>5, WaitingIsKept
  DEF Dequeue, CountActive, ExecuteStarts, ExecuteFails, streamVars
<1>6. ASSUME ReleaseAfterFailure(r) \/ UncountAfterFailure(r) \/ Register(r)
      PROVE  Kept(r)'
  BY <1>0, <1>6, WaitingIsKept
  DEF ReleaseAfterFailure, UncountAfterFailure, Register, streamVars
<1> QED
  BY <1>1, <1>2, <1>3, <1>4, <1>5, <1>6 DEF StartRun

\* ... the reader only moves an event along its stream, ...
LEMMA ReaderKept ==
  ASSUME NEW r \in Runs, TypeInv, Kept(r), Reader(r)
  PROVE  Kept(r)'
<1>1. CASE Receive(r)
  <2>1. /\ got[r] \in Seq(EventSet) /\ events[r] \in Seq(EventSet) /\ events[r] # <<>>
        /\ got'[r] = Append(got[r], Head(events[r])) /\ events'[r] = Tail(events[r])
    BY <1>1, Types DEF Receive, TypeInv, TypeOK, StreamTypeOK
  <2>2. Stream(r)' = Stream(r)
    BY <2>1, StreamMoves DEF Stream
  <2>3. UNCHANGED <<pc, forwardVars, storeVars>>
    BY <1>1 DEF Receive, startVars
  <2>4. InHand(r)' /\ RowKept(r)' /\ ClosedKept(r)'
    BY <2>3 DEF Kept, InHand, RowKept, ClosedKept, forwardVars, storeVars
  <2>5. Stored(r)' = Stored(r) /\ Offered(r)' = Offered(r)
    BY <2>3 DEF Stored, Offered, forwardVars
  <2>6. LogKept(r)'
    BY <2>3, <2>5 DEF Kept, LogKept, IsOrdered, IsTerminal, forwardVars, storeVars
  <2>7. fw'[r] # "none"
    BY <2>1, <2>3 DEF Kept, StreamKept, forwardVars
  <2>8. StreamKept(r)'
    BY <2>2, <2>3, <2>5, <2>7, StreamStays DEF Kept, storeVars
  <2> QED
    BY <2>4, <2>6, <2>8 DEF Kept
<1>2. CASE SeeClosed(r)
  BY <1>2, SameIsKept DEF SeeClosed, Same, startVars, forwardVars, storeVars
<1> QED
  BY <1>1, <1>2 DEF Reader

\* ... and so does the forwarder: it numbers an event, ...
LEMMA NumberingKept ==
  ASSUME NEW r \in Runs, TypeInv, Kept(r), ReceiveMessage(r) \/ RecoverPanic(r)
  PROVE  Kept(r)'
<1>1. /\ fw[r] = "recv" /\ fw'[r] = "persist" /\ seq'[r] = seq[r] + 1
      /\ cur'[r].seq = seq[r] /\ cur'[r].kind \in {"message", "error"}
      /\ UNCHANGED <<pc, closed, done, streamVars, storeVars>>
  <2> USE DEF GoTo, messageToEvent, panicEvent, Event, startVars
  <2>1. fw \in [Runs -> ForwardPC] /\ seq \in [Runs -> Nat] /\ cur \in [Runs -> EventSet]
    BY DEF TypeInv, TypeOK, ForwardTypeOK
  <2>2. CASE ReceiveMessage(r)
    <3>1. cur'[r] = messageToEvent(Head(inbox[r]), seq[r])
      BY <2>1, <2>2 DEF ReceiveMessage
    <3> QED
      BY <2>1, <2>2, <3>1 DEF ReceiveMessage
  <2>3. CASE RecoverPanic(r)
    BY <2>1, <2>3 DEF RecoverPanic
  <2> QED
    BY <2>2, <2>3
<1>2. seq[r] \in Nat
  BY Types
<1>3. Stored(r)' = Stored(r) /\ Offered(r)' = Offered(r) /\ Stream(r)' = Stream(r)
  BY <1>1, <1>2 DEF Stored, Offered, Stream, streamVars, Recorded, Settled, Over, Left
<1>4. InHand(r)' /\ RowKept(r)' /\ ClosedKept(r)'
  BY <1>1, <1>2 DEF Kept, InHand, RowKept, ClosedKept, storeVars, Recorded, Settled, Over, Left
<1>5. LogKept(r)'
  BY <1>1, <1>3, LogStays DEF Kept, storeVars, Recorded, Settled, Over, Left
<1>6. StreamKept(r)'
  BY <1>1, <1>3, StreamStays DEF Kept, storeVars
<1> QED
  BY <1>4, <1>5, <1>6 DEF Kept

\* ... stores it, ...
LEMMA PersistKept ==
  ASSUME NEW r \in Runs, TypeInv, Kept(r), PersistEvent(r) \/ PersistResult(r)
  PROVE  Kept(r)'
<1>1. /\ \/ fw[r] = "persist" /\ fw'[r] = "offer"
         \/ fw[r] = "persistResult" /\ fw'[r] = "sendResult"
      /\ UNCHANGED <<pc, seq, cur, closed, done, streamVars, row, sessions>>
      /\ AppendEvent(r, cur[r])
  BY DEF PersistEvent, PersistResult, GoTo, startVars, TypeInv, TypeOK, ForwardTypeOK
<1>2. /\ r \in lost => r \in lost'
      /\ \/ log'[r] = Append(log[r], cur[r])
         \/ log'[r] = log[r] /\ r \in lost'
  BY <1>1 DEF AppendEvent, Written, TypeInv, TypeOK, StoreTypeOK
<1>3. seq[r] \in Nat /\ cur[r].seq \in Nat
  BY Types
<1>4. /\ Offered(r)' = Offered(r) /\ Stream(r)' = Stream(r) /\ Stored(r)' = Stored(r) + 1
      /\ cur[r].seq = Stored(r)
  BY <1>1, <1>3 DEF Kept, InHand, Stored, Offered, Stream, streamVars, Recorded, Settled, Over, Left
<1>5. InHand(r)' /\ RowKept(r)' /\ ClosedKept(r)'
  BY <1>1, <1>2 DEF Kept, InHand, RowKept, ClosedKept, Recorded, Settled, Over, Left
<1>6. IsTerminal(cur[r]) => fw'[r] \in Recorded
  BY <1>1 DEF Kept, InHand, IsTerminal, Recorded
<1>7. LogKept(r)' /\ \A j \in DOMAIN log[r] : j \in DOMAIN log'[r] /\ log'[r][j] = log[r][j]
  BY <1>1, <1>2, <1>4, <1>6, LogGrows DEF Kept, Recorded
<1>8. StreamKept(r)'
  BY <1>1, <1>2, <1>4, <1>7, StreamStays DEF Kept
<1> QED
  BY <1>5, <1>7, <1>8 DEF Kept

\* ... offers it, ...
LEMMA OfferKept ==
  ASSUME NEW r \in Runs, TypeInv, Kept(r), OfferEvent(r) \/ SendResult(r)
  PROVE  Kept(r)'
<1>1. /\ \/ events'[r] = Append(events[r], cur[r])
         \/ events'[r] = events[r]
      /\ UNCHANGED <<pc, seq, closed, done, got, storeVars>>
  BY DEF OfferEvent, SendResult, startVars, TypeInv, TypeOK, StreamTypeOK
<1>2. seq[r] \in Nat /\ cur[r].seq \in Nat
  BY Types
<1>3. \/ fw[r] = "offer" /\ fw'[r] = "recv" /\ cur'[r] = cur[r]
      \/ /\ fw[r] = "offer" /\ fw'[r] = "persistResult"
         /\ cur'[r] = resultToEvent(NoResult, seq[r])
      \/ fw[r] = "sendResult" /\ fw'[r] = "finish" /\ cur'[r] = cur[r]
  BY DEF OfferEvent, SendResult, GoTo, TypeInv, TypeOK, ForwardTypeOK
<1>4. /\ resultToEvent(NoResult, seq[r]).seq = seq[r]
      /\ resultToEvent(NoResult, seq[r]).kind = "result"
      /\ resultToEvent(NoResult, seq[r]).status \in Terminal
  BY DEF resultToEvent, NoResult, normalizeStatus, Event, Terminal
<1>5. InHand(r)' /\ RowKept(r)' /\ ClosedKept(r)'
  BY <1>1, <1>3, <1>4
  DEF Kept, InHand, RowKept, ClosedKept, storeVars, Recorded, Settled, Over, Left
<1>6. Stored(r)' = Stored(r) /\ Offered(r)' = Offered(r) + 1 /\ cur[r].seq = Offered(r)
  BY <1>1, <1>2, <1>3 DEF Kept, InHand, Stored, Offered, Recorded, Settled, Over, Left
<1>7. LogKept(r)'
  BY <1>1, <1>3, <1>6, LogStays DEF Kept, storeVars, Recorded, Settled, Over, Left
<1>8. r \notin lost => log[r] # <<>> /\ log[r][Len(log[r])] = cur[r]
  BY <1>3 DEF Kept, LogKept, Recorded
<1>9. StreamKept(r)'
  BY <1>1, <1>3, <1>6, <1>8, StreamGrowsBy DEF Kept, storeVars
<1> QED
  BY <1>5, <1>7, <1>9 DEF Kept

\* ... waits for the result, ...
LEMMA AwaitKept ==
  ASSUME NEW r \in Runs, TypeInv, Kept(r), MessagesClosed(r) \/ AwaitResult(r)
  PROVE  Kept(r)'
<1>1. /\ fw[r] \in {"recv", "await"} /\ fw'[r] \in {"await", "persistResult"}
      /\ UNCHANGED <<pc, seq, closed, done, streamVars, storeVars>>
      /\ seq[r] \in Nat
  BY Types DEF MessagesClosed, AwaitResult, GoTo, startVars, TypeInv, TypeOK, ForwardTypeOK
<1>2. fw'[r] = "persistResult" =>
        cur'[r].seq = seq[r] /\ cur'[r].kind = "result" /\ cur'[r].status \in Terminal
  <2> SUFFICES ASSUME fw'[r] = "persistResult"
               PROVE  cur'[r].seq = seq[r] /\ cur'[r].kind = "result" /\ cur'[r].status \in Terminal
    OBVIOUS
  <2> DEFINE res == IF result[r] = Unsent THEN NoResult ELSE result[r]
  <2>1. cur'[r] = resultToEvent(res, seq[r])
    BY DEF MessagesClosed, AwaitResult, GoTo, TypeInv, TypeOK, ForwardTypeOK
  <2>2. res \in Results \cup {ZeroResult, NoResult}
    BY DEF TypeInv, TypeOK, SessionTypeOK
  <2> HIDE DEF res
  <2>3. resultToEvent(res, seq[r]).status \in Terminal
    BY <1>1, <2>2, ResultEventType
  <2> QED
    BY <2>1, <2>3 DEF resultToEvent, Event
<1>3. Stored(r)' = Stored(r) /\ Offered(r)' = Offered(r) /\ Stream(r)' = Stream(r)
  BY <1>1 DEF Stored, Offered, Stream, streamVars, Recorded, Settled, Over, Left
<1>4. InHand(r)' /\ RowKept(r)' /\ ClosedKept(r)'
  BY <1>1, <1>2 DEF Kept, InHand, RowKept, ClosedKept, storeVars, Recorded, Settled, Over, Left
<1>5. LogKept(r)'
  BY <1>1, <1>3, LogStays DEF Kept, storeVars, Recorded, Settled, Over, Left
<1>6. StreamKept(r)'
  BY <1>1, <1>3, StreamStays DEF Kept, storeVars
<1> QED
  BY <1>4, <1>5, <1>6 DEF Kept

\* ... writes the row and the session mapping, ...
LEMMA FinishKept ==
  ASSUME NEW r \in Runs, TypeInv, Ownership, Kept(r), Finalise(r) \/ SaveSessionId(r)
  PROVE  Kept(r)'
<1>1. /\ \/ fw[r] = "finish" /\ fw'[r] = IF cur[r].session THEN "saveSession" ELSE "closeEvents"
         \/ fw[r] = "saveSession" /\ fw'[r] = "closeEvents"
      /\ UNCHANGED <<pc, seq, cur, closed, done, streamVars, log>>
      /\ r \in lost => r \in lost'
      /\ pc[r] = "returned"
  BY DEF Finalise, SaveSessionId, FinishRun, SaveSession, Written, GoTo, startVars, TypeInv, TypeOK,
         ForwardTypeOK, Ownership, ForwarderStarted
<1>2. Stored(r)' = Stored(r) /\ Offered(r)' = Offered(r) /\ Stream(r)' = Stream(r)
  BY <1>1 DEF Stored, Offered, Stream, streamVars, Recorded, Settled, Over, Left
<1>3. InHand(r)'
  BY <1>1 DEF Kept, InHand, Recorded, Settled, Over, Left
<1>4. RowKept(r)' /\ ClosedKept(r)'
  <2> USE DEF Kept, InHand, RowKept, ClosedKept, TypeInv, TypeOK, StoreTypeOK, Written, Recorded,
              Settled, Over, Left
  <2>1. CASE Finalise(r)
    <3>1. fw[r] = "finish" /\ fw'[r] = IF cur[r].session THEN "saveSession" ELSE "closeEvents"
      BY <2>1 DEF Finalise, GoTo, ForwardTypeOK
    <3>2. row[r] \notin Terminal /\ (r \notin lost => row[r] = "pending")
      BY <1>1, <3>1
    <3>3. /\ r \notin lost' => row'[r] = cur[r].status
          /\ r \in sessions' <=> r \in sessions
      BY <2>1 DEF Finalise, FinishRun
    <3>4. cur[r].session \in BOOLEAN
      BY Types DEF EventSet
    <3> QED
      BY <1>1, <3>1, <3>2, <3>3, <3>4
  <2>2. CASE SaveSessionId(r)
    <3>1. fw[r] = "saveSession" /\ fw'[r] = "closeEvents"
      BY <2>2 DEF SaveSessionId, GoTo, ForwardTypeOK
    <3>2. row'[r] = row[r] /\ (r \notin lost' => r \in sessions')
          /\ (r \in sessions' => r \in sessions \/ fw[r] = "saveSession")
      BY <2>2, <3>1 DEF SaveSessionId, SaveSession
    <3> QED
      BY <1>1, <3>1, <3>2
  <2> QED
    BY <2>1, <2>2
<1>5. LogKept(r)'
  BY <1>1, <1>2, LogStays DEF Kept, Recorded, Settled, Over, Left
<1>6. StreamKept(r)'
  BY <1>1, <1>2, StreamStays DEF Kept
<1> QED
  BY <1>3, <1>4, <1>5, <1>6 DEF Kept

\* ... and runs its deferred calls.
LEMMA DeferredKept ==
  ASSUME NEW r \in Runs, TypeInv, Ownership, Kept(r),
         \/ CloseEvents(r) \/ CloseDone(r) \/ Unregister(r) \/ CancelOnExit(r)
         \/ ReleaseSlot(r) \/ UncountActive(r)
  PROVE  Kept(r)'
<1>1. /\ fw[r] \in Over \cup {"closeEvents"} /\ fw'[r] \in Over
      /\ fw[r] \in Left => fw'[r] \in Left
      /\ r \in closed'
      /\ fw'[r] \in Left <=> r \in done'
      /\ UNCHANGED <<pc, seq, cur, streamVars, storeVars>>
  BY DEF CloseEvents, CloseDone, Unregister, CancelOnExit, ReleaseSlot, UncountActive, GoTo,
         startVars, Kept, ClosedKept, TypeInv, TypeOK, ForwardTypeOK, Over, Left
<1>2. Stored(r)' = Stored(r) /\ Offered(r)' = Offered(r) /\ Stream(r)' = Stream(r)
  BY <1>1 DEF Stored, Offered, Stream, streamVars, Recorded, Settled, Over, Left
<1>3. InHand(r)' /\ RowKept(r)' /\ ClosedKept(r)'
  BY <1>1 DEF Kept, InHand, RowKept, ClosedKept, storeVars, Recorded, Settled, Over, Left
<1>4. LogKept(r)'
  BY <1>1, <1>2, LogStays DEF Kept, storeVars, Recorded, Settled, Over, Left
<1>5. StreamKept(r)'
  BY <1>1, <1>2, StreamStays DEF Kept, storeVars, Over, Left
<1> QED
  BY <1>3, <1>4, <1>5 DEF Kept

LEMMA ForwardKept ==
  ASSUME NEW r \in Runs, TypeInv, Ownership, Kept(r), ForwardEvents(r)
  PROVE  Kept(r)'
BY NumberingKept, PersistKept, OfferKept, AwaitKept, FinishKept, DeferredKept DEF ForwardEvents

\* The session, the callers, GetRun and the shutdown touch none of it.
LEMMA OtherStepSame ==
  ASSUME NEW r \in Runs,
         Server \/ UNCHANGED vars \/ \E q \in Runs : Adapter(q) \/ Caller(q) \/ GetRun(q)
  PROVE  Same(r)
<1> USE DEF Same, startVars, forwardVars, streamVars, storeVars
<1>1. CASE Server
  BY <1>1 DEF Server, Shutdown, DrainEnds, CloseCancels, CloseReturns, otherThanServer
<1>2. CASE UNCHANGED vars
  BY <1>2 DEF vars
<1>3. ASSUME NEW q \in Runs, Adapter(q) PROVE Same(r)
  BY <1>3 DEF Adapter, AdapterEmits, AdapterReports, AdapterFinishes
<1>4. ASSUME NEW q \in Runs, Caller(q) PROVE Same(r)
  BY <1>4 DEF Caller, Disconnect, Expire, CancelRun
<1>5. ASSUME NEW q \in Runs, GetRun(q) PROVE Same(r)
  BY <1>5 DEF GetRun, GetRunRow, GetRunEvents, GetRunAgain, GetRunLeaves
<1> QED
  BY <1>1, <1>2, <1>3, <1>4, <1>5

\* A step of one run leaves the others alone.
LEMMA OthersSame ==
  ASSUME NEW q \in Runs, NEW r \in Runs \ {q}, TypeInv,
         StartRun(q) \/ ForwardEvents(q) \/ Reader(q)
  PROVE  Same(r)
<1>0. /\ pc \in [Runs -> StartPC] /\ fw \in [Runs -> ForwardPC] /\ seq \in [Runs -> Nat]
      /\ cur \in [Runs -> EventSet] /\ log \in [Runs -> Seq(EventSet)]
      /\ row \in [Runs -> Terminal \cup {"absent", "pending"}]
      /\ events \in [Runs -> Seq(EventSet)] /\ got \in [Runs -> Seq(EventSet)]
  BY DEF TypeInv, TypeOK, StartTypeOK, ForwardTypeOK, StreamTypeOK, StoreTypeOK
<1> USE <1>0 DEF Same, startVars, forwardVars, streamVars, storeVars, GoTo, Written
<1>1. ASSUME Submit(q) \/ EnterQueue(q) \/ Acquire(q) \/ QueueTimeout(q) \/ CancelledWhileQueued(q)
      PROVE  Same(r)
  BY <1>1 DEF Submit, CreateRun, EnterQueue, Acquire, QueueTimeout, CancelledWhileQueued, LeaveQueue
<1>2. ASSUME Dequeue(q) \/ CountActive(q) \/ ExecuteStarts(q) \/ ExecuteFails(q) \/ Register(q)
      PROVE  Same(r)
  BY <1>2 DEF Dequeue, CountActive, ExecuteStarts, ExecuteFails, Register
<1>3. ASSUME ReleaseAfterFailure(q) \/ UncountAfterFailure(q) \/ Refuse(q) \/ Spawn(q)
      PROVE  Same(r)
  BY <1>3 DEF ReleaseAfterFailure, UncountAfterFailure, Refuse, FinishRun, Spawn
<1>4. ASSUME ReceiveMessage(q) \/ RecoverPanic(q) \/ PersistEvent(q) \/ OfferEvent(q)
      PROVE  Same(r)
  BY <1>4 DEF ReceiveMessage, RecoverPanic, PersistEvent, AppendEvent, OfferEvent
<1>5. ASSUME MessagesClosed(q) \/ AwaitResult(q) \/ PersistResult(q) \/ SendResult(q)
      PROVE  Same(r)
  BY <1>5 DEF MessagesClosed, AwaitResult, PersistResult, AppendEvent, SendResult
<1>6. ASSUME Finalise(q) \/ SaveSessionId(q) \/ CloseEvents(q) \/ CloseDone(q)
      PROVE  Same(r)
  BY <1>6 DEF Finalise, FinishRun, SaveSessionId, SaveSession, CloseEvents, CloseDone
<1>7. ASSUME Unregister(q) \/ CancelOnExit(q) \/ ReleaseSlot(q) \/ UncountActive(q)
      PROVE  Same(r)
  BY <1>7 DEF Unregister, CancelOnExit, ReleaseSlot, UncountActive
<1>8. ASSUME Reader(q) PROVE Same(r)
  BY <1>8 DEF Reader, Receive, SeeClosed
<1> QED
  BY <1>1, <1>2, <1>3, <1>4, <1>5, <1>6, <1>7, <1>8 DEF StartRun, ForwardEvents

LEMMA InitKept ==
  ASSUME NEW r \in Runs, Init
  PROVE  Kept(r)
<1> USE DEF Init, Recorded, Settled, Over, Left
<1>1. Stream(r) = <<>>
  BY DEF Stream
<1>2. InHand(r) /\ RowKept(r) /\ ClosedKept(r)
  BY DEF InHand, RowKept, ClosedKept, Terminal
<1>3. LogKept(r)
  BY DEF LogKept, Stored, IsOrdered
<1>4. StreamKept(r)
  BY <1>1 DEF StreamKept, IsOrdered
<1> QED
  BY <1>2, <1>3, <1>4 DEF Kept

LEMMA TimelineInvariant == Spec => []TimelineInv
<1>1. Init => TimelineInv
  BY InitSlotInv, InitKept DEF TimelineInv, SlotInv
<1>2. SlotInv /\ TimelineInv /\ [Next]_vars => TimelineInv'
  <2> SUFFICES ASSUME SlotInv, TimelineInv, [Next]_vars, NEW r \in Runs PROVE Kept(r)'
    BY NextSlotInv DEF TimelineInv, SlotInv
  <2>1. ASSUME NEW q \in Runs, StartRun(q) \/ ForwardEvents(q) \/ Reader(q)
        PROVE  Kept(r)'
    <3>1. CASE q = r
      BY <2>1, <3>1, StartKept, ForwardKept, ReaderKept DEF TimelineInv
    <3>2. CASE q # r
      BY <2>1, <3>2, OthersSame, SameIsKept DEF TimelineInv
    <3> QED
      BY <3>1, <3>2
  <2>2. ASSUME Server \/ UNCHANGED vars \/ \E q \in Runs : Adapter(q) \/ Caller(q) \/ GetRun(q)
        PROVE  Kept(r)'
    BY <2>2, OtherStepSame, SameIsKept DEF TimelineInv
  <2> QED
    BY <2>1, <2>2 DEF Next, RunStep, Terminated
<1>3. Spec => []SlotInv
  BY InitSlotInv, NextSlotInv, PTL DEF Spec
<1> QED
  BY <1>1, <1>2, <1>3, PTL DEF Spec

-----------------------------------------------------------------------------

\* Whatever is dropped on the way, the live stream carries events in timeline
\* order, none twice, and each of them is already in the store.
THEOREM StreamIsStored == Spec => []StreamedIsStored
<1>1. TimelineInv => StreamedIsStored
  <2> SUFFICES ASSUME TimelineInv, NEW r \in Runs
               PROVE  /\ IsOrdered(Stream(r))
                      /\ r \notin lost => Range(Stream(r)) \subseteq Range(log[r])
    BY DEF StreamedIsStored
  <2> QED
    BY DEF TimelineInv, Kept, StreamKept, Range
<1> QED
  BY <1>1, TimelineInvariant, PTL

\* The stored timeline is numbered without gap or repeat and ends with the
\* terminal event.
THEOREM TimelinesAreWellFormed == Spec => []TimelineIsWellFormed
<1>1. TimelineInv => TimelineIsWellFormed
  BY DEF TimelineInv, Kept, LogKept, TimelineIsWellFormed
<1> QED
  BY <1>1, TimelineInvariant, PTL

\* A final status in the store is justified by a stored result, at every instant
\* the daemon could die at.
THEOREM SettledRunsHaveResult == Spec => []SettledHasResult
<1>1. TimelineInv => SettledHasResult
  <2> SUFFICES ASSUME TimelineInv, NEW r \in Runs \ lost, row[r] \in Terminal
               PROVE  IF pc[r] = "returned"
                      THEN log[r] # <<>> /\ IsTerminal(log[r][Len(log[r])])
                           /\ log[r][Len(log[r])].status = row[r]
                      ELSE row[r] = "failed" /\ log[r] = <<>>
    BY DEF SettledHasResult
  <2>1. Kept(r) /\ (fw[r] # "none" <=> pc[r] = "returned")
    BY DEF TimelineInv, Ownership, ForwarderStarted
  <2>2. CASE pc[r] = "returned"
    <3>1. fw[r] \in Settled /\ row[r] = cur[r].status
      BY <2>1, <2>2 DEF Kept, RowKept
    <3>2. cur[r].kind = "result" /\ log[r] # <<>> /\ log[r][Len(log[r])] = cur[r]
      BY <2>1, <3>1 DEF Kept, InHand, LogKept, Recorded
    <3> QED
      BY <2>2, <3>1, <3>2 DEF IsTerminal
  <2>3. CASE pc[r] # "returned"
    BY <2>1, <2>3 DEF Kept, RowKept, LogKept, Settled, Over, Left
  <2> QED
    BY <2>2, <2>3
<1> QED
  BY <1>1, TimelineInvariant, PTL

\* When the stream closes, the row and the session mapping are final.
THEOREM ClosedRunsAreFinalised == Spec => []ClosedMeansFinalised
<1>1. TimelineInv => ClosedMeansFinalised
  <2> SUFFICES ASSUME TimelineInv, NEW r \in closed \ lost
               PROVE  row[r] \in Terminal /\ (cur[r].session <=> r \in sessions)
    BY DEF ClosedMeansFinalised
  <2>1. r \in Runs /\ Kept(r) /\ (fw[r] # "none" <=> pc[r] = "returned")
    BY DEF TimelineInv, Ownership, ForwarderStarted, TypeInv, TypeOK, ForwardTypeOK
  <2>2. fw[r] \in Over /\ pc[r] = "returned"
    BY <2>1 DEF Kept, ClosedKept, Over, Left
  <2> QED
    BY <2>1, <2>2 DEF Kept, RowKept, InHand, ClosedKept, Recorded, Settled, Over, Left
<1> QED
  BY <1>1, TimelineInvariant, PTL

\* A slot goes to the next request only after the run's status is in the store.
THEOREM SlotsOutliveRuns == Spec => []SlotOutlivesRun
<1>1. TimelineInv => SlotOutlivesRun
  <2> SUFFICES ASSUME TimelineInv, NEW r \in released \ lost, pc[r] = "returned"
               PROVE  row[r] \in Terminal
    BY DEF SlotOutlivesRun
  <2>1. r \in Runs /\ Kept(r) /\ fw[r] \in {"decrement", "exited"}
    BY DEF TimelineInv, Ownership, ReleasedIsPast, TypeInv, TypeOK, StartTypeOK
  <2> QED
    BY <2>1 DEF Kept, RowKept, InHand, Recorded, Settled, Over, Left
<1> QED
  BY <1>1, TimelineInvariant, PTL

\* At most one of the callers of finishRun runs for a request.
THEOREM FinalStatusesAreFinal == Spec => FinalStatusIsFinal
<1>1. TimelineInv /\ [Next]_vars => [\A r \in Runs : row[r] \in Terminal => row'[r] = row[r]]_row
  <2> SUFFICES ASSUME TimelineInv, [Next]_vars, NEW r \in Runs, row[r] \in Terminal
               PROVE  row'[r] = row[r]
    OBVIOUS
  <2>1. /\ pc[r] = "refused" \/ fw[r] \in Settled
        /\ fw[r] # "none" <=> pc[r] = "returned"
        /\ row \in [Runs -> Terminal \cup {"absent", "pending"}]
    BY DEF TimelineInv, Kept, RowKept, Ownership, ForwarderStarted, TypeInv, TypeOK, StoreTypeOK
  <2>2. ASSUME NEW q \in Runs, StartRun(q) PROVE row'[r] = row[r]
    <3>1. CASE q # r
      BY <2>2, <3>1, OthersSame DEF TimelineInv, Same
    <3>2. CASE q = r
      BY <2>1, <2>2, <3>2
      DEF StartRun, Submit, EnterQueue, Acquire, QueueTimeout, CancelledWhileQueued, LeaveQueue,
          Dequeue, CountActive, ExecuteStarts, ExecuteFails, ReleaseAfterFailure,
          UncountAfterFailure, Refuse, Register, Spawn, storeVars, Settled, Over, Left
    <3> QED
      BY <3>1, <3>2
  <2>3. ASSUME NEW q \in Runs, ForwardEvents(q) PROVE row'[r] = row[r]
    <3>1. CASE q # r
      BY <2>3, <3>1, OthersSame DEF TimelineInv, Same
    <3>2. CASE q = r
      BY <2>1, <2>3, <3>2
      DEF ForwardEvents, ReceiveMessage, RecoverPanic, PersistEvent, OfferEvent, MessagesClosed,
          AwaitResult, PersistResult, SendResult, Finalise, SaveSessionId, CloseEvents, CloseDone,
          Unregister, CancelOnExit, ReleaseSlot, UncountActive, GoTo, storeVars, Settled, Over, Left
    <3> QED
      BY <3>1, <3>2
  <2>4. ASSUME NEW q \in Runs, Reader(q) PROVE row'[r] = row[r]
    BY <2>4 DEF Reader, Receive, SeeClosed, storeVars
  <2>5. CASE Server \/ UNCHANGED vars \/ \E q \in Runs : Adapter(q) \/ Caller(q) \/ GetRun(q)
    BY <2>5, OtherStepSame DEF Same
  <2> QED
    BY <2>2, <2>3, <2>4, <2>5 DEF Next, RunStep, Terminated
<1> QED
  BY <1>1, TimelineInvariant, PTL DEF Spec, FinalStatusIsFinal
-----------------------------------------------------------------------------
(* The facade implements RunLifecycle, as long as the store takes what it     *)
(* writes, and of each run whose own writes it has taken in any case.         *)

\* One step of the life cycle of r, or nothing of it.
LifecycleStepOf(r) ==
  \/ Lifecycle!Create(r) \/ Lifecycle!Refuse(r) \/ Lifecycle!Record(r)
  \/ Lifecycle!Show(r) \/ Lifecycle!Settle(r) \/ Lifecycle!Close(r)
  \/ UNCHANGED <<row[r], log[r], Stream(r), r \in closed>>

\* With a store that may fail at every write and a shutdown at any time: whatever
\* happens to the others, a run none of whose own writes has failed keeps what the
\* API promises.
IntactRunsKeepLifecycle ==
  Lifecycle!Init /\ [][\A r \in Runs \ lost' : LifecycleStepOf(r)]_vars

\* What a run has numbered, and what waits in its channel, its CLI has emitted;
\* a panic, which needs a run without a session, adds one event.
Counted(r) ==
  /\ pc[r] \in {"idle", "created", "queued", "acquired", "dequeued", "execute"} => adapter[r] = "off"
  /\ adapter[r] \in {"off", "nil"} => emitted[r] = 0 /\ inbox[r] = <<>>
  /\ adapter[r] = "nil" => /\ seq[r] <= 1
                           /\ fw[r] \in {"none", "recv"} => seq[r] = 0
                           /\ fw[r] \in {"persist", "offer"} => cur[r].kind = "error"
  /\ adapter[r] # "nil" => seq[r] + Len(inbox[r]) <= emitted[r]
  /\ cur[r].seq <= MaxMessages + 1 /\ cur[r].item <= MaxMessages

LifecycleInv == TimelineInv /\ \A r \in Runs : Counted(r)

NothingLost == lost = {} /\ server = "serving"

-----------------------------------------------------------------------------

LEMMA CountTypes ==
  ASSUME TypeInv
  PROVE  /\ pc \in [Runs -> StartPC] /\ fw \in [Runs -> ForwardPC] /\ seq \in [Runs -> Nat]
         /\ cur \in [Runs -> EventSet] /\ emitted \in [Runs -> 0..MaxMessages]
         /\ adapter \in [Runs -> {"off", "running", "finished", "nil"}]
         /\ inbox \in [Runs -> Seq(1..MaxMessages)] /\ MaxMessages \in Nat
BY FacadeAssumption
DEF FacadeAssumption, TypeInv, TypeOK, StartTypeOK, SessionTypeOK, ForwardTypeOK

LEMMA Items ==
  ASSUME NEW s \in Seq(1..MaxMessages), NEW m \in 1..MaxMessages
  PROVE  /\ Len(s) \in Nat
         /\ Append(s, m) # <<>> /\ Len(Append(s, m)) = Len(s) + 1
BY LenProperties, AppendProperties

LEMMA Fields ==
  ASSUME NEW m, NEW s
  PROVE  /\ messageToEvent(m, s).seq = s /\ messageToEvent(m, s).item = m
         /\ panicEvent(s).seq = s /\ panicEvent(s).item = 0 /\ panicEvent(s).kind = "error"
BY DEF messageToEvent, panicEvent, Event

\* The counters of a run nothing happens to.
LEMMA CountStays ==
  ASSUME NEW r \in Runs, Counted(r), pc'[r] = pc[r], fw'[r] = fw[r], seq'[r] = seq[r],
         cur'[r] = cur[r], adapter'[r] = adapter[r], emitted'[r] = emitted[r], inbox'[r] = inbox[r]
  PROVE  Counted(r)'
BY DEF Counted

LEMMA StartCounted ==
  ASSUME NEW q \in Runs, NEW r \in Runs, TypeInv, Ownership, Kept(r), Counted(r), StartRun(q)
  PROVE  Counted(r)'
<1>0. UNCHANGED <<seq, cur, emitted, inbox>>
  BY DEF StartRun, Submit, EnterQueue, Acquire, QueueTimeout, CancelledWhileQueued, LeaveQueue,
         Dequeue, CountActive, ExecuteStarts, ExecuteFails, ReleaseAfterFailure,
         UncountAfterFailure, Refuse, Register, Spawn, sessionVars, forwardVars
<1> USE CountTypes DEF Counted, Kept, LogKept, Ownership, ForwarderStarted, sessionVars, forwardVars
<1>1. ASSUME Submit(q) \/ EnterQueue(q) \/ Acquire(q) \/ QueueTimeout(q) \/ CancelledWhileQueued(q)
      PROVE  Counted(r)'
  BY <1>0, <1>1 DEF Submit, EnterQueue, Acquire, QueueTimeout, CancelledWhileQueued, LeaveQueue
<1>2. ASSUME Dequeue(q) \/ CountActive(q) \/ ExecuteFails(q) \/ Register(q)
      PROVE  Counted(r)'
  BY <1>0, <1>2 DEF Dequeue, CountActive, ExecuteFails, Register
<1>3. ASSUME ReleaseAfterFailure(q) \/ UncountAfterFailure(q) \/ Refuse(q) \/ Spawn(q)
      PROVE  Counted(r)'
  BY <1>0, <1>3 DEF ReleaseAfterFailure, UncountAfterFailure, Refuse, Spawn
<1>4. CASE ExecuteStarts(q)
  BY <1>0, <1>4 DEF ExecuteStarts
<1> QED
  BY <1>1, <1>2, <1>3, <1>4 DEF StartRun

LEMMA AdapterCounted ==
  ASSUME NEW r \in Runs, TypeInv, Counted(r), Adapter(r)
  PROVE  Counted(r)'
<1>1. UNCHANGED <<pc, fw, seq, cur>>
  BY DEF Adapter, AdapterEmits, AdapterReports, AdapterFinishes, startVars, forwardVars
<1>2. CASE AdapterEmits(r)
  <2>1. inbox[r] \in Seq(1..MaxMessages) /\ emitted[r] + 1 \in 1..MaxMessages /\ adapter[r] = "running"
        /\ adapter' = adapter /\ emitted'[r] = emitted[r] + 1
        /\ (inbox'[r] = inbox[r] \/ inbox'[r] = Append(inbox[r], emitted[r] + 1))
    BY <1>2, CountTypes DEF AdapterEmits
  <2>2. seq[r] + Len(inbox'[r]) <= emitted'[r]
    BY <2>1, Items, CountTypes DEF Counted
  <2> QED
    BY <1>1, <2>1, <2>2 DEF Counted
<1>3. CASE AdapterReports(r) \/ AdapterFinishes(r)
  BY <1>1, <1>3, CountTypes DEF AdapterReports, AdapterFinishes, Counted
<1> QED
  BY <1>2, <1>3 DEF Adapter

LEMMA ForwardCounted ==
  ASSUME NEW r \in Runs, TypeInv, Ownership, Kept(r), Counted(r), ForwardEvents(r)
  PROVE  Counted(r)'
<1>0. UNCHANGED <<pc, adapter, emitted>> /\ inbox[r] \in Seq(1..MaxMessages)
  BY CountTypes
  DEF ForwardEvents, ReceiveMessage, RecoverPanic, PersistEvent, OfferEvent, MessagesClosed,
      AwaitResult, PersistResult, SendResult, Finalise, SaveSessionId, CloseEvents, CloseDone,
      Unregister, CancelOnExit, ReleaseSlot, UncountActive, startVars, sessionVars
<1>1. CASE ReceiveMessage(r)
  <2>1. /\ adapter[r] # "nil" /\ inbox[r] # <<>> /\ fw'[r] = "persist"
        /\ inbox'[r] = Tail(inbox[r]) /\ seq'[r] = seq[r] + 1
        /\ cur'[r] = messageToEvent(Head(inbox[r]), seq[r])
    BY <1>1, CountTypes DEF ReceiveMessage, GoTo
  <2>2. /\ Head(inbox[r]) \in 1..MaxMessages /\ Len(Tail(inbox[r])) = Len(inbox[r]) - 1
        /\ Len(inbox[r]) \in Nat
    BY <1>0, <2>1, TakeFirst
  <2>3. cur'[r].seq = seq[r] /\ cur'[r].item = Head(inbox[r])
    BY <2>1, Fields
  <2>4. seq[r] + Len(inbox[r]) <= emitted[r] /\ emitted[r] \in 0..MaxMessages /\ seq[r] \in Nat
    BY <2>1, CountTypes DEF Counted
  <2>5. seq'[r] + Len(inbox'[r]) <= emitted'[r] /\ cur'[r].seq <= MaxMessages + 1
        /\ cur'[r].item <= MaxMessages
    BY <1>0, <2>1, <2>2, <2>3, <2>4, CountTypes
  <2>6. adapter'[r] # "off"
    BY <1>0, <2>1 DEF Counted
  <2> QED
    BY <1>0, <2>1, <2>5, <2>6 DEF Counted
<1>2. CASE RecoverPanic(r)
  <2>1. /\ adapter[r] = "nil" /\ fw[r] = "recv" /\ fw'[r] = "persist" /\ inbox' = inbox
        /\ seq'[r] = seq[r] + 1 /\ cur'[r] = panicEvent(seq[r])
    BY <1>2, CountTypes DEF RecoverPanic, GoTo, sessionVars
  <2>2. seq[r] = 0 /\ cur'[r].seq = seq[r] /\ cur'[r].item = 0 /\ cur'[r].kind = "error"
    BY <2>1, Fields DEF Counted
  <2> QED
    BY <1>0, <2>1, <2>2, CountTypes DEF Counted
<1>3. CASE OfferEvent(r)
  <2>1. resultToEvent(NoResult, seq[r]).seq = seq[r] /\ resultToEvent(NoResult, seq[r]).item = 0
    BY DEF resultToEvent, Event
  <2>2. seq[r] <= MaxMessages + 1
    BY <1>0, Items, CountTypes DEF Counted
  <2> QED
    BY <1>0, <1>3, <2>1, <2>2, CountTypes DEF OfferEvent, GoTo, sessionVars, Counted
<1>4. CASE AwaitResult(r)
  <2>1. \A res : resultToEvent(res, seq[r]).seq = seq[r] /\ resultToEvent(res, seq[r]).item = 0
    BY DEF resultToEvent, Event
  <2>2. seq[r] <= MaxMessages + 1
    BY <1>0, Items, CountTypes DEF Counted
  <2> QED
    BY <1>0, <1>4, <2>1, <2>2, CountTypes DEF AwaitResult, GoTo, sessionVars, Counted
<1>5. ASSUME PersistEvent(r) \/ PersistResult(r) \/ SendResult(r) \/ MessagesClosed(r)
      PROVE  Counted(r)'
  BY <1>0, <1>5, CountTypes
  DEF PersistEvent, PersistResult, SendResult, MessagesClosed, GoTo, sessionVars, Counted
<1>6. ASSUME Finalise(r) \/ SaveSessionId(r) \/ CloseEvents(r) \/ CloseDone(r)
      PROVE  Counted(r)'
  BY <1>0, <1>6, CountTypes
  DEF Finalise, SaveSessionId, CloseEvents, CloseDone, GoTo, sessionVars, Counted
<1>7. ASSUME Unregister(r) \/ CancelOnExit(r) \/ ReleaseSlot(r) \/ UncountActive(r)
      PROVE  Counted(r)'
  BY <1>0, <1>7, CountTypes
  DEF Unregister, CancelOnExit, ReleaseSlot, UncountActive, GoTo, sessionVars, Counted
<1> QED
  BY <1>1, <1>2, <1>3, <1>4, <1>5, <1>6, <1>7 DEF ForwardEvents

\* Nothing is lost: every write succeeds, and a row that is updated exists.
LEMMA NothingIsLost ==
  ASSUME ~StoreFaults, ~MayShutDown, TimelineInv, NothingLost, [Next]_vars
  PROVE  NothingLost'
<1>0. StoreOutcomes = {TRUE}
  BY DEF NothingLost, StoreOutcomes
<1>1. ASSUME NEW r \in Runs, StartRun(r) PROVE NothingLost'
  <2>1. pc[r] = "refusing" => row[r] = "pending"
    BY DEF NothingLost, TimelineInv, Kept, RowKept, Ownership, ForwarderStarted, Settled, Over, Left
  <2>2. CASE Submit(r)
    BY <1>0, <2>2 DEF Submit, CreateRun, Written, NothingLost, serverVars
  <2>3. CASE Refuse(r)
    BY <1>0, <2>1, <2>3 DEF Refuse, FinishRun, Written, NothingLost, serverVars
  <2> QED
    BY <1>1, <2>2, <2>3
    DEF StartRun, EnterQueue, Acquire, QueueTimeout, CancelledWhileQueued, LeaveQueue, Dequeue,
        CountActive, ExecuteStarts, ExecuteFails, ReleaseAfterFailure, UncountAfterFailure,
        Register, Spawn, NothingLost, storeVars, serverVars
<1>2. ASSUME NEW r \in Runs, ForwardEvents(r) PROVE NothingLost'
  <2>1. fw[r] = "finish" => row[r] = "pending"
    BY DEF NothingLost, TimelineInv, Kept, RowKept, Ownership, ForwarderStarted, Settled, Over, Left
  <2>2. CASE PersistEvent(r) \/ PersistResult(r)
    BY <1>0, <2>2 DEF PersistEvent, PersistResult, AppendEvent, Written, NothingLost, serverVars
  <2>3. CASE Finalise(r)
    BY <1>0, <2>1, <2>3 DEF Finalise, FinishRun, GoTo, Written, NothingLost, serverVars
  <2>4. CASE SaveSessionId(r)
    BY <1>0, <2>4 DEF SaveSessionId, SaveSession, Written, NothingLost, serverVars
  <2> QED
    BY <1>2, <2>2, <2>3, <2>4
    DEF ForwardEvents, ReceiveMessage, RecoverPanic, OfferEvent, MessagesClosed, AwaitResult,
        SendResult, CloseEvents, CloseDone, Unregister, CancelOnExit, ReleaseSlot, UncountActive,
        NothingLost, storeVars, serverVars
<1>3. ASSUME NEW r \in Runs, Adapter(r) \/ Reader(r) \/ Caller(r) \/ GetRun(r) PROVE NothingLost'
  BY <1>3
  DEF Adapter, AdapterEmits, AdapterReports, AdapterFinishes, Reader, Receive, SeeClosed, Caller,
      Disconnect, Expire, CancelRun, GetRun, GetRunRow, GetRunEvents, GetRunAgain, GetRunLeaves,
      NothingLost, storeVars, serverVars
<1>4. CASE Server
  BY <1>4 DEF Server, Shutdown, DrainEnds, CloseCancels, CloseReturns, NothingLost
<1>5. CASE UNCHANGED vars
  BY <1>5 DEF vars, NothingLost
<1> QED
  BY <1>1, <1>2, <1>3, <1>4, <1>5 DEF Next, RunStep, Terminated

LEMMA CountKept ==
  ASSUME TimelineInv, [Next]_vars, NEW r \in Runs, Counted(r)
  PROVE  Counted(r)'
<1>0. TypeInv /\ Ownership /\ Kept(r)
  BY DEF TimelineInv
<1>1. ASSUME NEW q \in Runs, StartRun(q) PROVE Counted(r)'
  BY <1>0, <1>1, StartCounted
<1>2. ASSUME NEW q \in Runs, Adapter(q) \/ ForwardEvents(q) PROVE Counted(r)'
  <2>1. CASE q = r
    BY <1>0, <1>2, <2>1, AdapterCounted, ForwardCounted
  <2>2. CASE q # r
    BY <1>0, <1>2, <2>2, CountTypes, CountStays
    DEF Adapter, AdapterEmits, AdapterReports, AdapterFinishes, ForwardEvents, ReceiveMessage,
        RecoverPanic, PersistEvent, OfferEvent, MessagesClosed, AwaitResult, PersistResult,
        SendResult, Finalise, SaveSessionId, CloseEvents, CloseDone, Unregister, CancelOnExit,
        ReleaseSlot, UncountActive, GoTo, startVars, forwardVars, sessionVars
  <2> QED
    BY <2>1, <2>2
<1>3. ASSUME NEW q \in Runs, Reader(q) \/ Caller(q) \/ GetRun(q) PROVE Counted(r)'
  BY <1>3, CountStays
  DEF Reader, Receive, SeeClosed, Caller, Disconnect, Expire, CancelRun, GetRun, GetRunRow,
      GetRunEvents, GetRunAgain, GetRunLeaves, startVars, forwardVars, sessionVars
<1>4. CASE Server
  BY <1>4, CountStays
  DEF Server, Shutdown, DrainEnds, CloseCancels, CloseReturns, otherThanServer, startVars,
      forwardVars, sessionVars
<1>5. CASE UNCHANGED vars
  BY <1>5, CountStays DEF vars
<1> QED
  BY <1>1, <1>2, <1>3, <1>4, <1>5 DEF Next, RunStep, Terminated

LEMMA LifecycleInvariant == Spec => []LifecycleInv
<1>1. Init /\ TimelineInv => LifecycleInv
  <2> SUFFICES ASSUME Init, TimelineInv, NEW r \in Runs PROVE Counted(r)
    BY DEF LifecycleInv
  <2>1. /\ adapter[r] = "off" /\ emitted[r] = 0 /\ inbox[r] = <<>> /\ seq[r] = 0
        /\ cur[r] = NoEvent
    BY DEF Init
  <2>2. NoEvent.seq = 0 /\ NoEvent.item = 0 /\ MaxMessages \in Nat
    BY FacadeAssumption DEF NoEvent, Event, FacadeAssumption
  <2> QED
    BY <2>1, <2>2 DEF Counted
<1>2. LifecycleInv /\ TimelineInv' /\ [Next]_vars => LifecycleInv'
  BY CountKept DEF LifecycleInv
<1> QED
  BY <1>1, <1>2, TimelineInvariant, PTL DEF Spec

-----------------------------------------------------------------------------
(* Each step of the facade is one of the life cycle, or changes nothing of it. *)

\* An event about to be stored is one the instance's event set has.
LEMMA CurIsBounded ==
  ASSUME LifecycleInv, NEW r \in Runs, fw[r] \in {"persist", "persistResult"}
  PROVE  cur[r] \in BoundedEvents
<1>1. cur[r] \in EventSet /\ cur[r].kind \in {"message", "error", "result"}
  BY Types DEF LifecycleInv, TimelineInv, Kept, InHand
<1>2. cur[r].seq \in 0..(MaxMessages + 1) /\ cur[r].item \in 0..MaxMessages
  <2>1. cur[r].seq \in Nat /\ cur[r].item \in Nat /\ MaxMessages \in Nat
    BY <1>1, FacadeAssumption DEF EventSet, FacadeAssumption
  <2>2. cur[r].seq <= MaxMessages + 1 /\ cur[r].item <= MaxMessages
    BY DEF LifecycleInv, Counted
  <2> QED
    BY <2>1, <2>2
<1> QED
  BY <1>1, <1>2 DEF EventSet, BoundedEvents

\* A stored event is recorded as the next of its timeline, before any result.
LEMMA Records ==
  ASSUME LifecycleInv, NEW r \in Runs, r \notin lost', PersistEvent(r) \/ PersistResult(r)
  PROVE  Lifecycle!Record(r)
<1>1. /\ fw[r] \in {"persist", "persistResult"} /\ UNCHANGED <<row, events, got, closed>>
      /\ AppendEvent(r, cur[r])
  BY DEF PersistEvent, PersistResult, GoTo, streamVars
<1>0. TypeInv /\ Kept(r) /\ r \notin lost /\ (fw[r] # "none" <=> pc[r] = "returned")
  BY <1>1 DEF LifecycleInv, TimelineInv, Ownership, ForwarderStarted, AppendEvent, Written
<1>2. log' = [log EXCEPT ![r] = Append(@, cur[r])]
  BY <1>0, <1>1 DEF AppendEvent, Written
<1>3. row[r] = "pending"
  BY <1>0, <1>1 DEF Kept, RowKept, Settled, Over, Left, TypeInv, TypeOK
<1>4. ~Lifecycle!HasResult(r)
  <2>1. log[r] # <<>> => Len(log[r]) \in DOMAIN log[r]
    BY <1>0, Types, EmptySeq, LenProperties
  <2> QED
    BY <1>0, <1>1, <2>1
    DEF Kept, LogKept, IsTerminal, Lifecycle!HasResult, Lifecycle!Last, Recorded, Settled, Over, Left
<1>5. cur[r].seq = Len(log[r])
  BY <1>0, <1>1, Types DEF Kept, LogKept, InHand, Stored, Recorded, Settled, Over, Left
<1>6. UNCHANGED [q \in Runs |-> Stream(q)]
  BY <1>1 DEF Stream
<1> QED
  BY <1>1, <1>2, <1>3, <1>4, <1>5, <1>6, CurIsBounded DEF Lifecycle!Record

\* An offered event is the last recorded one, and it has not been shown.
LEMMA Shows ==
  ASSUME LifecycleInv, NEW r \in Runs, r \notin lost', OfferEvent(r) \/ SendResult(r)
  PROVE  LifecycleStepOf(r)
<1>0. TypeInv /\ Kept(r) /\ r \notin lost
  BY DEF LifecycleInv, TimelineInv, OfferEvent, SendResult, storeVars
<1>1. /\ fw[r] \in {"offer", "sendResult"} /\ UNCHANGED <<row, log, got, closed>>
      /\ events' = [events EXCEPT ![r] = Append(@, cur[r])] \/ events' = events
  BY <1>0 DEF OfferEvent, SendResult, GoTo, storeVars, TypeInv, TypeOK, StreamTypeOK
<1>2. CASE events' = events
  BY <1>1, <1>2 DEF LifecycleStepOf, Stream
<1>3. CASE events' = [events EXCEPT ![r] = Append(@, cur[r])]
  <2>1. \A q \in Runs : /\ events[q] \in Seq(EventSet) /\ got[q] \in Seq(EventSet)
                        /\ cur[q] \in EventSet
    BY <1>0, Types
  <2>2. \A q \in Runs : Stream(q)' = IF q = r THEN Append(Stream(r), cur[r]) ELSE Stream(q)
    <3> SUFFICES ASSUME NEW q \in Runs
                 PROVE  Stream(q)' = IF q = r THEN Append(Stream(r), cur[r]) ELSE Stream(q)
      OBVIOUS
    <3>1. events \in [Runs -> Seq(EventSet)]
      BY <1>0 DEF TypeInv, TypeOK, StreamTypeOK
    <3>2. CASE q = r
      <4>1. events'[r] = Append(events[r], cur[r]) /\ got'[r] = got[r]
        BY <1>1, <1>3, <3>1
      <4>2. got[r] \o Append(events[r], cur[r]) = Append(got[r] \o events[r], cur[r])
        BY <2>1, StreamGrows
      <4> QED
        BY <3>2, <4>1, <4>2 DEF Stream
    <3>3. CASE q # r
      BY <1>1, <1>3, <3>1, <3>3 DEF Stream
    <3> QED
      BY <3>2, <3>3
  <2>3. log[r] # <<>> /\ log[r][Len(log[r])] = cur[r] /\ Len(log[r]) = Stored(r)
    BY <1>0, <1>1 DEF Kept, LogKept, Recorded
  <2>4. r \notin closed
    BY <1>0, <1>1 DEF Kept, ClosedKept, Over, Left
  <2>5. Lifecycle!Shown(r) < Len(log[r])
    <3>1. Offered(r) < Stored(r) /\ Stored(r) \in Nat
      BY <1>0, <1>1, Types DEF Stored, Offered, Recorded, Settled, Over, Left
    <3>2. CASE Stream(r) = <<>>
      <4>1. Len(log[r]) \in Nat \ {0}
        BY <1>0, <2>3, Types, EmptySeq
      <4> QED
        BY <3>2, <4>1 DEF Lifecycle!Shown
    <3>3. CASE Stream(r) # <<>>
      <4>1. Len(Stream(r)) \in DOMAIN Stream(r) /\ Stream(r)[Len(Stream(r))].seq \in Nat
        BY <1>0, <3>3, Types, EmptySeq, Numbers
      <4>2. Stream(r)[Len(Stream(r))].seq < Offered(r)
        BY <1>0, <4>1 DEF Kept, StreamKept
      <4>3. Stream(r)[Len(Stream(r))].seq + 1 < Len(log[r])
        BY <1>0, <2>3, <3>1, <4>1, <4>2, Types
      <4> QED
        BY <3>3, <4>3 DEF Lifecycle!Shown, Lifecycle!Last
    <3> QED
      BY <3>2, <3>3
  <2>6. [q \in Runs |-> Stream(q)]' = [[q \in Runs |-> Stream(q)] EXCEPT ![r] = Append(@, cur[r])]
    BY <2>2
  <2> QED
    BY <1>1, <2>3, <2>4, <2>5, <2>6 DEF Lifecycle!Show, Lifecycle!Last, LifecycleStepOf
<1> QED
  BY <1>1, <1>2, <1>3

\* The row becomes what the last event of the timeline says; then the stream closes.
LEMMA Settles ==
  ASSUME LifecycleInv, NEW r \in Runs, r \notin lost', Finalise(r)
  PROVE  Lifecycle!Settle(r)
<1>1. fw[r] = "finish" /\ FinishRun(r, cur[r].status) /\ UNCHANGED <<log, events, got, closed>>
  BY DEF Finalise, GoTo, streamVars
<1>0. TypeInv /\ Kept(r) /\ r \notin lost /\ (fw[r] # "none" <=> pc[r] = "returned")
  BY <1>1 DEF LifecycleInv, TimelineInv, Ownership, ForwarderStarted, FinishRun, Written
<1>2. row[r] = "pending" /\ cur[r].kind = "result" /\ log[r] # <<>> /\ log[r][Len(log[r])] = cur[r]
  BY <1>0, <1>1 DEF Kept, RowKept, InHand, LogKept, Recorded, Settled, Over, Left
<1>3. row' = [row EXCEPT ![r] = cur[r].status]
  BY <1>0, <1>1, <1>2 DEF FinishRun, Written
<1>4. UNCHANGED [q \in Runs |-> Stream(q)]
  BY <1>1 DEF Stream
<1> QED
  BY <1>1, <1>2, <1>3, <1>4 DEF Lifecycle!Settle, Lifecycle!HasResult, Lifecycle!Last

LEMMA Closes ==
  ASSUME LifecycleInv, NEW r \in Runs, r \notin lost', CloseEvents(r)
  PROVE  Lifecycle!Close(r)
<1>0. Kept(r) /\ r \notin lost /\ (fw[r] # "none" <=> pc[r] = "returned")
  BY DEF LifecycleInv, TimelineInv, Ownership, ForwarderStarted, CloseEvents, storeVars
<1>1. fw[r] = "closeEvents" /\ closed' = closed \cup {r} /\ UNCHANGED <<row, log, events, got>>
  BY DEF CloseEvents, GoTo, streamVars, storeVars
<1>2. /\ row[r] \in Terminal /\ log[r] # <<>> /\ log[r][Len(log[r])].kind = "result"
      /\ r \notin closed
  BY <1>0, <1>1 DEF Kept, RowKept, InHand, LogKept, ClosedKept, Recorded, Settled, Over, Left
<1>3. UNCHANGED [q \in Runs |-> Stream(q)]
  BY <1>1 DEF Stream
<1> QED
  BY <1>1, <1>2, <1>3
  DEF Lifecycle!Close, Lifecycle!Final, Terminal, Lifecycle!HasResult, Lifecycle!Last

\* A request is created pending, and may be refused before it has any event.
LEMMA CreatesOrRefuses ==
  ASSUME LifecycleInv, NEW r \in Runs, r \notin lost', Submit(r) \/ Refuse(r)
  PROVE  Lifecycle!Create(r) \/ Lifecycle!Refuse(r)
<1>0. Kept(r) /\ r \notin lost /\ (fw[r] # "none" <=> pc[r] = "returned")
  BY DEF LifecycleInv, TimelineInv, Ownership, ForwarderStarted, Submit, Refuse, CreateRun,
         FinishRun, Written
<1>1. UNCHANGED <<log, events, got, closed>>
  BY DEF Submit, Refuse, streamVars, forwardVars
<1>2. UNCHANGED [q \in Runs |-> Stream(q)]
  BY <1>1 DEF Stream
<1>3. CASE Submit(r)
  <2>1. row[r] = "absent"
    BY <1>0, <1>3 DEF Submit, Kept, RowKept
  <2>2. row' = [row EXCEPT ![r] = "pending"]
    BY <1>0, <1>3 DEF Submit, CreateRun, Written
  <2> QED
    BY <1>1, <1>2, <2>1, <2>2 DEF Lifecycle!Create
<1>4. CASE Refuse(r)
  <2>1. row[r] = "pending" /\ log[r] = <<>>
    BY <1>0, <1>4 DEF Refuse, Kept, RowKept, LogKept, Settled, Over, Left
  <2>2. row' = [row EXCEPT ![r] = "failed"]
    BY <1>0, <1>4, <2>1 DEF Refuse, FinishRun, Written
  <2> QED
    BY <1>1, <1>2, <2>1, <2>2 DEF Lifecycle!Refuse
<1> QED
  BY <1>3, <1>4

LEMMA LifecycleInit == Init => Lifecycle!Init
<1> SUFFICES ASSUME Init PROVE Lifecycle!Init
  OBVIOUS
<1>1. \A r \in Runs : Stream(r) = <<>>
  BY DEF Init, Stream
<1> QED
  BY <1>1 DEF Init, Lifecycle!Init

\* What a step of another actor, or for another run, leaves of a run.
LEMMA NotItsStep ==
  ASSUME LifecycleInv, NEW r \in Runs, NEW q \in Runs, q # r,
         StartRun(q) \/ ForwardEvents(q) \/ Reader(q)
  PROVE  LifecycleStepOf(r)
<1>1. CASE StartRun(q) \/ ForwardEvents(q)
  <2>1. Same(r)
    BY <1>1, OthersSame DEF LifecycleInv, TimelineInv
  <2> QED
    BY <2>1 DEF Same, LifecycleStepOf, Stream
<1>2. CASE Reader(q)
  <2>1. events \in [Runs -> Seq(EventSet)] /\ got \in [Runs -> Seq(EventSet)]
    BY DEF LifecycleInv, TimelineInv, TypeInv, TypeOK, StreamTypeOK
  <2>2. events'[r] = events[r] /\ got'[r] = got[r] /\ UNCHANGED <<row, log, closed>>
    BY <1>2, <2>1 DEF Reader, Receive, SeeClosed, storeVars, forwardVars
  <2> QED
    BY <2>2 DEF LifecycleStepOf, Stream
<1> QED
  BY <1>1, <1>2

LEMMA LifecycleStep ==
  ASSUME LifecycleInv, [Next]_vars, NEW r \in Runs, r \notin lost'
  PROVE  LifecycleStepOf(r)
<1>1. CASE StartRun(r)
  <2>1. CASE Submit(r) \/ Refuse(r)
    BY <2>1, CreatesOrRefuses DEF LifecycleStepOf
  <2>2. CASE ~(Submit(r) \/ Refuse(r))
    BY <1>1, <2>2
    DEF StartRun, EnterQueue, Acquire, QueueTimeout, CancelledWhileQueued, LeaveQueue, Dequeue,
        CountActive, ExecuteStarts, ExecuteFails, ReleaseAfterFailure, UncountAfterFailure,
        Register, Spawn, LifecycleStepOf, Stream, storeVars, streamVars, forwardVars
  <2> QED
    BY <2>1, <2>2
<1>2. CASE ForwardEvents(r)
  <2>1. CASE PersistEvent(r) \/ PersistResult(r)
    BY <2>1, Records DEF LifecycleStepOf
  <2>2. CASE OfferEvent(r) \/ SendResult(r)
    BY <2>2, Shows
  <2>3. CASE Finalise(r)
    BY <2>3, Settles DEF LifecycleStepOf
  <2>4. CASE CloseEvents(r)
    BY <2>4, Closes DEF LifecycleStepOf
  <2>5. ASSUME \/ ReceiveMessage(r) \/ RecoverPanic(r) \/ MessagesClosed(r) \/ AwaitResult(r)
               \/ SaveSessionId(r) \/ CloseDone(r) \/ Unregister(r) \/ CancelOnExit(r)
               \/ ReleaseSlot(r) \/ UncountActive(r)
        PROVE  LifecycleStepOf(r)
    BY <2>5
    DEF ReceiveMessage, RecoverPanic, MessagesClosed, AwaitResult, SaveSessionId, SaveSession,
        CloseDone, Unregister, CancelOnExit, ReleaseSlot, UncountActive, LifecycleStepOf, Stream,
        storeVars, streamVars
  <2> QED
    BY <1>2, <2>1, <2>2, <2>3, <2>4, <2>5 DEF ForwardEvents
<1>3. CASE Reader(r)
  <2>1. events \in [Runs -> Seq(EventSet)] /\ got \in [Runs -> Seq(EventSet)]
    BY DEF LifecycleInv, TimelineInv, TypeInv, TypeOK, StreamTypeOK
  <2>2. Stream(r)' = Stream(r)
    <3>1. CASE Receive(r)
      BY <2>1, <3>1, StreamMoves DEF Receive, Stream
    <3>2. CASE SeeClosed(r)
      BY <3>2 DEF SeeClosed, Stream
    <3> QED
      BY <1>3, <3>1, <3>2 DEF Reader
  <2>3. UNCHANGED <<row, log, closed>>
    BY <1>3 DEF Reader, Receive, SeeClosed, storeVars, forwardVars
  <2> QED
    BY <2>2, <2>3 DEF LifecycleStepOf
<1>4. ASSUME NEW q \in Runs, Adapter(q) \/ Caller(q) \/ GetRun(q) PROVE LifecycleStepOf(r)
  BY <1>4
  DEF Adapter, AdapterEmits, AdapterReports, AdapterFinishes, Caller, Disconnect, Expire,
      CancelRun, GetRun, GetRunRow, GetRunEvents, GetRunAgain, GetRunLeaves, LifecycleStepOf,
      Stream, storeVars, streamVars, forwardVars
<1>5. CASE Server
  BY <1>5
  DEF Server, Shutdown, DrainEnds, CloseCancels, CloseReturns, otherThanServer, LifecycleStepOf,
      Stream, storeVars, streamVars, forwardVars
<1>6. CASE UNCHANGED vars
  BY <1>6 DEF vars, LifecycleStepOf, Stream
<1> QED
  BY <1>1, <1>2, <1>3, <1>4, <1>5, <1>6, NotItsStep DEF Next, RunStep, Terminated

\* A failing write or the shutdown of the daemon harms only the runs it hits: every
\* other run is created, recorded, shown, settled and closed as the API promises.
THEOREM IntactRunsKept == Spec => IntactRunsKeepLifecycle
<1>1. LifecycleInv /\ [Next]_vars => [\A r \in Runs \ lost' : LifecycleStepOf(r)]_vars
  BY LifecycleStep
<1> QED
  BY <1>1, LifecycleInit, LifecycleInvariant, PTL DEF Spec, IntactRunsKeepLifecycle

\* Where nothing is lost, each step is one of the life cycle as a whole.
LEMMA NothingLostStep ==
  ASSUME LifecycleInv, LifecycleInv', NothingLost', [Next]_vars
  PROVE  [Lifecycle!Next]_(Lifecycle!vars)
<1>1. \A r \in Runs : LifecycleStepOf(r)
  BY LifecycleStep DEF NothingLost
<1>2. CASE \A r \in Runs : UNCHANGED <<row[r], log[r], Stream(r), r \in closed>>
  <2>1. /\ row = [r \in Runs |-> row[r]] /\ row' = [r \in Runs |-> row'[r]]
        /\ log = [r \in Runs |-> log[r]] /\ log' = [r \in Runs |-> log'[r]]
        /\ closed \subseteq Runs /\ closed' \subseteq Runs
    BY DEF LifecycleInv, TimelineInv, TypeInv, TypeOK, StoreTypeOK, ForwardTypeOK
  <2>2. row' = row /\ log' = log
    BY <1>2, <2>1
  <2>3. closed' = closed
    BY <1>2, <2>1
  <2>4. [r \in Runs |-> Stream(r)]' = [r \in Runs |-> Stream(r)]
    BY <1>2
  <2> QED
    BY <2>2, <2>3, <2>4 DEF Lifecycle!vars
<1>3. CASE \E r \in Runs : ~UNCHANGED <<row[r], log[r], Stream(r), r \in closed>>
  BY <1>1, <1>3 DEF LifecycleStepOf, Lifecycle!Next
<1> QED
  BY <1>2, <1>3

\* As long as no store write fails, the facade with all its goroutines does to
\* each run what the API promises, and nothing else.
THEOREM LifecycleIsKept ==
  ASSUME ~StoreFaults, ~MayShutDown
  PROVE  Spec => KeepsRunLifecycle
<1>1. Spec => []NothingLost
  <2>1. Init => NothingLost
    BY DEF Init, NothingLost
  <2>2. TimelineInv /\ NothingLost /\ [Next]_vars => NothingLost'
    BY NothingIsLost
  <2> QED
    BY <2>1, <2>2, TimelineInvariant, PTL DEF Spec
<1>2. LifecycleInv /\ LifecycleInv' /\ NothingLost' /\ [Next]_vars => [Lifecycle!Next]_(Lifecycle!vars)
  BY NothingLostStep
<1> QED
  BY <1>1, <1>2, LifecycleInit, LifecycleInvariant, PTL DEF Spec, KeepsRunLifecycle, Lifecycle!Spec
=============================================================================
