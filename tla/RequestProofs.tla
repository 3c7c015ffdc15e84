--------------------------- MODULE RequestProofs ---------------------------
(* What holds of a request for any configuration files, environments, clients *)
(* and options, and for runs of any length: a CLI runs only as configured,    *)
(* the answer is what the run said, and the arguments the daemon depends on   *)
(* are its own.                                                               *)
EXTENDS Request, FiniteSetTheorems, SequenceTheorems, TLAPS

-----------------------------------------------------------------------------
(* Induction and recursion, with sets in the place of predicates.             *)

LEMMA NatSetInduction ==
  ASSUME NEW S, 0 \in S, \A n \in Nat : n \in S => n + 1 \in S
  PROVE  Nat \subseteq S
<1> SUFFICES ASSUME NEW m \in Nat, m \notin S PROVE FALSE
  OBVIOUS
<1> DEFINE T == (0..m) \ S
           f == [i \in T |-> i - 1]
<1>1. IsFiniteSet(T)
  <2>1. IsFiniteSet(0..m)
    BY FS_Interval
  <2> QED
    BY <2>1, FS_Subset
<1>2. \A i \in T : i - 1 \in T
  <2> SUFFICES ASSUME NEW i \in T PROVE i - 1 \in T
    OBVIOUS
  <2>1. i \in Nat /\ i # 0 /\ i <= m
    OBVIOUS
  <2>2. i - 1 \in Nat /\ (i - 1) + 1 = i
    BY <2>1
  <2> QED
    BY <2>1, <2>2
<1>3. f \in Injection(T, T)
  <2>1. \A i \in T : i \in Int
    OBVIOUS
  <2> HIDE DEF T
  <2>2. f \in [T -> T] /\ \A i, j \in T : f[i] = f[j] => i = j
    BY <1>2, <2>1
  <2> QED
    BY <2>2 DEF Injection, IsInjective
<1>4. f \in Surjection(T, T)
  BY <1>1, <1>3, FS_Injection
<1>5. m \in T
  OBVIOUS
<1>6. PICK i \in T : f[i] = m
  BY <1>4, <1>5 DEF Surjection
<1> QED
  BY <1>6

LEMMA SeqSetInduction ==
  ASSUME NEW T, NEW S, <<>> \in S, \A s \in Seq(T), e \in T : s \in S => Append(s, e) \in S
  PROVE  Seq(T) \subseteq S
<1> DEFINE N == {n \in Nat : \A s \in Seq(T) : Len(s) = n => s \in S}
<1>1. 0 \in N
  BY EmptySeq
<1>2. ASSUME NEW n \in Nat, n \in N PROVE n + 1 \in N
  <2> SUFFICES ASSUME NEW s \in Seq(T), Len(s) = n + 1 PROVE s \in S
    OBVIOUS
  <2>1. s # <<>>
    BY EmptySeq
  <2>2. PICK t \in Seq(T), e \in T : s = Append(t, e)
    BY <2>1, SequenceEmptyOrAppend
  <2>3. Len(t) \in Nat /\ Len(s) = Len(t) + 1
    BY <2>2, AppendProperties, LenProperties
  <2> QED
    BY <2>2, <2>3, <1>2
<1>3. Nat \subseteq N
  <2> HIDE DEF N
  <2> QED
    BY <1>1, <1>2, NatSetInduction
<1> SUFFICES ASSUME NEW s \in Seq(T) PROVE s \in S
  OBVIOUS
<1>4. Len(s) \in Nat
  BY LenProperties
<1> QED
  BY <1>3, <1>4

\* A function may be defined by recursion up to any bound.
Iterates(g, T, base, L, step) ==
  /\ g \in [0..L -> T] /\ g[0] = base
  /\ \A i \in 1..L : g[i] = step[<<i, g[i - 1]>>]

LEMMA Recursion ==
  ASSUME NEW T, NEW base \in T, NEW L \in Nat, NEW step \in [(1..L) \X T -> T]
  PROVE  \E g : Iterates(g, T, base, L, step)
<1> DEFINE Good(n, g) == g \in [0..n -> T] /\ g[0] = base /\ \A i \in 1..n : g[i] = step[<<i, g[i - 1]>>]
           N == {n \in Nat : n <= L => \E g : Good(n, g)}
<1>1. 0 \in N
  <2>1. Good(0, [i \in 0..0 |-> base])
    OBVIOUS
  <2> QED
    BY <2>1
<1>2. ASSUME NEW n \in Nat, n \in N PROVE n + 1 \in N
  <2> SUFFICES ASSUME n + 1 <= L PROVE \E g : Good(n + 1, g)
    OBVIOUS
  <2>1. PICK g : Good(n, g)
    BY <1>2
  <2> DEFINE h == [i \in 0..(n + 1) |-> IF i = n + 1 THEN step[<<n + 1, g[n]>>] ELSE g[i]]
  <2>2. step[<<n + 1, g[n]>>] \in T
    BY <2>1
  <2>3. h \in [0..(n + 1) -> T] /\ h[0] = base
    BY <2>1, <2>2
  <2>4. ASSUME NEW i \in 1..(n + 1) PROVE h[i] = step[<<i, h[i - 1]>>]
    <3>1. i - 1 \in 0..n /\ h[i - 1] = g[i - 1]
      OBVIOUS
    <3>2. CASE i = n + 1
      <4>1. i - 1 = n /\ h[i] = step[<<n + 1, g[n]>>]
        BY <3>2
      <4> QED
        BY <3>1, <3>2, <4>1
    <3>3. CASE i # n + 1
      BY <3>1, <3>3, <2>1
    <3> QED
      BY <3>2, <3>3
  <2>5. Good(n + 1, h)
    BY <2>3, <2>4
  <2> QED
    BY <2>5
<1>3. Nat \subseteq N
  <2> HIDE DEF N
  <2> QED
    BY <1>1, <1>2, NatSetInduction
<1> QED
  BY <1>3 DEF Iterates

-----------------------------------------------------------------------------
(* FlattenSeq                                                                 *)

LEMMA FlattenIs ==
  ASSUME NEW T, NEW ss \in Seq(Seq(T)), NEW g \in [0..Len(ss) -> Seq(T)],
         g[0] = <<>>, \A i \in 1..Len(ss) : g[i] = g[i - 1] \o ss[i]
  PROVE  FlattenSeq(ss) = g[Len(ss)]
<1> DEFINE L == Len(ss)
           IsFlat(f) == f = [i \in 1..L |-> IF i = 1 THEN ss[i] ELSE f[i - 1] \o ss[i]]
           h == [i \in 1..L |-> g[i]]
           flat == CHOOSE f : IsFlat(f)
<1>1. L \in Nat /\ \A i \in 1..L : ss[i] \in Seq(T)
  BY LenProperties
<1>2. CASE L = 0
  <2>1. ss = <<>>
    BY <1>2, EmptySeq
  <2> QED
    BY <1>2, <2>1 DEF FlattenSeq
<1>3. CASE L # 0
  <2>1. IsFlat(h)
    <3>1. ASSUME NEW i \in 1..L
          PROVE  h[i] = IF i = 1 THEN ss[i] ELSE h[i - 1] \o ss[i]
      <4>1. CASE i = 1
        <5>1. i - 1 = 0
          BY <4>1
        <5>2. g[i] = <<>> \o ss[i] /\ ss[i] \in Seq(T)
          BY <5>1, <1>1
        <5> QED
          BY <4>1, <5>2, ConcatEmptySeq
      <4>2. CASE i # 1
        <5>1. i - 1 \in 1..L
          BY <4>2, <1>1
        <5> QED
          BY <4>2, <5>1
      <4> QED
        BY <4>1, <4>2
    <3> QED
      BY <3>1
  <2>2. IsFlat(flat)
    <3> HIDE DEF h, IsFlat
    <3> QED
      BY <2>1
  <2>3. \A i \in 1..L : flat[i] = IF i = 1 THEN ss[i] ELSE flat[i - 1] \o ss[i]
    <3> HIDE DEF flat
    <3> QED
      BY <2>2
  <2> HIDE DEF flat
  <2> DEFINE N == {n \in Nat : n + 1 \in 1..L => flat[n + 1] = h[n + 1]}
  <2>4. 0 \in N
    <3>1. 0 + 1 = 1 /\ 1 \in 1..L
      BY <1>1, <1>3
    <3>2. flat[1] = ss[1]
      BY <2>3, <3>1
    <3>3. h[1] = ss[1]
      BY <2>1, <3>1
    <3> QED
      BY <3>1, <3>2, <3>3
  <2>5. ASSUME NEW n \in Nat, n \in N PROVE n + 1 \in N
    <3> SUFFICES ASSUME (n + 1) + 1 \in 1..L PROVE flat[(n + 1) + 1] = h[(n + 1) + 1]
      OBVIOUS
    <3>1. n + 1 \in 1..L /\ (n + 1) + 1 # 1 /\ ((n + 1) + 1) - 1 = n + 1
      BY <1>1
    <3>2. flat[n + 1] = h[n + 1]
      BY <3>1, <2>5
    <3>3. h[(n + 1) + 1] = h[n + 1] \o ss[(n + 1) + 1]
      BY <2>1, <3>1
    <3> QED
      BY <2>3, <3>1, <3>2, <3>3
  <2>6. Nat \subseteq N
    <3> HIDE DEF N
    <3> QED
      BY <2>4, <2>5, NatSetInduction
  <2>7. L - 1 \in Nat /\ (L - 1) + 1 = L /\ L \in 1..L
    BY <1>1, <1>3
  <2>8. flat[L] = g[L]
    <3>1. L - 1 \in N
      BY <2>6, <2>7
    <3> QED
      BY <2>7, <3>1
  <2>9. FlattenSeq(ss) = flat[L]
    BY <1>3 DEF FlattenSeq, flat
  <2> QED
    BY <2>8, <2>9
<1> QED
  BY <1>2, <1>3

LEMMA FlattenAppend ==
  ASSUME NEW T, NEW ss \in Seq(Seq(T)), NEW s \in Seq(T)
  PROVE  /\ FlattenSeq(<<>>) = <<>>
         /\ FlattenSeq(ss) \in Seq(T)
         /\ FlattenSeq(Append(ss, s)) = FlattenSeq(ss) \o s
<1> DEFINE tt   == Append(ss, s)
           L    == Len(ss)
           step == [p \in (1..(L + 1)) \X Seq(T) |-> p[2] \o tt[p[1]]]
<1>1. /\ L \in Nat /\ tt \in Seq(Seq(T)) /\ Len(tt) = L + 1
      /\ tt[L + 1] = s /\ \A i \in 1..L : tt[i] = ss[i]
  BY AppendProperties, LenProperties
<1>2. \A i \in 1..(L + 1) : tt[i] \in Seq(T)
  BY <1>1, LenProperties
<1> HIDE DEF tt
<1>3. step \in [(1..(L + 1)) \X Seq(T) -> Seq(T)]
  BY <1>2, ConcatProperties
<1>4. <<>> \in Seq(T)
  BY EmptySeq
<1>5. PICK g \in [0..(L + 1) -> Seq(T)] :
        g[0] = <<>> /\ \A i \in 1..(L + 1) : g[i] = step[<<i, g[i - 1]>>]
  <2> HIDE DEF step
  <2>1. L + 1 \in Nat
    BY <1>1
  <2>2. \E g : Iterates(g, Seq(T), <<>>, L + 1, step)
    BY <2>1, <1>3, <1>4, Recursion
  <2> QED
    BY <2>2 DEF Iterates
<1>6. \A i \in 1..(L + 1) : i - 1 \in 0..(L + 1) /\ g[i] = g[i - 1] \o tt[i]
  <2> SUFFICES ASSUME NEW i \in 1..(L + 1)
               PROVE  i - 1 \in 0..(L + 1) /\ g[i] = g[i - 1] \o tt[i]
    OBVIOUS
  <2>1. i - 1 \in 0..(L + 1)
    BY <1>1
  <2>2. g[i - 1] \in Seq(T)
    BY <2>1
  <2>3. step[<<i, g[i - 1]>>] = g[i - 1] \o tt[i]
    BY <2>2
  <2> QED
    BY <2>1, <2>3, <1>5
<1> HIDE DEF step
<1>7. FlattenSeq(tt) = g[L + 1]
  <2>1. g \in [0..Len(tt) -> Seq(T)] /\ \A i \in 1..Len(tt) : g[i] = g[i - 1] \o tt[i]
    BY <1>1, <1>6
  <2> QED
    BY <1>1, <1>5, <2>1, FlattenIs
<1>8. FlattenSeq(ss) = g[L]
  <2> DEFINE h == [i \in 0..L |-> g[i]]
  <2>1. h \in [0..Len(ss) -> Seq(T)] /\ h[0] = <<>>
    BY <1>1, <1>5
  <2>2. \A i \in 1..Len(ss) : h[i] = h[i - 1] \o ss[i]
    <3> SUFFICES ASSUME NEW i \in 1..L PROVE h[i] = h[i - 1] \o ss[i]
      OBVIOUS
    <3>1. i \in 1..(L + 1) /\ i \in 0..L /\ i - 1 \in 0..L
      BY <1>1
    <3>2. g[i] = g[i - 1] \o tt[i] /\ tt[i] = ss[i]
      BY <1>1, <1>6, <3>1
    <3> QED
      BY <3>1, <3>2
  <2>3. h[Len(ss)] = g[L]
    BY <1>1
  <2> HIDE DEF h
  <2> QED
    BY <2>1, <2>2, <2>3, FlattenIs
<1>9. g[L + 1] = g[L] \o s /\ g[L] \in Seq(T)
  <2>1. L + 1 \in 1..(L + 1) /\ (L + 1) - 1 = L /\ L \in 0..(L + 1)
    BY <1>1
  <2> QED
    BY <1>1, <1>6, <2>1
<1>10. FlattenSeq(<<>>) = <<>>
  BY EmptySeq DEF FlattenSeq
<1> QED
  BY <1>7, <1>8, <1>9, <1>10 DEF tt

-----------------------------------------------------------------------------
(* The answer: definitions                                                    *)

RunEvents == [kind : Kinds, n : Nat]
             \cup [kind : {"result"}, status : {"completed", "failed", "cancelled"}, output : BOOLEAN]

Starting == {"load", "serve", "auth", "decode", "resolve", "route", "queue", "options", "execute",
             "launched"}
Answering == {"lead", "stream", "collect", "answered"}

\* What the handler has taken from the channel, the frames it makes of that in a
\* stream, and what it keeps of it otherwise.
Before(s, c) == SubSeq(s, 1, Len(s) - Len(c))
Taken        == Before(sent, chan)

FramesOf(api, events) == FlattenSeq([i \in DOMAIN events |-> Frames(api, events[i])])

Collected(events) ==
  IF Len(events) <= CollectCap THEN events
  ELSE SubSeq(events, 1, CollectCap) \o If(IsResult(Last(events)), <<Last(events)>>)

ChannelTypes == /\ chan \in Seq(RunEvents) /\ sent \in Seq(RunEvents) /\ emitted \in Nat
                /\ pc \notin {"load", "serve", "exited"} => ask \in Asks

\* Nothing has been sent before the CLI runs, and nothing comes after its result.
NotYet == /\ pc \in Starting \cup {"refused", "exited"} => run = "none"
          /\ run = "none" => chan = <<>> /\ sent = <<>>
          /\ pc \in Starting => wire = <<>> /\ got = <<>>
ResultIsLast ==
  \A i \in DOMAIN sent : IsResult(sent[i]) => i = Len(sent) /\ run \in {"ended", "closed"}

InOrder == pc \in Answering => Len(chan) <= Len(sent) /\ sent = Taken \o chan

AnswerSoFar ==
  /\ pc \in {"lead", "collect"} => wire = <<>>
  /\ pc = "lead" => Taken = <<>> /\ ask.stream
  /\ pc = "stream" => ask.stream /\ (client = "here" => wire = LeadFrames(ask.api) \o FramesOf(ask.api, Taken))
  /\ pc = "collect" => ~ask.stream /\ got = Collected(Taken)
  /\ pc = "answered" => chan = <<>> /\ run = "closed"
  /\ pc = "answered" /\ client = "here" =>
       IF ask.stream THEN wire = (LeadFrames(ask.api) \o FramesOf(ask.api, sent)) \o LastFrames(ask.api)
       ELSE got = Collected(sent) /\ wire = <<Piece(ask.api, got)>>

ChannelInv == ChannelTypes /\ NotYet /\ ResultIsLast /\ InOrder
AnswerInv  == ChannelInv /\ AnswerSoFar

-----------------------------------------------------------------------------
(* The answer: the operators                                                  *)

\* Of a sequence and what comes at its end: one more taken from the end, or one
\* more put into both.
LEMMA TakeOne ==
  ASSUME NEW T, NEW s \in Seq(T), NEW c \in Seq(T), Len(c) <= Len(s), s = Before(s, c) \o c
  PROVE  /\ Before(s, c) \in Seq(T)
         /\ c # <<>> =>
              /\ Len(Tail(c)) <= Len(s)
              /\ Before(s, Tail(c)) = Append(Before(s, c), Head(c))
              /\ s = Before(s, Tail(c)) \o Tail(c)
              /\ Head(c) = s[Len(s) - Len(c) + 1]
<1> DEFINE k == Len(s) - Len(c)
           t == SubSeq(s, 1, k)
<1>0. s = t \o c
  BY DEF Before
<1>1. k \in Nat /\ Len(c) \in Nat /\ Len(s) \in Nat /\ k <= Len(s)
  BY LenProperties
<1>2. t \in Seq(T) /\ Len(t) = k /\ \A i \in 1..k : t[i] = s[i]
  BY <1>1, SubSeqProperties, ElementOfSeq
<1> HIDE DEF t
<1>3. ASSUME c # <<>>
      PROVE  /\ Len(Tail(c)) <= Len(s)
             /\ SubSeq(s, 1, Len(s) - Len(Tail(c))) = Append(t, Head(c))
             /\ s = SubSeq(s, 1, Len(s) - Len(Tail(c))) \o Tail(c)
             /\ Head(c) = s[k + 1]
  <2>1. Head(c) \in T /\ Tail(c) \in Seq(T) /\ Len(Tail(c)) = Len(c) - 1 /\ Len(c) > 0 /\ Head(c) = c[1]
    BY <1>3
  <2>2. s[k + 1] = c[1]
    <3>1. k + 1 \in 1..(Len(t) + Len(c)) /\ ~(k + 1 <= Len(t)) /\ (k + 1) - Len(t) = 1
      BY <1>1, <1>2, <2>1
    <3> HIDE DEF k
    <3>2. (t \o c)[k + 1] = c[1]
      BY <1>2, <3>1, ConcatProperties
    <3> QED
      BY <1>0, <3>2
  <2>3. Len(s) - Len(Tail(c)) = k + 1 /\ k + 1 \in 1..Len(s)
    BY <1>1, <2>1
  <2>4. SubSeq(s, 1, k + 1) = SubSeq(s, 1, (k + 1) - 1) \o <<s[k + 1]>>
    <3>1. 1 \in 1..Len(s) /\ k + 1 \in 1..Len(s)
      BY <1>1, <2>3
    <3> QED
      BY <3>1, SubSeqRecursiveSecond
  <2>5. SubSeq(s, 1, k + 1) = Append(t, Head(c))
    <3>1. (k + 1) - 1 = k
      BY <1>1
    <3> HIDE DEF k
    <3>2. SubSeq(s, 1, k + 1) = t \o <<Head(c)>>
      BY <2>1, <2>2, <2>4, <3>1 DEF t
    <3> QED
      BY <1>2, <2>1, <3>2, AppendIsConcat
  <2>6. Append(t, Head(c)) \o Tail(c) = t \o c
    <3>1. c = <<Head(c)>> \o Tail(c)
      <4>1. 1 \in 1..Len(c) /\ Len(c) \in 1..Len(c)
        BY <1>1, <2>1
      <4>2. SubSeq(c, 1, Len(c)) = <<c[1]>> \o SubSeq(c, 1 + 1, Len(c))
        BY <4>1, SubSeqRecursiveFirst
      <4> QED
        BY <1>3, <2>1, <4>2, SubSeqFull, TailIsSubSeq
    <3>2. <<Head(c)>> \in Seq(T) /\ Append(t, Head(c)) = t \o <<Head(c)>>
      BY <1>2, <2>1, AppendIsConcat
    <3>3. (t \o <<Head(c)>>) \o Tail(c) = t \o (<<Head(c)>> \o Tail(c))
      BY <1>2, <2>1, <3>2, ConcatAssociative, SMTT(30)
    <3> QED
      BY <3>1, <3>2, <3>3
  <2>7. Len(Tail(c)) <= Len(s) /\ Head(c) = s[k + 1]
    BY <1>1, <2>1, <2>2
  <2>8. s = SubSeq(s, 1, k + 1) \o Tail(c)
    BY <1>0, <2>5, <2>6
  <2> QED
    BY <2>3, <2>5, <2>7, <2>8
<1> QED
  BY <1>2, <1>3 DEF Before, t

LEMMA PutOne ==
  ASSUME NEW T, NEW s \in Seq(T), NEW c \in Seq(T), Len(c) <= Len(s), s = Before(s, c) \o c,
         NEW e \in T
  PROVE  /\ Len(Append(c, e)) <= Len(Append(s, e))
         /\ Before(Append(s, e), Append(c, e)) = Before(s, c)
         /\ Append(s, e) = Before(s, c) \o Append(c, e)
<1> DEFINE k == Len(s) - Len(c)
           t == SubSeq(s, 1, k)
<1>0. s = t \o c
  BY DEF Before
<1>1. k \in Nat /\ Len(c) \in Nat /\ Len(s) \in Nat /\ k <= Len(s)
  BY LenProperties
<1>2. t \in Seq(T) /\ Len(t) = k /\ \A i \in 1..k : t[i] = s[i]
  BY <1>1, SubSeqProperties, ElementOfSeq
<1> HIDE DEF t
<1>3. /\ Len(Append(c, e)) <= Len(Append(s, e))
      /\ SubSeq(Append(s, e), 1, Len(Append(s, e)) - Len(Append(c, e))) = t
      /\ Append(s, e) = t \o Append(c, e)
  <2>1. Len(Append(c, e)) = Len(c) + 1 /\ Len(Append(s, e)) = Len(s) + 1 /\ Append(s, e) \in Seq(T)
    BY AppendProperties
  <2>2. Append(s, e) = t \o Append(c, e)
    <3>1. <<e>> \in Seq(T) /\ Append(s, e) = s \o <<e>> /\ Append(c, e) = c \o <<e>>
      BY AppendIsConcat
    <3>2. (t \o c) \o <<e>> = t \o (c \o <<e>>)
      <4>1. t \in Seq(T) /\ c \in Seq(T) /\ <<e>> \in Seq(T)
        BY <1>2, <3>1
      <4> QED
        BY ONLY <4>1, ConcatAssociative
    <3> QED
      BY <1>0, <3>1, <3>2
  <2>3. Len(Append(s, e)) - Len(Append(c, e)) = k
    BY <1>1, <2>1
  <2>4. SubSeq(Append(s, e), 1, k) = t
    <3>1. \A i \in 1..k : Append(s, e)[i] = s[i] /\ s[i] \in T
      BY <1>1, AppendProperties, ElementOfSeq
    <3>2. /\ SubSeq(Append(s, e), 1, k) \in Seq(T) /\ Len(SubSeq(Append(s, e), 1, k)) = k
          /\ \A i \in 1..k : SubSeq(Append(s, e), 1, k)[i] = s[i]
      BY <1>1, <3>1, SubSeqProperties
    <3> QED
      BY <1>2, <3>2, SeqEqual
  <2>5. Len(Append(c, e)) <= Len(Append(s, e))
    BY <1>1, <2>1
  <2> QED
    BY <2>2, <2>3, <2>4, <2>5
<1> QED
  BY <1>3 DEF Before, t

LEMMA OfKindsAppend ==
  ASSUME NEW E, NEW s \in Seq(E), NEW e \in E, NEW kinds
  PROVE  /\ OfKinds(<<>>, kinds) = <<>>
         /\ OfKinds(s, kinds) \in Seq(E)
         /\ OfKinds(Append(s, e), kinds) = OfKinds(s, kinds) \o If(e.kind \in kinds, <<e>>)
<1> DEFINE pick(x) == If(x.kind \in kinds, <<x>>)
           mapped(q) == [i \in DOMAIN q |-> pick(q[i])]
<1>1. \A x \in E : pick(x) \in Seq(E)
  BY DEF If
<1> HIDE DEF pick
<1>2. mapped(s) \in Seq(Seq(E)) /\ mapped(<<>>) = <<>>
  <2>1. Len(s) \in Nat /\ DOMAIN s = 1..Len(s) /\ \A i \in 1..Len(s) : s[i] \in E
    BY LenProperties
  <2>2. mapped(s) \in [1..Len(s) -> Seq(E)]
    BY <2>1, <1>1
  <2> QED
    BY <2>1, <2>2
<1>3. mapped(Append(s, e)) = Append(mapped(s), pick(e))
  BY <1>1
<1>4. /\ FlattenSeq(<<>>) = <<>> /\ FlattenSeq(mapped(s)) \in Seq(E)
      /\ FlattenSeq(Append(mapped(s), pick(e))) = FlattenSeq(mapped(s)) \o pick(e)
  BY <1>1, <1>2, FlattenAppend
<1> QED
  BY <1>2, <1>3, <1>4 DEF OfKinds, pick

Apis        == {"native", "openai", "anthropic"}
ShownFrames == [frame : {"event", "chunk", "delta"}, of : RunEvents]

LEMMA FramesTypes ==
  ASSUME NEW api \in Apis, NEW e \in RunEvents
  PROVE  /\ Frames(api, e) \in Seq(ShownFrames)
         /\ e.kind \in Shows(api) => Frames(api, e) # <<>> /\ Len(Frames(api, e)) = 1 /\ Frames(api, e)[1].of = e
         /\ e.kind \notin Shows(api) => Frames(api, e) = <<>>
<1>1. e.kind \in Kinds \cup {"result"}
  BY DEF RunEvents
<1> DEFINE f(name) == [frame |-> name, of |-> e]
<1>2. \A name \in {"event", "chunk", "delta"} :
        /\ f(name) \in ShownFrames /\ <<f(name)>> \in Seq(ShownFrames)
        /\ <<f(name)>> # <<>> /\ Len(<<f(name)>>) = 1 /\ <<f(name)>>[1].of = e
  <2> SUFFICES ASSUME NEW name \in {"event", "chunk", "delta"}
               PROVE  /\ f(name) \in ShownFrames /\ <<f(name)>> \in Seq(ShownFrames)
                      /\ <<f(name)>> # <<>> /\ Len(<<f(name)>>) = 1 /\ <<f(name)>>[1].of = e
    OBVIOUS
  <2>1. f(name) \in ShownFrames /\ f(name).of = e
    BY DEF ShownFrames
  <2> HIDE DEF f
  <2> QED
    BY <2>1
<1>3. <<>> \in Seq(ShownFrames)
  BY EmptySeq
<1>4. CASE api = "native"
  BY <1>1, <1>2, <1>4 DEF Frames, NativeFrames, Shows
<1>5. CASE api = "openai"
  BY <1>2, <1>3, <1>5 DEF Frames, OpenAIFrames, Shows
<1>6. CASE api = "anthropic"
  BY <1>2, <1>3, <1>6 DEF Frames, AnthropicFrames, Shows
<1> QED
  BY <1>4, <1>5, <1>6 DEF Apis

LEMMA FramesAppend ==
  ASSUME NEW api \in Apis, NEW s \in Seq(RunEvents), NEW e \in RunEvents
  PROVE  /\ FramesOf(api, <<>>) = <<>>
         /\ FramesOf(api, s) \in Seq(ShownFrames)
         /\ FramesOf(api, Append(s, e)) = FramesOf(api, s) \o Frames(api, e)
<1> DEFINE mapped(q) == [i \in DOMAIN q |-> Frames(api, q[i])]
<1>1. \A x \in RunEvents : Frames(api, x) \in Seq(ShownFrames)
  BY FramesTypes
<1>2. mapped(s) \in Seq(Seq(ShownFrames)) /\ mapped(<<>>) = <<>>
  <2>1. Len(s) \in Nat /\ DOMAIN s = 1..Len(s) /\ \A i \in 1..Len(s) : s[i] \in RunEvents
    BY LenProperties
  <2>2. mapped(s) \in [1..Len(s) -> Seq(ShownFrames)]
    BY <2>1, <1>1
  <2> QED
    BY <2>1, <2>2
<1>3. mapped(Append(s, e)) = Append(mapped(s), Frames(api, e))
  OBVIOUS
<1>4. /\ FlattenSeq(<<>>) = <<>> /\ FlattenSeq(mapped(s)) \in Seq(ShownFrames)
      /\ FlattenSeq(Append(mapped(s), Frames(api, e))) = FlattenSeq(mapped(s)) \o Frames(api, e)
  BY <1>1, <1>2, FlattenAppend
<1> QED
  BY <1>2, <1>3, <1>4 DEF FramesOf

LEMMA FramesShow ==
  ASSUME NEW api \in Apis, NEW events \in Seq(RunEvents)
  PROVE  LET F == FramesOf(api, events)
         IN  F \in Seq(ShownFrames) /\ [i \in DOMAIN F |-> F[i].of] = OfKinds(events, Shows(api))
<1> DEFINE of(F) == [i \in DOMAIN F |-> F[i].of]
           S == {s \in Seq(RunEvents) : of(FramesOf(api, s)) = OfKinds(s, Shows(api))}
<1>0. PICK any \in RunEvents : TRUE
  <2>1. [kind |-> "text", n |-> 0] \in RunEvents
    BY DEF RunEvents, Kinds
  <2> QED
    BY <2>1
<1>1. <<>> \in S
  <2>1. FramesOf(api, <<>>) = <<>> /\ OfKinds(<<>>, Shows(api)) = <<>> /\ <<>> \in Seq(RunEvents)
    BY <1>0, EmptySeq, FramesAppend, OfKindsAppend
  <2>2. of(<<>>) = <<>>
    OBVIOUS
  <2> HIDE DEF of
  <2> QED
    BY <2>1, <2>2
<1>2. ASSUME NEW s \in Seq(RunEvents), NEW e \in RunEvents, s \in S
      PROVE  Append(s, e) \in S
  <2> DEFINE F == FramesOf(api, s)
  <2>1. F \in Seq(ShownFrames) /\ FramesOf(api, Append(s, e)) = F \o Frames(api, e)
    BY FramesAppend, ZenonT(40)
  <2>2. /\ OfKinds(Append(s, e), Shows(api)) = OfKinds(s, Shows(api)) \o If(e.kind \in Shows(api), <<e>>)
        /\ OfKinds(s, Shows(api)) \in Seq(RunEvents)
    BY OfKindsAppend, ZenonT(40)
  <2>3. /\ Frames(api, e) \in Seq(ShownFrames)
        /\ e.kind \in Shows(api) => Len(Frames(api, e)) = 1 /\ Frames(api, e)[1].of = e
        /\ e.kind \notin Shows(api) => Frames(api, e) = <<>>
    BY FramesTypes
  <2>4. of(F) = OfKinds(s, Shows(api))
    BY <1>2
  <2>5. Append(s, e) \in Seq(RunEvents)
    BY AppendProperties
  <2> HIDE DEF F
  <2>6. of(F \o Frames(api, e)) = of(F) \o If(e.kind \in Shows(api), <<e>>)
    <3>1. CASE e.kind \in Shows(api)
      <4>1. If(e.kind \in Shows(api), <<e>>) = <<e>>
        BY <3>1 DEF If
      <4>2. /\ Len(F \o Frames(api, e)) = Len(F) + 1 /\ DOMAIN (F \o Frames(api, e)) = 1..(Len(F) + 1)
            /\ (F \o Frames(api, e))[Len(F) + 1] = Frames(api, e)[1]
            /\ \A i \in 1..Len(F) : (F \o Frames(api, e))[i] = F[i]
            /\ Len(F) \in Nat /\ DOMAIN F = 1..Len(F)
        <5>1. F \o Frames(api, e) \in Seq(ShownFrames) /\ Len(F \o Frames(api, e)) = Len(F) + Len(Frames(api, e))
          BY <2>1, <2>3, ConcatProperties
        <5>2. \A i \in 1..(Len(F) + Len(Frames(api, e))) :
                (F \o Frames(api, e))[i] = IF i <= Len(F) THEN F[i] ELSE Frames(api, e)[i - Len(F)]
          BY <2>1, <2>3, ConcatProperties
        <5>3. /\ Len(F) \in Nat /\ DOMAIN F = 1..Len(F) /\ Len(Frames(api, e)) = 1
              /\ DOMAIN (F \o Frames(api, e)) = 1..Len(F \o Frames(api, e))
          BY <2>1, <2>3, <3>1, <5>1, LenProperties
        <5>4. (Len(F) + 1) - Len(F) = 1 /\ ~(Len(F) + 1 <= Len(F)) /\ Len(F) + 1 \in 1..(Len(F) + 1)
          BY <5>3
        <5> QED
          BY <5>1, <5>2, <5>3, <5>4
      <4>3. of(F) = [i \in 1..Len(F) |-> F[i].of] /\ of(F) \in Seq({F[i].of : i \in 1..Len(F)})
        BY <4>2
      <4>4. of(F) \o <<e>> = [i \in 1..(Len(F) + 1) |-> IF i = Len(F) + 1 THEN e ELSE F[i].of]
        BY <4>2, <4>3
      <4>5. of(F \o Frames(api, e)) = [i \in 1..(Len(F) + 1) |-> IF i = Len(F) + 1 THEN e ELSE F[i].of]
        BY <4>2, <2>3, <3>1
      <4> QED
        BY <4>1, <4>4, <4>5
    <3>2. CASE e.kind \notin Shows(api)
      <4>1. If(e.kind \in Shows(api), <<e>>) = <<>> /\ F \o Frames(api, e) = F
        BY <2>1, <2>3, <3>2, ConcatEmptySeq DEF If
      <4>2. of(F) \o <<>> = of(F)
        BY <2>2, <2>4, ConcatEmptySeq
      <4> QED
        BY <4>1, <4>2
    <3> QED
      BY <3>1, <3>2
  <2> QED
    BY <2>1, <2>2, <2>4, <2>5, <2>6
<1>3. Seq(RunEvents) \subseteq S
  <2> HIDE DEF S
  <2> QED
    BY <1>1, <1>2, SeqSetInduction
<1>4. FramesOf(api, events) \in Seq(ShownFrames)
  BY <1>0, FramesAppend
<1> QED
  BY <1>3, <1>4

-----------------------------------------------------------------------------
(* The answer: the invariant                                                  *)

\* What is decided before the run.
Deciding ==
  \/ \E files \in Files, env \in Environments : StartDaemon(files, env)
  \/ \E a \in Asks : Arrive(a)
  \/ Authenticate \/ Decode \/ Resolve \/ FindAdapter
  \/ Acquire \/ QueueTimeout \/ CancelledWhileQueued
  \/ BuildExecOptions \/ StubFails \/ Launch \/ ExecuteFails

LEMMA DecidingStep ==
  ASSUME Deciding
  PROVE  /\ pc \in Starting /\ pc' \in Starting \cup {"refused", "exited"}
         /\ UNCHANGED <<run, chan, sent, emitted, got>>
         /\ pc' \in Starting => wire' = wire
         /\ \/ pc' \in {"load", "serve", "exited"}
            \/ pc = "serve" /\ ask' \in Asks
            \/ pc \notin {"load", "serve"} /\ ask' = ask
<1> USE DEF Starting, startVars, routeVars, launchVars, runVars, answerVars, requestLeaves,
            executeLeaves, Proceed, Refuse
<1>1. CASE \E files \in Files, env \in Environments : StartDaemon(files, env)
  <2>1. PICK files \in Files, env \in Environments : StartDaemon(files, env)
    BY <1>1
  <2>2. /\ pc = "load" /\ pc' \in {"serve", "exited"} /\ ask' = ask
        /\ UNCHANGED <<run, chan, sent, emitted, got, wire>>
    BY <2>1 DEF StartDaemon
  <2> QED
    BY <2>2
<1>2. CASE \E a \in Asks : Arrive(a)
  <2>1. PICK a \in Asks : Arrive(a)
    BY <1>2
  <2>2. /\ pc = "serve" /\ pc' = "auth" /\ ask' = a
        /\ UNCHANGED <<run, chan, sent, emitted, got, wire>>
    BY <2>1 DEF Arrive
  <2> QED
    BY <2>2
<1>3. CASE Authenticate
  <2>1. /\ pc = "auth" /\ pc' \in {"decode", "refused"} /\ ask' = ask
        /\ UNCHANGED <<run, chan, sent, emitted, got>> /\ (pc' = "decode" => wire' = wire)
    BY <1>3 DEF Authenticate
  <2> QED
    BY <2>1
<1>4. CASE Decode
  BY <1>4 DEF Decode
<1>5. CASE Resolve
  BY <1>5 DEF Resolve
<1>6. CASE FindAdapter
  BY <1>6 DEF FindAdapter
<1>7. CASE Acquire
  BY <1>7 DEF Acquire
<1>8. CASE QueueTimeout
  BY <1>8 DEF QueueTimeout
<1>9. CASE CancelledWhileQueued
  BY <1>9 DEF CancelledWhileQueued
<1>10. CASE BuildExecOptions
  BY <1>10 DEF BuildExecOptions
<1>11. CASE StubFails
  BY <1>11 DEF StubFails
<1>12. CASE Launch
  BY <1>12 DEF Launch
<1>13. CASE ExecuteFails
  BY <1>13 DEF ExecuteFails
<1> QED
  BY <1>1, <1>2, <1>3, <1>4, <1>5, <1>6, <1>7, <1>8, <1>9, <1>10, <1>11, <1>12, <1>13 DEF Deciding

LEMMA AnswerInit ==
  ASSUME Init
  PROVE  AnswerInv
<1>1. <<>> \in Seq(RunEvents)
  BY EmptySeq
<1> QED
  BY <1>1 DEF Init, AnswerInv, ChannelInv, ChannelTypes, NotYet, ResultIsLast, InOrder, AnswerSoFar,
              Answering, Starting

\* An event that goes into the channel, or is dropped.
LEMMA ChannelPut ==
  ASSUME ChannelInv, NEW e \in RunEvents, run = "running",
         IsResult(e) => run' = "ended",
         run' \in {"running", "ended"}, emitted' \in Nat, UNCHANGED <<pc, ask, wire, got>>,
         \/ chan' = Append(chan, e) /\ sent' = Append(sent, e)
         \/ UNCHANGED <<chan, sent>>
  PROVE  ChannelInv' /\ (pc \in Answering => Taken' = Taken)
<1>1. chan \in Seq(RunEvents) /\ sent \in Seq(RunEvents)
  BY DEF ChannelInv, ChannelTypes
<1>2. Append(chan, e) \in Seq(RunEvents) /\ Append(sent, e) \in Seq(RunEvents)
  BY <1>1, AppendProperties
<1>3. ChannelTypes' /\ NotYet'
  BY <1>1, <1>2 DEF ChannelInv, ChannelTypes, NotYet
<1>4. ResultIsLast'
  <2>1. \A i \in DOMAIN sent : ~IsResult(sent[i])
    BY DEF ChannelInv, ResultIsLast
  <2>2. CASE sent' = sent
    BY <2>1, <2>2 DEF ResultIsLast
  <2>3. CASE sent' = Append(sent, e)
    <3>1. SUFFICES ASSUME NEW i \in DOMAIN sent', IsResult(sent'[i])
                   PROVE  i = Len(sent') /\ run' \in {"ended", "closed"}
      BY DEF ResultIsLast
    <3>2. Len(sent) \in Nat /\ DOMAIN sent = 1..Len(sent) /\ DOMAIN sent' = 1..(Len(sent) + 1)
          /\ Len(sent') = Len(sent) + 1
      BY <1>1, <1>2, <2>3, AppendProperties, LenProperties
    <3>3. CASE i = Len(sent) + 1
      <4>1. sent'[i] = e
        BY <1>1, <2>3, <3>3, AppendProperties
      <4> QED
        BY <3>1, <3>2, <3>3, <4>1
    <3>4. CASE i # Len(sent) + 1
      <4>1. i \in 1..Len(sent) /\ sent'[i] = sent[i]
        <5>1. i \in 1..Len(sent)
          BY <3>1, <3>2, <3>4
        <5> QED
          BY <1>1, <2>3, <5>1, AppendProperties
      <4> QED
        BY <2>1, <3>1, <3>2, <4>1
    <3> QED
      BY <3>3, <3>4
  <2> QED
    BY <2>2, <2>3
<1>5. pc \in Answering => InOrder' /\ Taken' = Taken
  <2> SUFFICES ASSUME pc \in Answering PROVE InOrder' /\ Taken' = Taken
    OBVIOUS
  <2>1. Len(chan) <= Len(sent) /\ sent = Before(sent, chan) \o chan
    BY DEF ChannelInv, InOrder, Taken
  <2>2. CASE UNCHANGED <<chan, sent>>
    BY <2>1, <2>2 DEF InOrder, Taken
  <2>3. CASE chan' = Append(chan, e) /\ sent' = Append(sent, e)
    <3>1. /\ Len(Append(chan, e)) <= Len(Append(sent, e))
          /\ Before(Append(sent, e), Append(chan, e)) = Before(sent, chan)
          /\ Append(sent, e) = Before(sent, chan) \o Append(chan, e)
      <4>1. chan \in Seq(RunEvents) /\ sent \in Seq(RunEvents) /\ e \in RunEvents
        BY <1>1
      <4> QED
        BY ONLY <4>1, <2>1, PutOne, ZenonT(40)
    <3> QED
      BY <2>3, <3>1 DEF InOrder, Taken
  <2> QED
    BY <2>2, <2>3
<1>6. pc \notin Answering => InOrder'
  BY DEF InOrder
<1> QED
  BY <1>3, <1>4, <1>5, <1>6 DEF ChannelInv

\* An event that is taken from the channel.
LEMMA ChannelTake ==
  ASSUME ChannelInv, pc \in Answering, chan # <<>>, chan' = Tail(chan),
         UNCHANGED <<pc, ask, run, emitted, sent>>
  PROVE  /\ ChannelInv'
         /\ Taken \in Seq(RunEvents) /\ Head(chan) \in RunEvents
         /\ Taken' = Append(Taken, Head(chan))
         /\ \A i \in DOMAIN Taken : ~IsResult(Taken[i])
<1>1. /\ chan \in Seq(RunEvents) /\ sent \in Seq(RunEvents)
      /\ Len(chan) <= Len(sent) /\ sent = Before(sent, chan) \o chan
  BY DEF ChannelInv, ChannelTypes, InOrder, Taken
<1>2. /\ Before(sent, chan) \in Seq(RunEvents)
      /\ Len(Tail(chan)) <= Len(sent)
      /\ Before(sent, Tail(chan)) = Append(Before(sent, chan), Head(chan))
      /\ sent = Before(sent, Tail(chan)) \o Tail(chan)
  BY <1>1, TakeOne
<1>3. InOrder' /\ Taken \in Seq(RunEvents) /\ Taken' = Append(Taken, Head(chan))
  BY <1>2 DEF InOrder, Taken
<1>4. Tail(chan) \in Seq(RunEvents) /\ Head(chan) \in RunEvents
  BY <1>1, HeadTailProperties
<1>5. ChannelTypes' /\ ResultIsLast'
  BY <1>4 DEF ChannelInv, ChannelTypes, ResultIsLast
<1>6. NotYet'
  BY DEF ChannelInv, NotYet, Answering, Starting
<1>7. \A i \in DOMAIN Taken : ~IsResult(Taken[i])
  <2>1. Len(chan) \in Nat \ {0} /\ Len(sent) \in Nat /\ DOMAIN sent = 1..Len(sent)
    BY <1>1, EmptySeq, LenProperties
  <2>2. \A i \in 1..(Len(sent) - Len(chan)) : sent[i] \in RunEvents
    BY <1>1, <2>1, ElementOfSeq
  <2>3. /\ Len(Taken) = Len(sent) - Len(chan) /\ DOMAIN Taken = 1..Len(Taken)
        /\ \A i \in 1..(Len(sent) - Len(chan)) : Taken[i] = sent[i]
    BY <1>1, <1>3, <2>1, <2>2, SubSeqProperties, LenProperties DEF Taken, Before
  <2>4. \A i \in DOMAIN Taken : i \in DOMAIN sent /\ i # Len(sent) /\ Taken[i] = sent[i]
    BY <2>1, <2>3
  <2> QED
    BY <2>4 DEF ChannelInv, ResultIsLast
<1> QED
  BY <1>3, <1>4, <1>5, <1>6, <1>7 DEF ChannelInv

MarkNames == {"role", "message_start", "content_block_start", "stop", "[DONE]",
              "content_block_stop", "message_delta", "message_stop"}
AllFrames == [frame : MarkNames] \cup ShownFrames

LEMMA MarksTypes ==
  ASSUME NEW api \in Apis
  PROVE  LeadFrames(api) \in Seq(AllFrames) /\ LastFrames(api) \in Seq(AllFrames)
<1>1. ASSUME NEW names \in Seq(MarkNames)
      PROVE  Marks(names) \in Seq(AllFrames)
  <2>1. /\ Len(names) \in Nat /\ DOMAIN names = 1..Len(names)
        /\ \A i \in 1..Len(names) : [frame |-> names[i]] \in AllFrames
    BY LenProperties DEF AllFrames
  <2>2. Marks(names) \in [1..Len(names) -> AllFrames]
    BY <2>1 DEF Marks
  <2> QED
    BY <2>1, <2>2
<1>2. /\ <<"role">> \in Seq(MarkNames)
      /\ <<"message_start", "content_block_start">> \in Seq(MarkNames)
      /\ <<"stop", "[DONE]">> \in Seq(MarkNames)
      /\ <<"content_block_stop", "message_delta", "message_stop">> \in Seq(MarkNames)
  BY DEF MarkNames
<1>3. <<>> \in Seq(AllFrames)
  BY EmptySeq
<1>4. CASE api = "native"
  BY <1>3, <1>4 DEF LeadFrames, LastFrames
<1>5. CASE api = "openai"
  BY <1>1, <1>2, <1>5 DEF LeadFrames, LastFrames
<1>6. CASE api = "anthropic"
  BY <1>1, <1>2, <1>6 DEF LeadFrames, LastFrames
<1> QED
  BY <1>4, <1>5, <1>6 DEF Apis

LEMMA CollectedAppend ==
  ASSUME NEW events \in Seq(RunEvents), NEW e \in RunEvents,
         \A i \in DOMAIN events : ~IsResult(events[i])
  PROVE  /\ Collected(<<>>) = <<>>
         /\ Len(Collected(events)) < CollectCap \/ IsResult(e) =>
              Collected(Append(events, e)) = Append(Collected(events), e)
         /\ ~(Len(Collected(events)) < CollectCap \/ IsResult(e)) =>
              Collected(Append(events, e)) = Collected(events)
<1> DEFINE n   == Len(events)
           all == Append(events, e)
<1>1. n \in Nat /\ DOMAIN events = 1..n /\ CollectCap \in Nat /\ \A i \in 1..n : events[i] \in RunEvents
  BY RequestAssumption, LenProperties
<1>2. /\ all \in Seq(RunEvents) /\ Len(all) = n + 1 /\ all[n + 1] = e
      /\ \A i \in 1..n : all[i] = events[i]
  BY AppendProperties
<1>3. Last(all) = e /\ (n > 0 => ~IsResult(Last(events)))
  BY <1>1, <1>2 DEF Last
<1>4. Collected(<<>>) = <<>>
  BY <1>1, EmptySeq DEF Collected
<1> HIDE DEF all
<1>5. CASE n < CollectCap
  <2>1. Collected(events) = events /\ Len(all) <= CollectCap /\ n <= CollectCap
    BY <1>1, <1>2, <1>5 DEF Collected
  <2> QED
    BY <1>4, <1>5, <2>1 DEF Collected, all
<1>6. CASE n >= CollectCap
  <2> DEFINE first == SubSeq(events, 1, CollectCap)
  <2>1. first \in Seq(RunEvents) /\ Len(first) = CollectCap /\ \A i \in 1..CollectCap : first[i] = events[i]
    BY <1>1, <1>6, SubSeqProperties
  <2>2. SubSeq(all, 1, CollectCap) = first
    <3>1. \A i \in 1..CollectCap : all[i] = events[i] /\ all[i] \in RunEvents
      BY <1>1, <1>2, <1>6
    <3>2. /\ SubSeq(all, 1, CollectCap) \in Seq(RunEvents)
          /\ Len(SubSeq(all, 1, CollectCap)) = CollectCap
          /\ \A i \in 1..CollectCap : SubSeq(all, 1, CollectCap)[i] = events[i]
      BY <1>1, <3>1, SubSeqProperties
    <3> HIDE DEF first
    <3> QED
      BY <2>1, <3>2, SeqEqual
  <2>3. Collected(events) = first
    <3>1. CASE n = CollectCap
      BY <1>1, <3>1, SubSeqFull DEF Collected
    <3>2. CASE n # CollectCap
      <4>1. If(IsResult(Last(events)), <<Last(events)>>) = <<>> /\ ~(n <= CollectCap)
        <5>1. n > 0 /\ ~(n <= CollectCap)
          <6>1. n \in Nat /\ CollectCap \in Nat /\ n >= CollectCap /\ n # CollectCap
            BY <1>1, <1>6, <3>2
          <6> HIDE DEF n
          <6> QED
            BY <6>1
        <5> QED
          BY <1>3, <5>1 DEF If
      <4> HIDE DEF first
      <4>2. first \o <<>> = first
        BY <2>1, ConcatEmptySeq
      <4> QED
        BY <4>1, <4>2 DEF Collected, first
    <3> QED
      BY <3>1, <3>2
  <2>4. Collected(all) = first \o If(IsResult(e), <<e>>)
    <3>1. ~(Len(all) <= CollectCap)
      BY <1>1, <1>2, <1>6
    <3> QED
      BY <1>3, <2>2, <3>1 DEF Collected
  <2> HIDE DEF first
  <2>5. ~(Len(Collected(events)) < CollectCap)
    BY <1>1, <2>1, <2>3
  <2>6. CASE IsResult(e)
    <3>1. first \o <<e>> = Append(first, e)
      BY <2>1, AppendIsConcat
    <3> QED
      BY <1>4, <2>3, <2>4, <2>6, <3>1 DEF If, all
  <2>7. CASE ~IsResult(e)
    <3>1. first \o <<>> = first
      BY <2>1, ConcatEmptySeq
    <3> QED
      BY <1>4, <2>3, <2>4, <2>5, <2>7, <3>1 DEF If, all
  <2> QED
    BY <2>6, <2>7
<1> QED
  BY <1>1, <1>5, <1>6

\* What is written in a stream, one event at a time.
LEMMA StreamGrows ==
  ASSUME NEW api \in Apis, NEW s \in Seq(RunEvents), NEW e \in RunEvents
  PROVE  /\ LeadFrames(api) \o FramesOf(api, <<>>) = LeadFrames(api)
         /\ (LeadFrames(api) \o FramesOf(api, s)) \o Frames(api, e)
              = LeadFrames(api) \o FramesOf(api, Append(s, e))
<1>1. LeadFrames(api) \in Seq(AllFrames)
  BY MarksTypes
<1>2. /\ FramesOf(api, <<>>) = <<>> /\ FramesOf(api, s) \in Seq(ShownFrames)
      /\ FramesOf(api, Append(s, e)) = FramesOf(api, s) \o Frames(api, e)
  BY FramesAppend
<1>3. Frames(api, e) \in Seq(ShownFrames)
  BY FramesTypes
<1>4. ShownFrames \subseteq AllFrames
  BY DEF AllFrames
<1>5. FramesOf(api, s) \in Seq(AllFrames) /\ Frames(api, e) \in Seq(AllFrames)
  BY <1>2, <1>3, <1>4, SeqMonotonic
<1>6. LeadFrames(api) \o <<>> = LeadFrames(api)
  BY <1>1, ConcatEmptySeq
<1>7. (LeadFrames(api) \o FramesOf(api, s)) \o Frames(api, e)
        = LeadFrames(api) \o (FramesOf(api, s) \o Frames(api, e))
  BY ONLY <1>1, <1>5, ConcatAssociative, SMTT(30)
<1> QED
  BY <1>2, <1>6, <1>7

LEMMA AllTaken ==
  ASSUME ChannelInv, pc \in Answering, chan = <<>>
  PROVE  Taken = sent
<1>1. sent \in Seq(RunEvents) /\ Len(chan) = 0
  BY EmptySeq DEF ChannelInv, ChannelTypes
<1>2. Len(sent) \in Nat /\ SubSeq(sent, 1, Len(sent)) = sent
  BY <1>1, LenProperties, SubSeqFull
<1>3. Len(sent) - Len(chan) = Len(sent)
  BY <1>1, <1>2
<1> QED
  BY <1>2, <1>3 DEF Taken, Before

\* The forwarder's steps leave the handler's position alone, and the answer with it.
LEMMA AnswerKept ==
  ASSUME AnswerInv, run \in {"running", "ended"}, pc \in Answering => Taken' = Taken,
         UNCHANGED <<pc, ask, wire, got, client>>
  PROVE  AnswerSoFar'
BY DEF AnswerInv, AnswerSoFar, Answering

LEMMA AnswerStep ==
  ASSUME AnswerInv, [Next]_vars
  PROVE  AnswerInv'
<1>0. /\ ChannelInv /\ AnswerSoFar
      /\ chan \in Seq(RunEvents) /\ sent \in Seq(RunEvents) /\ emitted \in Nat
      /\ pc \in Answering => ask \in Asks /\ ask.api \in Apis
  BY RequestAssumption DEF AnswerInv, ChannelInv, ChannelTypes, Answering, Apis
<1> USE DEF handlerLeaves, forwarderLeaves, startVars, routeVars, launchVars, runVars, answerVars
<1>1. CASE Deciding
  <2>1. /\ pc \in Starting /\ pc' \in Starting \cup {"refused", "exited"}
        /\ UNCHANGED <<run, chan, sent, emitted, got>> /\ (pc' \in Starting => wire' = wire)
        /\ \/ pc' \in {"load", "serve", "exited"}
           \/ pc = "serve" /\ ask' \in Asks
           \/ pc \notin {"load", "serve"} /\ ask' = ask
    BY <1>1, DecidingStep
  <2>2. ChannelTypes'
    BY <1>0, <2>1 DEF ChannelInv, ChannelTypes, Starting
  <2>3. NotYet' /\ ResultIsLast'
    BY <1>0, <2>1 DEF ChannelInv, NotYet, ResultIsLast
  <2>4. InOrder' /\ AnswerSoFar'
    BY <2>1 DEF InOrder, AnswerSoFar, Starting, Answering
  <2> QED
    BY <2>2, <2>3, <2>4 DEF AnswerInv, ChannelInv
<1>2. CASE ExecuteReturns
  <2>1. /\ pc = "launched" /\ pc' = IF ask.stream THEN "lead" ELSE "collect"
        /\ run' = "running" /\ UNCHANGED <<ask, emitted, sent, chan, got, wire, client>>
    BY <1>2 DEF ExecuteReturns
  <2>2. chan = <<>> /\ sent = <<>> /\ wire = <<>> /\ got = <<>> /\ ask \in Asks
    BY <1>0, <2>1 DEF ChannelInv, ChannelTypes, NotYet, Starting
  <2>3. ChannelTypes' /\ NotYet' /\ ResultIsLast'
    BY <1>0, <2>1, <2>2 DEF ChannelTypes, NotYet, ResultIsLast, Starting
  <2>4. Taken' = <<>> /\ InOrder'
    <3>1. Len(<<>>) = 0 /\ SubSeq(<<>>, 1, 0) = <<>> /\ <<>> \o <<>> = <<>>
      BY EmptySeq, SubSeqEmpty, ConcatEmptySeq
    <3>2. Taken' = <<>>
      BY <2>1, <2>2, <3>1 DEF Taken, Before
    <3> QED
      BY <2>1, <2>2, <3>1, <3>2 DEF InOrder
  <2>5. Collected(<<>>) = <<>>
    BY RequestAssumption, EmptySeq DEF Collected
  <2>6. AnswerSoFar'
    BY <2>1, <2>2, <2>4, <2>5 DEF AnswerSoFar
  <2> QED
    BY <2>3, <2>4, <2>6 DEF AnswerInv, ChannelInv
<1>3. ASSUME NEW kind \in Kinds, Emit(kind) PROVE AnswerInv'
  <2> DEFINE e == Emission(kind)
  <2>1. e \in RunEvents /\ ~IsResult(e)
    BY <1>0 DEF Emission, RunEvents, IsResult, Kinds
  <2>2. /\ run = "running" /\ run' = run /\ emitted' \in Nat /\ UNCHANGED <<pc, ask, wire, got, client>>
        /\ \/ chan' = Append(chan, e) /\ sent' = Append(sent, e)
           \/ UNCHANGED <<chan, sent>>
    BY <1>0, <1>3 DEF Emit
  <2> HIDE DEF e
  <2>3. ChannelInv' /\ (pc \in Answering => Taken' = Taken)
    BY <1>0, <2>1, <2>2, ChannelPut
  <2> QED
    BY <2>2, <2>3, AnswerKept DEF AnswerInv
<1>4. ASSUME NEW s \in {"completed", "failed", "cancelled"}, NEW output \in BOOLEAN,
             SendResult(s, output)
      PROVE  AnswerInv'
  <2> DEFINE e == ResultEvent(s, output)
  <2>1. e \in RunEvents
    BY DEF ResultEvent, RunEvents
  <2>2. /\ run = "running" /\ run' = "ended" /\ emitted' = emitted
        /\ UNCHANGED <<pc, ask, wire, got, client>>
        /\ \/ chan' = Append(chan, e) /\ sent' = Append(sent, e)
           \/ UNCHANGED <<chan, sent>>
    BY <1>4 DEF SendResult
  <2> HIDE DEF e
  <2>3. ChannelInv' /\ (pc \in Answering => Taken' = Taken)
    BY <1>0, <2>1, <2>2, ChannelPut
  <2> QED
    BY <2>2, <2>3, AnswerKept DEF AnswerInv
<1>5. CASE CloseEvents
  <2>1. run = "ended" /\ run' = "closed" /\ UNCHANGED <<emitted, sent, chan, pc, ask, wire, got, client>>
    BY <1>5 DEF CloseEvents
  <2>2. ChannelTypes' /\ NotYet' /\ ResultIsLast' /\ InOrder' /\ Taken' = Taken
    BY <1>0, <2>1 DEF ChannelInv, ChannelTypes, NotYet, ResultIsLast, InOrder, Taken, Before
  <2>3. AnswerSoFar'
    BY <2>1, <2>2, AnswerKept
  <2> QED
    BY <2>2, <2>3 DEF AnswerInv, ChannelInv
<1>6. CASE Lead
  <2>1. /\ pc = "lead" /\ pc' = "stream" /\ UNCHANGED <<ask, run, emitted, sent, chan, got, client>>
        /\ wire' = IF client = "here" THEN wire \o LeadFrames(ask.api) ELSE wire
    BY <1>6 DEF Lead, Write
  <2>2. wire = <<>> /\ Taken = <<>> /\ ask.stream /\ ask \in Asks /\ ask.api \in Apis
    BY <1>0, <2>1 DEF AnswerSoFar, Answering
  <2>3. ChannelInv' /\ Taken' = Taken
    BY <1>0, <2>1 DEF ChannelInv, ChannelTypes, NotYet, ResultIsLast, InOrder, Taken, Before,
                      Starting, Answering
  <2>4. /\ <<>> \o LeadFrames(ask.api) = LeadFrames(ask.api)
        /\ LeadFrames(ask.api) \o FramesOf(ask.api, <<>>) = LeadFrames(ask.api)
    <3>1. PICK any \in RunEvents : TRUE
      <4>1. [kind |-> "text", n |-> 0] \in RunEvents
        BY DEF RunEvents, Kinds
      <4> QED
        BY <4>1
    <3>2. <<>> \in Seq(RunEvents)
      BY EmptySeq
    <3> QED
      BY <2>2, <3>1, <3>2, MarksTypes, ConcatEmptySeq, StreamGrows
  <2>5. AnswerSoFar'
    BY <2>1, <2>2, <2>3, <2>4 DEF AnswerSoFar
  <2> QED
    BY <2>3, <2>5 DEF AnswerInv
<1>7. CASE StreamEvent
  <2> DEFINE e == Head(chan)
  <2>1. /\ pc = "stream" /\ chan # <<>> /\ chan' = Tail(chan)
        /\ UNCHANGED <<pc, ask, run, emitted, sent, got, client>>
        /\ wire' = IF client = "here" THEN wire \o Frames(ask.api, e) ELSE wire
    BY <1>7 DEF StreamEvent, Write
  <2>2. pc \in Answering
    BY <2>1 DEF Answering
  <2>3. /\ ChannelInv' /\ Taken \in Seq(RunEvents) /\ e \in RunEvents /\ Taken' = Append(Taken, e)
    BY <1>0, <2>1, <2>2, ChannelTake
  <2>4. /\ ask.stream /\ ask.api \in Apis
        /\ client = "here" => wire = LeadFrames(ask.api) \o FramesOf(ask.api, Taken)
    BY <1>0, <2>1, <2>2 DEF AnswerSoFar
  <2>5. (LeadFrames(ask.api) \o FramesOf(ask.api, Taken)) \o Frames(ask.api, e)
          = LeadFrames(ask.api) \o FramesOf(ask.api, Append(Taken, e))
    BY <2>3, <2>4, StreamGrows
  <2> HIDE DEF e
  <2>6. AnswerSoFar'
    BY <2>1, <2>3, <2>4, <2>5 DEF AnswerSoFar
  <2> QED
    BY <2>3, <2>6 DEF AnswerInv
<1>8. CASE StreamEnds
  <2>1. /\ pc = "stream" /\ chan = <<>> /\ run = "closed" /\ pc' = "answered"
        /\ UNCHANGED <<ask, run, emitted, sent, chan, got, client>>
        /\ wire' = IF client = "here" THEN wire \o LastFrames(ask.api) ELSE wire
    BY <1>8 DEF StreamEnds, Write
  <2>2. Taken = sent
    BY <1>0, <2>1, AllTaken DEF Answering
  <2>3. ChannelInv'
    BY <1>0, <2>1 DEF ChannelInv, ChannelTypes, NotYet, ResultIsLast, InOrder, Taken, Before,
                      Starting, Answering
  <2>4. /\ ask.stream
        /\ client = "here" => wire = LeadFrames(ask.api) \o FramesOf(ask.api, sent)
    BY <1>0, <2>1, <2>2 DEF AnswerSoFar
  <2>5. AnswerSoFar'
    BY <2>1, <2>4 DEF AnswerSoFar
  <2> QED
    BY <2>3, <2>5 DEF AnswerInv
<1>9. CASE Collect
  <2> DEFINE e == Head(chan)
  <2>1. /\ pc = "collect" /\ chan # <<>> /\ chan' = Tail(chan)
        /\ UNCHANGED <<pc, ask, run, emitted, sent, wire, client>>
        /\ got' = IF Kept(e) THEN Append(got, e) ELSE got
    BY <1>9 DEF Collect
  <2>2. pc \in Answering
    BY <2>1 DEF Answering
  <2>3. /\ ChannelInv' /\ Taken \in Seq(RunEvents) /\ e \in RunEvents /\ Taken' = Append(Taken, e)
        /\ \A i \in DOMAIN Taken : ~IsResult(Taken[i])
    BY <1>0, <2>1, <2>2, ChannelTake
  <2> HIDE DEF e
  <2>4. ~ask.stream /\ got = Collected(Taken) /\ wire = <<>>
    BY <1>0, <2>1 DEF AnswerSoFar
  <2>5. got' = Collected(Append(Taken, e))
    BY <2>1, <2>3, <2>4, CollectedAppend DEF Kept, IsResult
  <2>6. AnswerSoFar'
    BY <2>1, <2>3, <2>4, <2>5 DEF AnswerSoFar
  <2> QED
    BY <2>3, <2>6 DEF AnswerInv
<1>10. CASE CollectEnds
  <2>1. /\ pc = "collect" /\ chan = <<>> /\ run = "closed" /\ pc' = "answered"
        /\ UNCHANGED <<ask, run, emitted, sent, chan, got, client>>
        /\ wire' = IF client = "here" THEN wire \o <<Piece(ask.api, got)>> ELSE wire
    BY <1>10 DEF CollectEnds, Write
  <2>2. Taken = sent
    BY <1>0, <2>1, AllTaken DEF Answering
  <2>3. ChannelInv'
    BY <1>0, <2>1 DEF ChannelInv, ChannelTypes, NotYet, ResultIsLast, InOrder, Taken, Before,
                      Starting, Answering
  <2>4. ~ask.stream /\ got = Collected(sent) /\ wire = <<>>
    BY <1>0, <2>1, <2>2 DEF AnswerSoFar
  <2>5. \A x : <<>> \o <<x>> = <<x>>
    <3> SUFFICES ASSUME NEW x PROVE <<>> \o <<x>> = <<x>>
      OBVIOUS
    <3>1. <<x>> \in Seq({x})
      OBVIOUS
    <3> QED
      BY <3>1, ConcatEmptySeq
  <2>6. AnswerSoFar'
    BY <2>1, <2>4, <2>5 DEF AnswerSoFar
  <2> QED
    BY <2>3, <2>6 DEF AnswerInv
<1>11. CASE SeeClientGone
  <2>1. /\ pc \in Answering /\ pc' = "left" /\ UNCHANGED <<ask, run, emitted, sent, got, wire, client>>
        /\ \/ chan' = chan
           \/ chan # <<>> /\ chan' = Tail(chan)
    BY <1>11 DEF SeeClientGone, Answering
  <2>2. chan' \in Seq(RunEvents)
    BY <1>0, <2>1, HeadTailProperties
  <2>3. ChannelTypes' /\ NotYet' /\ ResultIsLast'
    <3>1. run = "none" => chan = <<>> /\ chan' = <<>> /\ sent = <<>>
      BY <1>0, <2>1 DEF ChannelInv, NotYet
    <3> QED
      BY <1>0, <2>1, <2>2, <3>1 DEF ChannelInv, ChannelTypes, NotYet, ResultIsLast, Answering, Starting
  <2>4. InOrder' /\ AnswerSoFar'
    BY <2>1 DEF InOrder, AnswerSoFar, Answering
  <2> QED
    BY <2>3, <2>4 DEF AnswerInv, ChannelInv
<1>12. CASE ClientLeaves
  <2>1. UNCHANGED <<pc, ask, run, emitted, sent, chan, got, wire>> /\ client' = "gone"
    BY <1>12 DEF ClientLeaves
  <2>2. ChannelInv' /\ Taken' = Taken
    BY <1>0, <2>1 DEF ChannelInv, ChannelTypes, NotYet, ResultIsLast, InOrder, Taken, Before
  <2>3. AnswerSoFar'
    BY <1>0, <2>1, <2>2 DEF AnswerSoFar
  <2> QED
    BY <2>2, <2>3 DEF AnswerInv
<1>13. CASE UNCHANGED vars
  BY <1>0, <1>13 DEF vars, AnswerInv, ChannelInv, ChannelTypes, NotYet, ResultIsLast, InOrder, AnswerSoFar,
                     Taken, Before
<1> QED
  BY <1>1, <1>2, <1>3, <1>4, <1>5, <1>6, <1>7, <1>8, <1>9, <1>10, <1>11, <1>12, <1>13
  DEF Next, Deciding, Terminated

-----------------------------------------------------------------------------
(* The answer: the theorem                                                    *)

LEMMA Middle ==
  ASSUME NEW T, NEW a \in Seq(T), NEW b \in Seq(T), NEW c \in Seq(T)
  PROVE  LET w == (a \o b) \o c
         IN  SubSeq(w, Len(a) + 1, Len(w) - Len(c)) = b
<1> DEFINE ab == a \o b
           w  == ab \o c
           m  == SubSeq(w, Len(a) + 1, Len(w) - Len(c))
<1>1. /\ Len(a) \in Nat /\ Len(b) \in Nat /\ Len(c) \in Nat
      /\ ab \in Seq(T) /\ Len(ab) = Len(a) + Len(b)
      /\ \A i \in 1..(Len(a) + Len(b)) : ab[i] = IF i <= Len(a) THEN a[i] ELSE b[i - Len(a)]
  BY LenProperties, ConcatProperties
<1> HIDE DEF ab
<1>2. /\ w \in Seq(T) /\ Len(w) = Len(ab) + Len(c)
      /\ \A i \in 1..(Len(ab) + Len(c)) : w[i] = IF i <= Len(ab) THEN ab[i] ELSE c[i - Len(ab)]
  <2>1. ab \in Seq(T) /\ c \in Seq(T)
    BY <1>1
  <2> QED
    BY ONLY <2>1, ConcatProperties
<1> HIDE DEF w
<1>3. Len(w) - Len(c) = Len(a) + Len(b) /\ Len(a) + 1 \in Int /\ Len(a) + Len(b) \in Int
  BY <1>1, <1>2
<1>4. \A i \in (Len(a) + 1)..(Len(a) + Len(b)) : w[i] = b[i - Len(a)] /\ w[i] \in T
  <2> SUFFICES ASSUME NEW i \in (Len(a) + 1)..(Len(a) + Len(b))
               PROVE  w[i] = b[i - Len(a)] /\ w[i] \in T
    OBVIOUS
  <2>1. /\ i \in 1..(Len(ab) + Len(c)) /\ i <= Len(ab) /\ ~(i <= Len(a))
        /\ i \in 1..(Len(a) + Len(b)) /\ i - Len(a) \in 1..Len(b)
    BY <1>1
  <2> QED
    BY <1>1, <1>2, <2>1, ElementOfSeq
<1>5. /\ m \in Seq(T) /\ Len(m) = Len(b)
      /\ \A i \in 1..Len(b) : m[i] = w[(Len(a) + 1) + i - 1]
  <2>1. /\ m \in Seq(T)
        /\ Len(m) = IF Len(a) + 1 <= Len(a) + Len(b) THEN (Len(a) + Len(b)) - (Len(a) + 1) + 1 ELSE 0
        /\ \A i \in 1..((Len(a) + Len(b)) - (Len(a) + 1) + 1) : m[i] = w[(Len(a) + 1) + i - 1]
    BY <1>3, <1>4, SubSeqProperties, SMTT(30)
  <2>2. (Len(a) + Len(b)) - (Len(a) + 1) + 1 = Len(b)
    BY <1>1
  <2> QED
    BY <1>1, <2>1, <2>2
<1>6. \A i \in 1..Len(b) : m[i] = b[i]
  <2> SUFFICES ASSUME NEW i \in 1..Len(b) PROVE m[i] = b[i]
    OBVIOUS
  <2>1. /\ (Len(a) + 1) + i - 1 = Len(a) + i /\ Len(a) + i \in (Len(a) + 1)..(Len(a) + Len(b))
        /\ (Len(a) + i) - Len(a) = i
    BY <1>1
  <2> QED
    BY <1>4, <1>5, <2>1
<1>7. m = b
  <2> HIDE DEF m
  <2> QED
    BY <1>5, <1>6, SeqEqual
<1> QED
  BY <1>7 DEF m, w, ab

\* Where only the last event may be a result, that is the one that is found.
LEMMA LastResult ==
  ASSUME NEW s \in Seq(RunEvents), \A i \in DOMAIN s : IsResult(s[i]) => i = Len(s)
  PROVE  ResultOf(s) = IF s # <<>> /\ IsResult(Last(s)) THEN Last(s) ELSE ResultEvent("completed", FALSE)
<1>1. Len(s) \in Nat /\ DOMAIN s = 1..Len(s) /\ (s # <<>> => Len(s) # 0)
  BY EmptySeq, LenProperties
<1>2. CASE s # <<>> /\ IsResult(Last(s))
  <2>1. Len(s) \in DOMAIN s /\ Last(s) = s[Len(s)] /\ IsResult(s[Len(s)])
    BY <1>1, <1>2 DEF Last
  <2>2. {i \in 1..Len(s) : IsResult(s[i])} = {Len(s)}
    BY <1>1, <2>1
  <2>3. Max({Len(s)}) = Len(s)
    BY <1>1 DEF Max
  <2>4. SelectLastInSeq(s, IsResult) = Len(s)
    BY <2>2, <2>3 DEF SelectLastInSeq
  <2> QED
    BY <1>2, <2>1, <2>4 DEF ResultOf
<1>3. CASE ~(s # <<>> /\ IsResult(Last(s)))
  <2>1. \A i \in DOMAIN s : ~IsResult(s[i])
    BY <1>1, <1>3, EmptySeq DEF Last
  <2> QED
    BY <1>3, <2>1 DEF ResultOf
<1> QED
  BY <1>2, <1>3

\* What is kept has the same result and, up to the cap, the same text.
LEMMA CollectedIsEnough ==
  ASSUME NEW s \in Seq(RunEvents), \A i \in DOMAIN s : IsResult(s[i]) => i = Len(s)
  PROVE  /\ ResultOf(Collected(s)) = ResultOf(s)
         /\ aggregateText(Collected(s))
              = aggregateText(IF Len(s) <= CollectCap THEN s ELSE SubSeq(s, 1, CollectCap))
<1>1. /\ Len(s) \in Nat /\ DOMAIN s = 1..Len(s) /\ CollectCap \in Nat
      /\ \A i \in 1..Len(s) : s[i] \in RunEvents
  BY RequestAssumption, LenProperties
<1>2. CASE Len(s) <= CollectCap
  BY <1>2 DEF Collected
<1>3. CASE ~(Len(s) <= CollectCap)
  <2> DEFINE first == SubSeq(s, 1, CollectCap)
  <2>1. /\ first \in Seq(RunEvents) /\ Len(first) = CollectCap
        /\ \A i \in 1..CollectCap : first[i] = s[i] /\ i \in DOMAIN s /\ i # Len(s)
    BY <1>1, <1>3, SubSeqProperties
  <2>2. DOMAIN first = 1..CollectCap /\ \A i \in DOMAIN first : ~IsResult(first[i])
    BY <2>1, LenProperties
  <2>3. Last(s) \in RunEvents /\ s # <<>>
    BY <1>1, <1>3, EmptySeq DEF Last
  <2>4. Collected(s) = first \o If(IsResult(Last(s)), <<Last(s)>>)
    BY <1>3 DEF Collected
  <2>5. ResultOf(s) = IF IsResult(Last(s)) THEN Last(s) ELSE ResultEvent("completed", FALSE)
    BY <2>3, LastResult
  <2> HIDE DEF first
  <2>6. CASE IsResult(Last(s))
    <3> DEFINE g == Append(first, Last(s))
    <3>1. Collected(s) = g
      BY <2>1, <2>3, <2>4, <2>6, AppendIsConcat DEF If
    <3>2. /\ g \in Seq(RunEvents) /\ g # <<>> /\ Len(g) = CollectCap + 1
          /\ \A i \in 1..CollectCap : g[i] = first[i]
          /\ g[CollectCap + 1] = Last(s)
      BY <2>1, <2>3, AppendProperties
    <3>3. aggregateText(g) = aggregateText(first)
      <4>1. OfKinds(g, {"text"}) = OfKinds(first, {"text"}) \o If(Last(s).kind \in {"text"}, <<Last(s)>>)
        <5> DEFINE e == Last(s)
                   kinds == {"text"}
        <5>1. first \in Seq(RunEvents) /\ e \in RunEvents
          BY <2>1, <2>3
        <5> HIDE DEF e, kinds
        <5>2. OfKinds(Append(first, e), kinds) = OfKinds(first, kinds) \o If(e.kind \in kinds, <<e>>)
          BY ONLY <5>1, OfKindsAppend
        <5> QED
          BY <5>2 DEF g, e, kinds
      <4>2. If(Last(s).kind \in {"text"}, <<Last(s)>>) = <<>>
        BY <2>6 DEF IsResult, If
      <4>3. OfKinds(first, {"text"}) \in Seq(RunEvents)
        BY <2>1, <2>3, OfKindsAppend
      <4> QED
        BY <4>1, <4>2, <4>3, ConcatEmptySeq DEF aggregateText
    <3> HIDE DEF g
    <3>4. \A i \in DOMAIN g : IsResult(g[i]) => i = Len(g)
      <4>1. DOMAIN g = 1..(CollectCap + 1)
        BY <3>2, LenProperties
      <4>2. \A i \in 1..(CollectCap + 1) : i \in 1..CollectCap \/ i = Len(g)
        BY <1>1, <3>2
      <4> QED
        BY <2>2, <3>2, <4>1, <4>2
    <3>5. Last(g) = Last(s)
      BY <3>2 DEF Last
    <3>6. ResultOf(g) = Last(s)
      BY <2>6, <3>2, <3>4, <3>5, LastResult
    <3> QED
      BY <1>3, <2>5, <2>6, <3>1, <3>3, <3>6 DEF first
  <2>7. CASE ~IsResult(Last(s))
    <3>1. Collected(s) = first
      <4>1. first \o <<>> = first
        BY <2>1, ConcatEmptySeq
      <4> QED
        BY <2>4, <2>7, <4>1 DEF If
    <3>2. ResultOf(first) = ResultEvent("completed", FALSE)
      BY <2>2 DEF ResultOf
    <3> QED
      BY <1>3, <2>5, <2>7, <3>1, <3>2 DEF first
  <2> QED
    BY <2>6, <2>7
<1> QED
  BY <1>2, <1>3

LEMMA AnswerInvariant == Spec => []AnswerInv
<1>1. Init => AnswerInv
  BY AnswerInit
<1>2. AnswerInv /\ [Next]_vars => AnswerInv'
  BY AnswerStep
<1> QED
  BY <1>1, <1>2, PTL DEF Spec

LEMMA AnswerImplies ==
  ASSUME AnswerInv
  PROVE  AnswersAreFaithful
<1> SUFFICES ASSUME pc = "answered", client = "here" PROVE AnswersAreFaithful
  BY DEF AnswersAreFaithful
<1>1. ask \in Asks /\ ask.api \in Apis /\ ask.stream \in BOOLEAN
  BY RequestAssumption DEF AnswerInv, ChannelInv, ChannelTypes, Apis
<1>2. sent \in Seq(RunEvents) /\ \A i \in DOMAIN sent : IsResult(sent[i]) => i = Len(sent)
  BY DEF AnswerInv, ChannelInv, ChannelTypes, ResultIsLast
<1>3. IF ask.stream THEN wire = (LeadFrames(ask.api) \o FramesOf(ask.api, sent)) \o LastFrames(ask.api)
      ELSE got = Collected(sent) /\ wire = <<Piece(ask.api, got)>>
  BY DEF AnswerInv, AnswerSoFar
<1>4. CASE ask.stream
  <2> DEFINE a == LeadFrames(ask.api)
             F == FramesOf(ask.api, sent)
             c == LastFrames(ask.api)
  <2>1. a \in Seq(AllFrames) /\ c \in Seq(AllFrames)
    BY <1>1, MarksTypes
  <2>2. F \in Seq(ShownFrames) /\ [i \in DOMAIN F |-> F[i].of] = OfKinds(sent, Shows(ask.api))
    BY <1>1, <1>2, FramesShow
  <2>3. F \in Seq(AllFrames)
    <3>1. ShownFrames \subseteq AllFrames
      BY DEF AllFrames
    <3> QED
      BY <2>2, <3>1, SeqMonotonic
  <2>4. wire = (a \o F) \o c
    BY <1>3, <1>4
  <2> HIDE DEF a, F, c
  <2>5. SubSeq(wire, Len(a) + 1, Len(wire) - Len(c)) = F
    BY <2>1, <2>3, <2>4, Middle
  <2> QED
    BY <1>4, <2>2, <2>4, <2>5 DEF AnswersAreFaithful, a, F, c
<1>5. CASE ~ask.stream
  <2>1. got = Collected(sent) /\ wire = <<Piece(ask.api, got)>>
    BY <1>3, <1>5
  <2>2. Len(wire) = 1 /\ wire[1] = Piece(ask.api, got)
    BY <2>1
  <2> DEFINE last  == IF sent # <<>> /\ IsResult(Last(sent)) THEN Last(sent)
                      ELSE ResultEvent("completed", FALSE)
             texts == aggregateText(IF Len(sent) <= CollectCap THEN sent ELSE SubSeq(sent, 1, CollectCap))
             mayBe == {aggregateText(sent)}
                      \cup (IF Len(sent) <= CollectCap THEN {} ELSE {aggregateText(SubSeq(sent, 1, CollectCap))})
  <2>5. texts \in mayBe
    OBVIOUS
  <2>3. ResultOf(got) = last /\ aggregateText(got) = texts
    BY <1>2, <2>1, CollectedIsEnough, LastResult
  <2> HIDE DEF last, texts
  <2>4. /\ ask.api = "native" => wire[1].status = last.status /\ wire[1].output = last.output
        /\ ask.api # "native" => wire[1].content = IF last.output THEN <<last>> ELSE texts
        /\ ask.api = "openai" =>
             wire[1].finish = (IF last.status = "completed" THEN "stop" ELSE last.status)
    <3>1. CASE ask.api = "native"
      BY <2>2, <2>3, <3>1 DEF Piece, buildRunResult
    <3>2. CASE ask.api = "openai"
      BY <2>2, <2>3, <3>2 DEF Piece, buildOpenAICompletion, ContentOf
    <3>3. CASE ask.api = "anthropic"
      BY <2>2, <2>3, <3>3 DEF Piece, buildAnthropicMessage, ContentOf
    <3> QED
      BY <1>1, <3>1, <3>2, <3>3 DEF Apis
  <2> QED
    BY <1>5, <2>2, <2>4, <2>5 DEF AnswersAreFaithful, last
<1> QED
  BY <1>1, <1>4, <1>5

\* What a client that stayed has got is what the run sent: in a stream every event
\* its API shows, in order; in one piece status and output, however many events there
\* were, and without an output the text of all events, or of at least CollectCap of
\* them if there were more (streamNativeEvents and its two siblings, collectEvents).
THEOREM AnswersFaithful == Spec => []AnswersAreFaithful
<1>1. AnswerInv => AnswersAreFaithful
  BY AnswerImplies
<1> QED
  BY <1>1, AnswerInvariant, PTL

-----------------------------------------------------------------------------
(* The configuration                                                          *)

\* EnabledByConfig and KeyByConfig, of any files and environment.
EnabledBy(files, env, a) ==
  LET file == {f \in files : f.agents # {}}
      says(f) == LET named == Or(f.agents, null) IN a \in DOMAIN named => named[a]
  IN /\ a \in Known
     /\ IF a \in DOMAIN env.enabled /\ env.enabled[a] # "junk"
        THEN env.enabled[a] = "true" ELSE \A f \in file : says(f)

KeyBy(files, env) == Or(env.key, Or(UNION {f.key : f \in files}, ""))

\* What the file and the backfill make of the agents.
LEMMA AgentsFilled ==
  ASSUME NEW f, \A m \in f.agents : m \in [DOMAIN m -> BOOLEAN], NEW a \in Known
  PROVE  LET c == Backfill(Unmarshal(f))
         IN  /\ a \in DOMAIN c.agents
             /\ c.agents[a] <=> (f.agents # {} =>
                  LET named == Or(f.agents, null) IN a \in DOMAIN named => named[a])
<1> DEFINE u == IF f.agents = {null} THEN null ELSE Over(Or(f.agents, null), Defaults.agents)
           named == Or(f.agents, null)
<1>1. Unmarshal(f).agents = u
  BY DEF Unmarshal
<1>2. Backfill(Unmarshal(f)).agents = Over(u, Defaults.agents)
  BY <1>1 DEF Backfill, Unmarshal
<1>3. /\ DOMAIN Defaults.agents = Known /\ Defaults.agents[a] = TRUE
  BY DEF Defaults
<1>4. DOMAIN null = {}
  BY DEF null
<1>5. named = null \/ named \in f.agents
  BY DEF Or
<1> HIDE DEF u
<1>6. /\ a \in DOMAIN Over(u, Defaults.agents)
      /\ Over(u, Defaults.agents)[a] = IF a \in DOMAIN u THEN u[a] ELSE TRUE
  BY <1>3 DEF Over
<1>7. CASE f.agents = {null}
  <2>1. u = null /\ named = null
    BY <1>7 DEF u, Or
  <2> QED
    BY <1>2, <1>4, <1>6, <2>1
<1>8. CASE f.agents # {null}
  <2> HIDE DEF named
  <2>1. u = Over(named, Defaults.agents)
    BY <1>8 DEF u, named
  <2>2. a \in DOMAIN u /\ u[a] = IF a \in DOMAIN named THEN named[a] ELSE TRUE
    BY <1>3, <2>1 DEF Over
  <2>3. a \in DOMAIN named => named[a] \in BOOLEAN
    BY <1>4, <1>5
  <2>4. f.agents = {} => named = null
    BY DEF named, Or
  <2>5. u[a] <=> (a \in DOMAIN named => named[a])
    BY <2>2, <2>3
  <2>6. f.agents = {} => (a \in DOMAIN named => named[a])
    BY <1>4, <2>4
  <2> QED
    BY <1>2, <1>6, <2>2, <2>5, <2>6 DEF named
<1> QED
  BY <1>7, <1>8

LEMMA ConfigLoaded ==
  ASSUME NEW files \in Files, NEW env
  PROVE  LET c == Normalised(Load(files, env))
         IN  c.key = KeyBy(files, env) /\ Adapters(c) = {a \in Known : EnabledBy(files, env, a)}
<1> DEFINE base == IF files = {} THEN Defaults ELSE Backfill(Unmarshal(Or(files, {})))
           c == Normalised(Load(files, env))
<1>1. /\ \A f, g \in files : f = g
      /\ \A f \in files : \A m \in f.agents : m \in [DOMAIN m -> BOOLEAN]
  BY RequestAssumption
<1>2. \/ files = {}
      \/ files = {Or(files, {})}
  BY <1>1 DEF Or
<1>3. base.key = Or(UNION {f.key : f \in files}, "")
  <2>1. CASE files = {}
    BY <2>1 DEF Defaults, Or
  <2>2. CASE files # {}
    <3> DEFINE f == Or(files, {})
    <3>1. files = {f}
      BY <1>2, <2>2
    <3> HIDE DEF f
    <3>2. UNION {g.key : g \in files} = f.key
      BY <3>1
    <3>3. base.key = Or(f.key, "")
      BY <2>2 DEF Backfill, Unmarshal, Defaults, f
    <3> QED
      BY <3>2, <3>3
  <2> QED
    BY <2>1, <2>2
<1>4. \A a \in Known : /\ a \in DOMAIN base.agents
                       /\ base.agents[a] <=> \A f \in {g \in files : g.agents # {}} :
                            LET named == Or(f.agents, null) IN a \in DOMAIN named => named[a]
  <2> SUFFICES ASSUME NEW a \in Known
               PROVE  /\ a \in DOMAIN base.agents
                      /\ base.agents[a] <=> \A f \in {g \in files : g.agents # {}} :
                           LET named == Or(f.agents, null) IN a \in DOMAIN named => named[a]
    OBVIOUS
  <2>1. CASE files = {}
    BY <2>1 DEF Defaults
  <2>2. CASE files # {}
    <3> DEFINE f == Or(files, {})
    <3>1. files = {f}
      BY <1>2, <2>2
    <3>2. base = Backfill(Unmarshal(f))
      BY <2>2
    <3> HIDE DEF f, base
    <3>3. \A m \in f.agents : m \in [DOMAIN m -> BOOLEAN]
      BY <1>1, <3>1
    <3>4. /\ a \in DOMAIN base.agents
          /\ base.agents[a] <=> (f.agents # {} =>
               LET named == Or(f.agents, null) IN a \in DOMAIN named => named[a])
      BY <3>2, <3>3, AgentsFilled
    <3> QED
      BY <3>1, <3>4
  <2> QED
    BY <2>1, <2>2
<1>5. /\ c.key = Or(env.key, base.key)
      /\ c.agents = [a \in DOMAIN base.agents \cup Known |->
                       IF a \in DOMAIN env.enabled /\ env.enabled[a] # "junk"
                       THEN env.enabled[a] = "true"
                       ELSE a \in DOMAIN base.agents /\ base.agents[a]]
  BY DEF Normalised, Load, ApplyEnv, Backfill, Unmarshal, Defaults
<1> HIDE DEF base, c
<1>6. c.key = KeyBy(files, env)
  BY <1>3, <1>5 DEF KeyBy
<1>7. \A a \in Known : c.agents[a] <=> EnabledBy(files, env, a)
  BY <1>4, <1>5 DEF EnabledBy
<1>8. Adapters(c) = {a \in Known : EnabledBy(files, env, a)}
  BY <1>7 DEF Adapters
<1> QED
  BY <1>6, <1>8 DEF c


-----------------------------------------------------------------------------
(* The way to the CLI: the invariant                                          *)

Names == IF ask.api = "native" THEN {ask.model} ELSE ResolveModel(ask.model)
Routed == target = ResolveRoute(Or(Names, <<>>), Adapters(cfg))
Found == target # {} /\ Route.cli \in Adapters(cfg)

Chosen   == {"queue", "options", "execute", "launched", "lead", "stream", "collect", "answered", "left"}
Resolved == Chosen \cup {"route"}
Decoded  == Resolved \cup {"resolve"}
Allowed  == Decoded \cup {"decode"}

\* The daemon runs with what it was given.
ConfigHeld ==
  pc \notin {"load", "exited"} =>
    /\ given.files \in Files
    /\ cfg.key = KeyByConfig /\ Adapters(cfg) = {a \in Known : EnabledByConfig(a)}

Progress ==
  /\ pc \in Allowed \cup {"auth"} => ask \in Asks
  /\ pc \in Allowed => MayCall
  /\ pc \in Decoded => ~BadRequest
  /\ pc \in Resolved => ~Unlisted /\ Routed
  /\ pc \in Chosen => Found
  /\ pc # "refused" => hitch = "none"

\* Each way to be refused, with what is told the client.
Refusal ==
  \/ hitch = "none" /\ status = 401 /\ ~MayCall
  \/ hitch = "none" /\ status = 400 /\ MayCall /\ BadRequest
  \/ hitch = "none" /\ status = 404 /\ MayCall /\ ~BadRequest /\ Unlisted
  \/ hitch = "none" /\ status = 502 /\ MayCall /\ ~BadRequest /\ ~Unlisted /\ Routed /\ ~Found
  \/ /\ hitch = "queue" /\ status = IF ask.api = "native" THEN 503 ELSE 502
     /\ MayCall /\ ~BadRequest /\ ~Unlisted
  \/ /\ hitch \in {"cancelled", "stub", "execute"} /\ status = 502
     /\ MayCall /\ ~BadRequest /\ ~Unlisted

RouteInv == ConfigHeld /\ Progress /\ (pc = "refused" => ask \in Asks /\ Refusal)

\* What the invariant says of a state depends on nothing else.
LEMMA SameRoute ==
  ASSUME UNCHANGED <<given, cfg, ask>>
  PROVE  /\ KeyByConfig' = KeyByConfig
         /\ {a \in Known : EnabledByConfig(a)}' = {a \in Known : EnabledByConfig(a)}
         /\ MayCall' <=> MayCall
         /\ BadRequest' <=> BadRequest
         /\ Unlisted' <=> Unlisted
         /\ target' = target => (Routed' <=> Routed) /\ (Found' <=> Found)
<1>1. KeyByConfig' = KeyByConfig
  BY DEF KeyByConfig
<1>2. \A a : EnabledByConfig(a)' <=> EnabledByConfig(a)
  BY DEF EnabledByConfig
<1>3. MayCall' <=> MayCall
  BY <1>1 DEF MayCall
<1>4. BadRequest' <=> BadRequest
  BY DEF BadRequest, Malformed, InvalidCwd, NoMessages
<1>5. Unlisted' <=> Unlisted
  BY DEF Unlisted
<1>6. target' = target => (Routed' <=> Routed) /\ (Found' <=> Found)
  BY DEF Routed, Found, Names, Route
<1> QED
  BY <1>1, <1>2, <1>3, <1>4, <1>5, <1>6

\* With the configuration and the request, all of it is kept by a step that leaves
\* the rest alone, or goes on after the choice.
LEMMA RouteKept ==
  ASSUME RouteInv, UNCHANGED <<given, cfg, ask, target, hitch>>,
         \/ UNCHANGED <<pc, status>>
         \/ pc \in Chosen /\ pc' \in Chosen
  PROVE  RouteInv'
<1>1. ConfigHeld /\ Progress /\ (pc = "refused" => ask \in Asks /\ Refusal)
  BY DEF RouteInv
<1> USE DEF Allowed, Decoded, Resolved, Chosen
<1>2. ConfigHeld'
  BY <1>1, SameRoute DEF ConfigHeld
<1>3. Progress'
  BY <1>1, SameRoute DEF Progress
<1>4. pc' = "refused" => (ask \in Asks /\ Refusal)'
  BY <1>1, SameRoute DEF Refusal
<1> QED
  BY <1>2, <1>3, <1>4 DEF RouteInv

LEMMA RouteInit ==
  ASSUME Init
  PROVE  RouteInv
BY DEF Init, RouteInv, ConfigHeld, Progress, Allowed, Decoded, Resolved, Chosen

LEMMA NothingListed ==
  ASSUME ask.api \in Apis
  PROVE  Unlisted <=> Names = {}
<1>1. ask.api = "native" => Names # {}
  BY DEF Names
<1>2. Len(ask.model) # 1 => ResolveModel(ask.model) # {}
  BY DEF ResolveModel
<1> QED
  BY <1>1, <1>2 DEF Unlisted, Names

\* The steps before the run.
LEMMA RouteDeciding ==
  ASSUME RouteInv, Deciding
  PROVE  RouteInv'
<1>0. ConfigHeld /\ Progress /\ (pc = "refused" => ask \in Asks /\ Refusal)
  BY DEF RouteInv
<1>a. ask \in Asks => ask.api \in Apis
  BY RequestAssumption DEF Apis
<1> USE DEF Allowed, Decoded, Resolved, Chosen, startVars, routeVars, launchVars, runVars,
            answerVars, requestLeaves, executeLeaves, Proceed, Refuse
<1>k. ASSUME UNCHANGED <<given, cfg, ask>>, pc \notin {"load", "exited"}
      PROVE  ConfigHeld'
  BY <1>0, <1>k, SameRoute DEF ConfigHeld
<1>1. CASE \E files \in Files, env \in Environments : StartDaemon(files, env)
  <2>1. PICK files \in Files, env \in Environments : StartDaemon(files, env)
    BY <1>1
  <2>2. /\ pc = "load" /\ pc' \in {"serve", "exited"} /\ UNCHANGED <<target, hitch>>
        /\ given' = [files |-> files, env |-> env]
        /\ pc' = "serve" => cfg' = Normalised(Load(files, env))
    BY <2>1 DEF StartDaemon
  <2>3. /\ KeyByConfig' = KeyBy(files, env)
        /\ \A a : EnabledByConfig(a)' <=> EnabledBy(files, env, a)
    BY <2>2 DEF KeyByConfig, EnabledByConfig, KeyBy, EnabledBy
  <2>4. ConfigHeld'
    BY <2>2, <2>3, ConfigLoaded DEF ConfigHeld
  <2>5. Progress'
    BY <1>0, <2>2 DEF Progress
  <2> QED
    BY <2>2, <2>4, <2>5 DEF RouteInv
<1>2. CASE \E a \in Asks : Arrive(a)
  <2>1. PICK a \in Asks : Arrive(a)
    BY <1>2
  <2>2. /\ pc = "serve" /\ pc' = "auth" /\ ask' \in Asks /\ UNCHANGED <<given, cfg, target, hitch>>
    BY <2>1 DEF Arrive
  <2>3. ConfigHeld'
    <3>1. /\ KeyByConfig' = KeyByConfig
          /\ \A x : EnabledByConfig(x)' <=> EnabledByConfig(x)
      BY <2>2 DEF KeyByConfig, EnabledByConfig
    <3> QED
      BY <1>0, <2>2, <3>1 DEF ConfigHeld
  <2>4. Progress'
    BY <1>0, <2>2 DEF Progress
  <2> QED
    BY <2>2, <2>3, <2>4 DEF RouteInv
<1>3. CASE Authenticate
  <2>1. /\ pc = "auth" /\ UNCHANGED <<given, cfg, ask, target, hitch>>
        /\ \/ pc' = "decode" /\ cfg.key \in {"", ask.key}
           \/ pc' = "refused" /\ status' = 401 /\ cfg.key \notin {"", ask.key}
    BY <1>3 DEF Authenticate
  <2>2. MayCall <=> cfg.key \in {"", ask.key}
    BY <1>0, <2>1 DEF MayCall, ConfigHeld
  <2>3. Progress' /\ (pc' = "refused" => (ask \in Asks /\ Refusal)')
    BY <1>0, <2>1, <2>2, SameRoute DEF Progress, Refusal
  <2> QED
    BY <1>k, <2>1, <2>3 DEF RouteInv
<1>4. CASE Decode
  <2>1. /\ pc = "decode" /\ UNCHANGED <<given, cfg, ask, target, hitch>>
        /\ \/ pc' = "resolve" /\ ~BadRequest
           \/ pc' = "refused" /\ status' = 400 /\ BadRequest
    BY <1>4 DEF Decode, BadRequest
  <2>2. Progress' /\ (pc' = "refused" => (ask \in Asks /\ Refusal)')
    BY <1>0, <2>1, SameRoute DEF Progress, Refusal
  <2> QED
    BY <1>k, <2>1, <2>2 DEF RouteInv
<1>5. CASE Resolve
  <2>1. /\ pc = "resolve" /\ UNCHANGED <<given, cfg, ask, hitch>>
        /\ \/ /\ pc' = "route" /\ Names # {}
              /\ target' = ResolveRoute(Or(Names, <<>>), Adapters(cfg))
           \/ pc' = "refused" /\ status' = 404 /\ Names = {}
    BY <1>5 DEF Resolve, Names
  <2>2. Unlisted <=> Names = {}
    BY <1>0, <1>a, <2>1, NothingListed DEF Progress
  <2>3. pc' = "route" => Routed'
    BY <2>1 DEF Routed, Names
  <2>4. Progress' /\ (pc' = "refused" => (ask \in Asks /\ Refusal)')
    BY <1>0, <2>1, <2>2, <2>3, SameRoute DEF Progress, Refusal
  <2> QED
    BY <1>k, <2>1, <2>4 DEF RouteInv
<1>6. CASE FindAdapter
  <2>1. /\ pc = "route" /\ UNCHANGED <<given, cfg, ask, target, hitch>>
        /\ \/ pc' = "queue" /\ Found
           \/ pc' = "refused" /\ status' = 502 /\ ~Found
    BY <1>6 DEF FindAdapter, Found
  <2>2. Progress' /\ (pc' = "refused" => (ask \in Asks /\ Refusal)')
    BY <1>0, <2>1, SameRoute DEF Progress, Refusal
  <2> QED
    BY <1>k, <2>1, <2>2 DEF RouteInv
<1>7. ASSUME pc \in {"queue", "execute", "launched"}, UNCHANGED <<given, cfg, ask, target>>, pc' = "refused",
             \/ hitch' = "queue" /\ status' = IF ask.api = "native" THEN 503 ELSE 502
             \/ hitch' \in {"cancelled", "stub", "execute"} /\ status' = 502
      PROVE  RouteInv'
  <2>1. Progress' /\ (pc' = "refused" => (ask \in Asks /\ Refusal)')
    BY <1>0, <1>7, SameRoute DEF Progress, Refusal
  <2> QED
    BY <1>k, <1>7, <2>1 DEF RouteInv
<1>8. CASE QueueTimeout
  BY <1>7, <1>8 DEF QueueTimeout
<1>9. CASE CancelledWhileQueued
  BY <1>7, <1>9 DEF CancelledWhileQueued
<1>10. CASE StubFails
  BY <1>7, <1>10 DEF StubFails
<1>11. CASE ExecuteFails
  BY <1>7, <1>11 DEF ExecuteFails
<1>12. CASE Acquire
  BY <1>12, RouteKept DEF Acquire
<1>13. CASE BuildExecOptions
  BY <1>13, RouteKept DEF BuildExecOptions
<1>14. CASE Launch
  BY <1>14, RouteKept DEF Launch
<1> QED
  BY <1>1, <1>2, <1>3, <1>4, <1>5, <1>6, <1>8, <1>9, <1>10, <1>11, <1>12, <1>13, <1>14 DEF Deciding

LEMMA RouteStep ==
  ASSUME RouteInv, [Next]_vars
  PROVE  RouteInv'
<1> USE DEF handlerLeaves, forwarderLeaves, startVars, routeVars, launchVars, runVars, answerVars, Chosen
<1>1. CASE Deciding
  BY <1>1, RouteDeciding
<1>2. CASE ExecuteReturns
  BY <1>2, RouteKept DEF ExecuteReturns
<1>3. CASE \E kind \in Kinds : Emit(kind)
  BY <1>3, RouteKept DEF Emit
<1>4. CASE \E s \in {"completed", "failed", "cancelled"}, output \in BOOLEAN : SendResult(s, output)
  BY <1>4, RouteKept DEF SendResult
<1>5. CASE CloseEvents
  BY <1>5, RouteKept DEF CloseEvents
<1>6. CASE Lead
  BY <1>6, RouteKept DEF Lead
<1>7. CASE StreamEvent
  BY <1>7, RouteKept DEF StreamEvent
<1>8. CASE StreamEnds
  BY <1>8, RouteKept DEF StreamEnds
<1>9. CASE Collect
  BY <1>9, RouteKept DEF Collect
<1>10. CASE CollectEnds
  BY <1>10, RouteKept DEF CollectEnds
<1>11. CASE SeeClientGone
  BY <1>11, RouteKept DEF SeeClientGone
<1>12. CASE ClientLeaves
  BY <1>12, RouteKept DEF ClientLeaves
<1>13. CASE Terminated \/ UNCHANGED vars
  BY <1>13, RouteKept DEF Terminated, vars
<1> QED
  BY <1>1, <1>2, <1>3, <1>4, <1>5, <1>6, <1>7, <1>8, <1>9, <1>10, <1>11, <1>12, <1>13
  DEF Next, Deciding

LEMMA RouteInvariant == Spec => []RouteInv
<1>1. Init => RouteInv
  BY RouteInit
<1>2. RouteInv /\ [Next]_vars => RouteInv'
  BY RouteStep
<1> QED
  BY <1>1, <1>2, PTL DEF Spec


-----------------------------------------------------------------------------
(* The CLI is the one that was asked for                                      *)

LEMMA LeastOf ==
  ASSUME NEW S \in SUBSET Nat, S # {}
  PROVE  Min(S) \in S /\ \A y \in S : Min(S) <= y
<1> DEFINE T == {n \in Nat : (\E k \in S : k <= n) => \E x \in S : \A y \in S : x <= y}
<1>1. 0 \in T
  OBVIOUS
<1>2. ASSUME NEW n \in Nat, n \in T PROVE n + 1 \in T
  <2> SUFFICES ASSUME NEW k \in S, k <= n + 1 PROVE \E x \in S : \A y \in S : x <= y
    OBVIOUS
  <2>1. CASE \E j \in S : j <= n
    BY <1>2, <2>1
  <2>2. CASE \A j \in S : ~(j <= n)
    <3>1. k = n + 1 /\ \A y \in S : k <= y
      BY <2>2
    <3> QED
      BY <3>1
  <2> QED
    BY <2>1, <2>2
<1>3. Nat \subseteq T
  <2> HIDE DEF T
  <2> QED
    BY <1>1, <1>2, NatSetInduction
<1>4. \E x \in S : \A y \in S : x <= y
  <2>1. PICK k \in S : TRUE
    OBVIOUS
  <2>2. k \in Nat /\ k \in T /\ k <= k
    BY <1>3
  <2> QED
    BY <2>2
<1> QED
  BY <1>4 DEF Min

\* First, as a set of places.
LEMMA FirstPlace ==
  ASSUME NEW s, NEW n \in Nat, DOMAIN s = 1..n, Len(s) = n, NEW S \in SUBSET (1..n)
  PROVE  LET at == IF S # {} THEN Min(S) ELSE 0
         IN  /\ at = 0 <=> S = {}
             /\ at # 0 => at \in S /\ \A i \in S : at <= i
<1>1. S \in SUBSET Nat /\ 0 \notin S
  OBVIOUS
<1> QED
  BY <1>1, LeastOf, ZenonT(40)

LEMMA KnownPlaces ==
  /\ Len(KnownAgents) = 9 /\ DOMAIN KnownAgents = 1..9
  /\ \A i \in 1..9 : KnownAgents[i] \in Known
  /\ \A a \in Known : (\E i \in 1..9 : KnownAgents[i] = a) /\ a # "" /\ Lower(a) = a
<1>1. /\ Len(KnownAgents) = 9 /\ DOMAIN KnownAgents = 1..9
  BY DEF KnownAgents
<1>2. Known = {KnownAgents[i] : i \in 1..9}
  BY <1>1 DEF Known, ToSet
<1>3. \A i \in 1..9 : KnownAgents[i] # "" /\ KnownAgents[i] # "Claude"
  <2>1. /\ KnownAgents[1] = "claude" /\ KnownAgents[2] = "codex" /\ KnownAgents[3] = "opencode"
        /\ KnownAgents[4] = "openclaw" /\ KnownAgents[5] = "qwen" /\ KnownAgents[6] = "gemini"
        /\ KnownAgents[7] = "codebuddy" /\ KnownAgents[8] = "copilot" /\ KnownAgents[9] = "droid"
    BY DEF KnownAgents
  <2>2. \A i \in 1..9 : i \in {1, 2, 3, 4, 5, 6, 7, 8, 9}
    OBVIOUS
  <2>3. /\ KnownAgents[1] \notin {"", "Claude"} /\ KnownAgents[2] \notin {"", "Claude"}
        /\ KnownAgents[3] \notin {"", "Claude"} /\ KnownAgents[4] \notin {"", "Claude"}
        /\ KnownAgents[5] \notin {"", "Claude"} /\ KnownAgents[6] \notin {"", "Claude"}
        /\ KnownAgents[7] \notin {"", "Claude"} /\ KnownAgents[8] \notin {"", "Claude"}
        /\ KnownAgents[9] \notin {"", "Claude"}
    BY <2>1
  <2> QED
    BY <2>2, <2>3
<1> QED
  BY <1>1, <1>2, <1>3 DEF Lower

\* A catalogue of up to three models with names.
Named(m) == m[1] # "" /\ m[2] # ""
AllNamed(models) ==
  \E n \in Nat : /\ Len(models) = n /\ DOMAIN models = 1..n
                 /\ \A i \in 1..n : Named(models[i])

LEMMA NamedLists ==
  /\ AllNamed(<<>>)
  /\ \A p : Named(p) => AllNamed(<<p>>)
  /\ \A p, q : Named(p) /\ Named(q) => AllNamed(<<p, q>>)
  /\ \A p, q, r : Named(p) /\ Named(q) /\ Named(r) => AllNamed(<<p, q, r>>)
<1>1. AllNamed(<<>>)
  BY DEF AllNamed
<1>2. ASSUME NEW p, Named(p) PROVE AllNamed(<<p>>)
  <2>1. Len(<<p>>) = 1 /\ DOMAIN <<p>> = 1..1 /\ <<p>>[1] = p
    OBVIOUS
  <2> QED
    BY <1>2, <2>1 DEF AllNamed
<1>3. ASSUME NEW p, NEW q, Named(p), Named(q) PROVE AllNamed(<<p, q>>)
  <2>1. Len(<<p, q>>) = 2 /\ DOMAIN <<p, q>> = 1..2 /\ <<p, q>>[1] = p /\ <<p, q>>[2] = q
    OBVIOUS
  <2>2. \A i \in 1..2 : Named(<<p, q>>[i])
    BY <1>3, <2>1
  <2> QED
    BY <2>1, <2>2 DEF AllNamed
<1>4. ASSUME NEW p, NEW q, NEW r, Named(p), Named(q), Named(r) PROVE AllNamed(<<p, q, r>>)
  <2>1. /\ Len(<<p, q, r>>) = 3 /\ DOMAIN <<p, q, r>> = 1..3
        /\ <<p, q, r>>[1] = p /\ <<p, q, r>>[2] = q /\ <<p, q, r>>[3] = r
    OBVIOUS
  <2>2. \A i \in 1..3 : Named(<<p, q, r>>[i])
    BY <1>4, <2>1
  <2> QED
    BY <2>1, <2>2 DEF AllNamed
<1> QED
  BY <1>1, <1>2, <1>3, <1>4

LEMMA CatalogNames ==
  ASSUME NEW cli \in Known
  PROVE  AllNamed(Catalog[cli])
<1>1. cli \in {"claude", "codex", "opencode", "openclaw", "qwen", "gemini", "codebuddy", "copilot", "droid"}
  BY DEF Known, KnownAgents, ToSet
<1>2. /\ Named(<<"anthropic", "sonnet">>) /\ Named(<<"openai", "gpt">>) /\ Named(<<"google", "gemini">>)
      /\ Named(<<"bytedance", "doubao">>) /\ Named(<<"alibaba", "qwen3">>) /\ Named(<<"tencent", "glm">>)
      /\ Named(<<"github", "gpt">>) /\ Named(<<"github", "sonnet">>) /\ Named(<<"github", "gemini">>)
  BY DEF Named
<1>3. CASE cli = "claude"
  BY <1>2, <1>3, NamedLists DEF Catalog
<1>4. CASE cli = "codex"
  BY <1>2, <1>4, NamedLists DEF Catalog
<1>5. CASE cli = "opencode"
  BY <1>2, <1>5, NamedLists DEF Catalog
<1>6. CASE cli = "openclaw"
  BY <1>2, <1>6, NamedLists DEF Catalog
<1>7. CASE cli = "qwen"
  BY <1>2, <1>7, NamedLists DEF Catalog
<1>8. CASE cli = "gemini"
  BY <1>2, <1>8, NamedLists DEF Catalog
<1>9. CASE cli = "codebuddy"
  BY <1>2, <1>9, NamedLists DEF Catalog
<1>10. CASE cli = "copilot"
  BY <1>2, <1>10, NamedLists DEF Catalog
<1>11. CASE cli = "droid"
  BY <1>11, NamedLists DEF Catalog
<1> QED
  BY <1>1, <1>3, <1>4, <1>5, <1>6, <1>7, <1>8, <1>9, <1>10, <1>11


LEMMA PlaceOfAgent ==
  ASSUME NEW at \in 1..9
  PROVE  First(KnownAgents, LAMBDA a : a = KnownAgents[at]) <= at
<1> DEFINE I == {i \in 1..9 : KnownAgents[i] = KnownAgents[at]}
<1>1. First(KnownAgents, LAMBDA a : a = KnownAgents[at]) = IF I # {} THEN Min(I) ELSE 0
  BY KnownPlaces DEF First, SelectInSeq
<1>2. at \in I /\ I \in SUBSET Nat
  OBVIOUS
<1> HIDE DEF I
<1> QED
  BY <1>1, <1>2, LeastOf

\* Without a model the first agent that is there.
LEMMA DefaultRoute ==
  ASSUME NEW adapters \in SUBSET Known
  PROVE  /\ adapters = {} => ResolveDefault(adapters) = {}
         /\ adapters # {} => \E at, model :
              /\ at \in 1..9
              /\ ResolveDefault(adapters) = {[cli |-> KnownAgents[at], model |-> model]}
              /\ KnownAgents[at] \in adapters
              /\ \A i \in 1..9 : KnownAgents[i] \in adapters => at <= i
<1> DEFINE I == {i \in 1..9 : KnownAgents[i] \in adapters}
           at == IF I # {} THEN Min(I) ELSE 0
           model == IF Catalog[KnownAgents[at]] = <<>> THEN "" ELSE Catalog[KnownAgents[at]][1][2]
<1>1. First(KnownAgents, LAMBDA a : a \in adapters) = at
  BY KnownPlaces DEF First, SelectInSeq
<1> HIDE DEF at
<1>2. ResolveDefault(adapters) = IF at = 0 THEN {} ELSE {[cli |-> KnownAgents[at], model |-> model]}
  BY <1>1 DEF ResolveDefault
<1>3. adapters = {} <=> I = {}
  <2>1. \A a \in adapters : \E i \in 1..9 : KnownAgents[i] = a
    BY KnownPlaces
  <2> QED
    BY <2>1
<1>0. I \in SUBSET Nat /\ 0 \notin I
  OBVIOUS
<1> HIDE DEF I
<1>4. at = 0 <=> I = {}
  BY <1>0, LeastOf DEF at
<1>5. at # 0 => at \in I /\ \A i \in I : at <= i
  BY <1>0, LeastOf DEF at
<1>6. at # 0 => at \in 1..9 /\ KnownAgents[at] \in adapters /\ \A i \in 1..9 : KnownAgents[i] \in adapters => at <= i
  BY <1>5 DEF I
<1> QED
  BY <1>2, <1>3, <1>4, <1>6

\* The place of a name in a catalogue.
LEMMA Serving ==
  ASSUME NEW cli \in Known, NEW name, ServesAt(cli, name) # 0
  PROVE  /\ Named(Catalog[cli][ServesAt(cli, name)])
         /\ Catalog[cli][ServesAt(cli, name)][2] = name
<1>1. PICK n \in Nat : /\ Len(Catalog[cli]) = n /\ DOMAIN Catalog[cli] = 1..n
                       /\ \A i \in 1..n : Named(Catalog[cli][i])
  BY CatalogNames DEF AllNamed
<1> DEFINE I == {i \in 1..n : Catalog[cli][i][2] = name}
<1>2. ServesAt(cli, name) = IF I # {} THEN Min(I) ELSE 0
  BY <1>1 DEF ServesAt, First, SelectInSeq
<1>3. ServesAt(cli, name) \in I
  <2>1. I # {}
    BY <1>2
  <2>2. I \in SUBSET Nat
    OBVIOUS
  <2> HIDE DEF I
  <2> QED
    BY <1>2, <2>1, <2>2, LeastOf
<1> QED
  BY <1>1, <1>3

\* A bare name is completed by an agent that serves it, if there is one.
LEMMA BareName ==
  ASSUME NEW model, Len(model) = 1
  PROVE  \/ ResolveModel(model) = {}
         \/ \E cli, provider :
              /\ cli \in Known
              /\ ServesAt(cli, model[1]) # 0 /\ provider # "" /\ model[1] # ""
              /\ ResolveModel(model) = {<<cli, provider, model[1]>>}
<1> DEFINE I == {i \in 1..9 : ServesAt(KnownAgents[i], model[1]) # 0}
           at == IF I # {} THEN Min(I) ELSE 0
           cli == KnownAgents[at]
           entry == Catalog[cli][ServesAt(cli, model[1])]
<1>1. First(KnownAgents, LAMBDA a : ServesAt(a, model[1]) # 0) = at
  BY KnownPlaces DEF First, SelectInSeq
<1>2. at # 0 => at \in I
  BY KnownPlaces, FirstPlace
<1> HIDE DEF at, I
<1>3. ResolveModel(model) = IF at = 0 THEN {} ELSE {<<cli, entry[1], model[1]>>}
  BY <1>1 DEF ResolveModel
<1>4. CASE at # 0
  <2>1. cli \in Known /\ ServesAt(cli, model[1]) # 0
    BY <1>2, <1>4, KnownPlaces DEF I
  <2>2. entry[1] # "" /\ entry[2] # "" /\ entry[2] = model[1]
    BY <2>1, Serving DEF Named
  <2> QED
    BY <1>3, <1>4, <2>1, <2>2
<1> QED
  BY <1>3, <1>4

LEMMA Triple ==
  ASSUME NEW x, NEW y, NEW z
  PROVE  /\ Len(<<x, y, z>>) = 3
         /\ <<x, y, z>>[1] = x /\ <<x, y, z>>[2] = y /\ <<x, y, z>>[3] = z
         /\ \A i \in DOMAIN <<x, y, z>> : i \in {1, 2, 3}
OBVIOUS

\* A whole name, for the agent it names.
LEMMA WholeName ==
  ASSUME NEW cli, NEW provider, NEW name, "" \notin {cli, provider, name}
  PROVE  Parse(<<cli, provider, name>>) = {[cli |-> Lower(cli), model |-> name]}
<1> DEFINE model == <<cli, provider, name>>
<1>1. /\ Len(model) = 3
      /\ model[1] = cli /\ model[2] = provider /\ model[3] = name
      /\ \A i \in DOMAIN model : i \in {1, 2, 3}
  BY ONLY Triple
<1> HIDE DEF model
<1>3. "" \notin ToSet(model)
  BY <1>1 DEF ToSet
<1>4. Parse(model) = {[cli |-> Lower(cli), model |-> name]}
  BY <1>1, <1>3 DEF Parse
<1> QED
  BY <1>4 DEF model

\* Where the request is routed to, by its model name.
LEMMA RouteFits ==
  ASSUME ask \in Asks, ~Unlisted, Routed, Adapters(cfg) \in SUBSET Known
  PROVE  \/ /\ ask.model = <<>>
            /\ target = ResolveDefault(Adapters(cfg))
         \/ /\ ask.model # <<>> /\ target = {} /\ (BareToNative \/ Wanted = {})
         \/ /\ ask.model # <<>>
            /\ \E r : /\ target = {r} /\ r.model = Last(ask.model) /\ r.cli \in Wanted
<1>1. ask.api \in Apis /\ ask.model \in Seq(STRING)
  BY RequestAssumption DEF Apis
<1>2. Len(ask.model) \in Nat /\ (Len(ask.model) = 0 <=> ask.model = <<>>)
  BY <1>1, EmptySeq
<1>3. CASE ask.model = <<>>
  <2>1. Names = {<<>>}
    BY <1>2, <1>3 DEF Names, ResolveModel
  <2>2. Or(Names, <<>>) = <<>>
    BY <2>1 DEF Or
  <2> QED
    BY <1>3, <2>2 DEF Routed, ResolveRoute
<1>4. CASE Len(ask.model) = 1 /\ ask.api # "native"
  <2>1. Names = ResolveModel(ask.model) /\ Names # {}
    BY <1>4 DEF Names, Unlisted
  <2>2. PICK cli, provider :
          /\ cli \in Known
          /\ ServesAt(cli, ask.model[1]) # 0 /\ provider # "" /\ ask.model[1] # ""
          /\ Names = {<<cli, provider, ask.model[1]>>}
    BY <1>4, <2>1, BareName
  <2>3. Or(Names, <<>>) = <<cli, provider, ask.model[1]>> /\ <<cli, provider, ask.model[1]>> # <<>>
    BY <2>2 DEF Or
  <2>4. target = {[cli |-> Lower(cli), model |-> ask.model[1]]}
    <3>1. target = Parse(<<cli, provider, ask.model[1]>>)
      BY <2>3 DEF Routed, ResolveRoute
    <3>2. cli # ""
      BY <2>2, KnownPlaces
    <3>3. "" \notin {cli, provider, ask.model[1]}
      BY <2>2, <3>2
    <3>4. Parse(<<cli, provider, ask.model[1]>>) = {[cli |-> Lower(cli), model |-> ask.model[1]]}
      BY ONLY <3>3, WholeName
    <3> QED
      BY <3>1, <3>4
  <2>5. Wanted = {a \in Known : ServesAt(a, ask.model[1]) # 0}
    BY <1>2, <1>4 DEF Wanted
  <2>6. Last(ask.model) = ask.model[1]
    BY <1>4 DEF Last
  <2>7. Lower(cli) \in Wanted
    BY <2>2, <2>5, KnownPlaces
  <2>8. ask.model # <<>>
    BY <1>2, <1>4
  <2> DEFINE r == [cli |-> Lower(cli), model |-> ask.model[1]]
  <2>9. target = {r} /\ r.model = Last(ask.model) /\ r.cli \in Wanted
    BY <2>4, <2>6, <2>7
  <2> QED
    BY <2>8, <2>9
<1>5. CASE ask.model # <<>> /\ ~(Len(ask.model) = 1 /\ ask.api # "native")
  <2>1. Names = {ask.model}
    BY <1>5 DEF Names, ResolveModel
  <2>2. target = Parse(ask.model)
    <3>1. Or(Names, <<>>) = ask.model
      BY <2>1 DEF Or
    <3> QED
      BY <1>5, <3>1 DEF Routed, ResolveRoute
  <2>3. CASE Len(ask.model) = 3 /\ "" \notin ToSet(ask.model)
    <3>1. target = {[cli |-> Lower(ask.model[1]), model |-> ask.model[3]]}
      BY <2>2, <2>3 DEF Parse
    <3>2. Wanted = {Lower(ask.model[1])}
      <4>2. Len(ask.model) = 3
        BY <2>3
      <4>1. ask.model # <<>> /\ Len(ask.model) # 1
        BY <1>5, <4>2
      <4> QED
        BY <2>3, <4>1 DEF Wanted
    <3>3. Last(ask.model) = ask.model[3]
      BY <2>3 DEF Last
    <3> DEFINE r == [cli |-> Lower(ask.model[1]), model |-> ask.model[3]]
    <3>4. target = {r} /\ r.model = Last(ask.model) /\ r.cli \in Wanted
      BY <3>1, <3>2, <3>3
    <3> QED
      BY <1>5, <3>4
  <2>4. CASE ~(Len(ask.model) = 3 /\ "" \notin ToSet(ask.model))
    <3>1. target = {}
      BY <2>2, <2>4 DEF Parse
    <3>2. BareToNative \/ Wanted = {}
      BY <1>1, <1>2, <1>5, <2>4 DEF Wanted, BareToNative, Apis
    <3> QED
      BY <1>5, <3>1, <3>2
  <2> QED
    BY <2>3, <2>4
<1> QED
  BY <1>3, <1>4, <1>5


LEMMA ChosenAsConfigured ==
  ASSUME RouteInv, pc \in Chosen
  PROVE  /\ MayCall /\ ~BadRequest /\ ~Unlisted
         /\ Route.cli \in Wanted /\ EnabledByConfig(Route.cli)
         /\ ask.model = <<>> =>
              \A i \in DOMAIN KnownAgents : EnabledByConfig(KnownAgents[i]) =>
                i >= First(KnownAgents, LAMBDA a : a = Route.cli)
         /\ ask.model # <<>> => Route.model = Last(ask.model)
<1>1. /\ ask \in Asks /\ MayCall /\ ~BadRequest /\ ~Unlisted /\ Routed
      /\ target # {} /\ Route.cli \in Adapters(cfg)
  BY DEF RouteInv, Progress, Allowed, Decoded, Resolved, Found
<1>2. Adapters(cfg) = {a \in Known : EnabledByConfig(a)}
  BY DEF RouteInv, ConfigHeld, Chosen
<1>3. Route.cli \in Known /\ EnabledByConfig(Route.cli)
  BY <1>1, <1>2
<1>4. Adapters(cfg) \in SUBSET Known
  BY <1>2
<1>5. \/ /\ ask.model = <<>>
         /\ target = ResolveDefault(Adapters(cfg))
      \/ /\ ask.model # <<>> /\ target = {} /\ (BareToNative \/ Wanted = {})
      \/ /\ ask.model # <<>>
         /\ \E r : /\ target = {r} /\ r.model = Last(ask.model) /\ r.cli \in Wanted
  BY <1>1, <1>4, RouteFits
<1>6. CASE ask.model = <<>>
  <2>1. target = ResolveDefault(Adapters(cfg))
    BY <1>5, <1>6
  <2>2. PICK at, model :
          /\ at \in 1..9
          /\ target = {[cli |-> KnownAgents[at], model |-> model]}
          /\ \A i \in 1..9 : KnownAgents[i] \in Adapters(cfg) => at <= i
    BY <1>1, <1>4, <2>1, DefaultRoute
  <2>3. Route.cli = KnownAgents[at]
    <3> DEFINE r == [cli |-> KnownAgents[at], model |-> model]
    <3>1. target = {r} /\ r.cli = KnownAgents[at]
      BY <2>2
    <3> HIDE DEF r
    <3> QED
      BY <3>1 DEF Route
  <2>4. First(KnownAgents, LAMBDA a : a = KnownAgents[at]) <= at
    BY <2>2, PlaceOfAgent
  <2> DEFINE first == First(KnownAgents, LAMBDA a : a = KnownAgents[at])
  <2>5. first \in Nat
    <3> DEFINE I == {i \in 1..9 : KnownAgents[i] = KnownAgents[at]}
    <3>1. first = IF I # {} THEN Min(I) ELSE 0
      BY KnownPlaces DEF First, SelectInSeq
    <3>2. I \in SUBSET Nat
      OBVIOUS
    <3> HIDE DEF I
    <3> QED
      BY <3>1, <3>2, LeastOf
  <2>6. first = First(KnownAgents, LAMBDA a : a = Route.cli)
    BY <2>3
  <2> HIDE DEF first
  <2>7. ASSUME NEW i \in DOMAIN KnownAgents, EnabledByConfig(KnownAgents[i])
        PROVE  i >= first
    <3>1. i \in 1..9 /\ KnownAgents[i] \in Known
      BY KnownPlaces
    <3>2. KnownAgents[i] \in Adapters(cfg)
      BY <1>2, <2>7, <3>1
    <3>3. at <= i
      BY ONLY <2>2, <3>1, <3>2
    <3> QED
      BY <2>2, <2>4, <2>5, <3>1, <3>3 DEF first
  <2>8. Wanted = Known
    BY <1>6 DEF Wanted
  <2> QED
    BY <1>1, <1>3, <1>6, <2>6, <2>7, <2>8
<1>7. CASE ask.model # <<>>
  <2>1. PICK r : target = {r} /\ r.model = Last(ask.model) /\ r.cli \in Wanted
    BY <1>1, <1>5, <1>7
  <2>2. Route = r
    BY <2>1 DEF Route
  <2> QED
    BY <1>1, <1>3, <1>7, <2>1, <2>2
<1> QED
  BY <1>6, <1>7

LEMMA RefusedAsConfigured ==
  ASSUME RouteInv, pc = "refused"
  PROVE  /\ status \in Told
         /\ status = 502 /\ hitch = "none" /\ ~BareToNative =>
              IF ask.model = <<>> THEN \A a \in Known : ~EnabledByConfig(a)
              ELSE Wanted = {} \/ \E a \in Wanted : ~EnabledByConfig(a)
<1>1. ask \in Asks /\ Refusal
  BY DEF RouteInv
<1>2. Adapters(cfg) = {a \in Known : EnabledByConfig(a)}
  BY DEF RouteInv, ConfigHeld
<1>3. status \in Told
  BY <1>1 DEF Refusal, Told
<1>4. ASSUME status = 502, hitch = "none", ~BareToNative
      PROVE  IF ask.model = <<>> THEN \A a \in Known : ~EnabledByConfig(a)
             ELSE Wanted = {} \/ \E a \in Wanted : ~EnabledByConfig(a)
  <2>1. ~Unlisted /\ Routed /\ ~Found
    BY <1>1, <1>4 DEF Refusal
  <2>2. Adapters(cfg) \in SUBSET Known
    BY <1>2
  <2>3. \/ /\ ask.model = <<>>
           /\ target = ResolveDefault(Adapters(cfg))
        \/ /\ ask.model # <<>> /\ target = {} /\ Wanted = {}
        \/ /\ ask.model # <<>>
           /\ \E r : /\ target = {r} /\ r.model = Last(ask.model) /\ r.cli \in Wanted
    BY <1>1, <1>4, <2>1, <2>2, RouteFits
  <2>4. CASE ask.model = <<>>
    <3>1. target = ResolveDefault(Adapters(cfg))
      BY <2>3, <2>4
    <3>2. Adapters(cfg) = {}
      <4> SUFFICES ASSUME Adapters(cfg) # {} PROVE FALSE
        OBVIOUS
      <4>1. PICK at, model :
              /\ at \in 1..9
              /\ target = {[cli |-> KnownAgents[at], model |-> model]}
              /\ KnownAgents[at] \in Adapters(cfg)
        BY <2>2, <3>1, DefaultRoute
      <4> DEFINE r == [cli |-> KnownAgents[at], model |-> model]
      <4>2. target = {r} /\ r.cli = KnownAgents[at]
        BY <4>1
      <4> HIDE DEF r
      <4>3. Route.cli = KnownAgents[at] /\ target # {}
        BY <4>2 DEF Route
      <4> QED
        BY <2>1, <4>1, <4>3 DEF Found
    <3> QED
      BY <1>2, <2>4, <3>2
  <2>5. CASE ask.model # <<>> /\ target = {} /\ Wanted = {}
    BY <2>5
  <2>6. CASE ask.model # <<>> /\ \E r : /\ target = {r} /\ r.model = Last(ask.model) /\ r.cli \in Wanted
    <3>1. PICK r : target = {r} /\ r.cli \in Wanted
      BY <2>6
    <3>2. Route = r
      BY <3>1 DEF Route
    <3>3. r.cli \notin Adapters(cfg)
      BY <2>1, <3>1, <3>2 DEF Found
    <3>4. ~EnabledByConfig(r.cli)
      BY <1>2, <3>3 DEF EnabledByConfig
    <3> QED
      BY <2>6, <3>1, <3>4
  <2> QED
    BY <2>3, <2>4, <2>5, <2>6
<1> QED
  BY <1>3, <1>4

\* A CLI runs only for a client with the right key, and it is one the client asked
\* for that the configuration enables; with no model named it is the first of those,
\* and a refused client is told why, but for the cases Told and BareToNative leave
\* open. For every configuration file, environment and request (Load, authMiddleware,
\* resolveModel, resolveRoute, StartRun).
THEOREM OnlyAsConfigured == Spec => []RunsAsConfigured
<1>1. RouteInv /\ AnswerInv => RunsAsConfigured
  <2> SUFFICES ASSUME RouteInv, AnswerInv PROVE RunsAsConfigured
    OBVIOUS
  <2>1. pc = "refused" => run = "none"
    BY DEF AnswerInv, ChannelInv, NotYet
  <2>3. pc = "refused" /\ status = 502 /\ (BareToNative => ~MayCall \/ BadRequest) => ~BareToNative
    <3> SUFFICES ASSUME pc = "refused", status = 502, ~MayCall \/ BadRequest PROVE FALSE
      OBVIOUS
    <3> QED
      BY RefusedAsConfigured DEF Told
  <2>2. pc \in {"launched", "lead", "stream", "collect", "answered", "left"} => pc \in Chosen
    BY DEF Chosen
  <2> QED
    BY <2>1, <2>2, <2>3, ChosenAsConfigured, RefusedAsConfigured DEF RunsAsConfigured
<1> QED
  BY <1>1, RouteInvariant, AnswerInvariant, PTL


-----------------------------------------------------------------------------
(* The arguments: what the filters leave of them                              *)

OurFlags == {
  "-p", "--output-format", "--input-format", "--verbose", "--strict-mcp-config", "--permission-mode",
  "--disallowedTools", "--model", "--effort", "--max-turns", "--append-system-prompt", "--resume",
  "--mcp-config", "app-server", "--listen", "run", "--format", "--dangerously-skip-permissions",
  "--dir", "--variant", "--prompt", "--session", "prompt", "agent", "--local", "--json",
  "--session-id", "--timeout", "--agent", "--message", "--bare", "--yolo", "-m",
  "--max-session-turns", "--print", "--system-prompt", "--acp", "--additional-mcp-config"}

Texts     == STRING \cup OurFlags \cup {"a value"}
Roles     == {"flag", "pair", "value", "ours"}
AllTokens == [text : Texts, role : Roles, quoted : BOOLEAN]
Readings  == [kept : Seq(AllTokens), skip : BOOLEAN]

LEMMA FilterTypes ==
  ASSUME NEW blocked, NEW soFar \in Readings, NEW token \in AllTokens
  PROVE  FilterArg(blocked, soFar, token) \in Readings
<1> DEFINE plain == unshellQuoteArg(token)
<1>1. plain \in AllTokens
  BY DEF unshellQuoteArg, AllTokens
<1>2. Append(soFar.kept, plain) \in Seq(AllTokens)
  BY <1>1, AppendProperties DEF Readings
<1> HIDE DEF plain
<1>3. CASE soFar.skip
  BY <1>3 DEF FilterArg, Readings
<1>4. CASE ~soFar.skip /\ plain.role # "value" /\ plain.text \in DOMAIN blocked
  BY <1>4 DEF FilterArg, Readings, plain
<1>5. CASE ~soFar.skip /\ ~(plain.role # "value" /\ plain.text \in DOMAIN blocked)
  BY <1>2, <1>5 DEF FilterArg, Readings, plain
<1> QED
  BY <1>3, <1>4, <1>5

Nothing == [kept |-> <<>>, skip |-> FALSE]

\* What reads any part of the arguments has read them all in the end.
LEMMA ReadIs ==
  ASSUME NEW blocked, NEW args \in Seq(AllTokens), NEW g \in [0..Len(args) -> Readings],
         g[0] = Nothing,
         \A i \in 1..Len(args) : g[i] = FilterArg(blocked, g[i - 1], args[i])
  PROVE  ReadArgs(args, blocked) = g[Len(args)]
<1> DEFINE L == Len(args)
           IsRead(f) == f = [n \in 0..L |->
                               IF n = 0 THEN Nothing ELSE FilterArg(blocked, f[n - 1], args[n])]
           read == CHOOSE f : IsRead(f)
<1>1. L \in Nat
  BY LenProperties
<1>2. IsRead(g)
  <2>1. ASSUME NEW n \in 0..L
        PROVE  g[n] = IF n = 0 THEN Nothing ELSE FilterArg(blocked, g[n - 1], args[n])
    OBVIOUS
  <2> QED
    BY <2>1
<1>3. IsRead(read)
  <2> HIDE DEF IsRead
  <2> QED
    BY <1>2
<1>4. \A n \in 0..L : read[n] = IF n = 0 THEN Nothing ELSE FilterArg(blocked, read[n - 1], args[n])
  <2> HIDE DEF read
  <2> QED
    BY <1>3
<1>5. ReadArgs(args, blocked) = read[L]
  BY DEF ReadArgs, Nothing
<1> HIDE DEF read
<1> DEFINE N == {n \in Nat : n \in 0..L => read[n] = g[n]}
<1>6. 0 \in N
  BY <1>1, <1>4
<1>7. ASSUME NEW n \in Nat, n \in N PROVE n + 1 \in N
  <2> SUFFICES ASSUME n + 1 \in 0..L PROVE read[n + 1] = g[n + 1]
    OBVIOUS
  <2>1. n \in 0..L /\ n + 1 # 0 /\ (n + 1) - 1 = n /\ n + 1 \in 1..L
    BY <1>1
  <2>2. read[n] = g[n]
    BY <2>1, <1>7
  <2>3. g[n + 1] = FilterArg(blocked, g[n], args[n + 1])
    BY <2>1
  <2> QED
    BY <1>4, <2>1, <2>2, <2>3
<1>8. Nat \subseteq N
  <2> HIDE DEF N
  <2> QED
    BY <1>6, <1>7, NatSetInduction
<1> QED
  BY <1>1, <1>5, <1>8

LEMMA ReadNothing ==
  ASSUME NEW blocked
  PROVE  ReadArgs(<<>>, blocked) = Nothing
<1> DEFINE e == [i \in 0..0 |-> Nothing]
<1>1. Nothing \in Readings
  BY EmptySeq DEF Nothing, Readings
<1>2. e \in [0..0 -> Readings] /\ e[0] = Nothing /\ <<>> \in Seq(AllTokens) /\ Len(<<>>) = 0
  BY <1>1, EmptySeq
<1> HIDE DEF e
<1> QED
  BY <1>2, ReadIs

LEMMA ReadAppend ==
  ASSUME NEW blocked, NEW args \in Seq(AllTokens), NEW token \in AllTokens
  PROVE  /\ ReadArgs(args, blocked) \in Readings
         /\ ReadArgs(Append(args, token), blocked) = FilterArg(blocked, ReadArgs(args, blocked), token)
<1> DEFINE all  == Append(args, token)
           L    == Len(args)
           step == [p \in (1..(L + 1)) \X Readings |-> FilterArg(blocked, p[2], all[p[1]])]
<1>1. /\ L \in Nat /\ all \in Seq(AllTokens) /\ Len(all) = L + 1 /\ all[L + 1] = token
      /\ \A i \in 1..L : all[i] = args[i]
      /\ \A i \in 1..(L + 1) : all[i] \in AllTokens
  <2>1. L \in Nat /\ all \in Seq(AllTokens) /\ Len(all) = L + 1 /\ all[L + 1] = token
        /\ \A i \in 1..L : all[i] = args[i]
    BY LenProperties, AppendProperties
  <2>2. \A i \in 1..(L + 1) : all[i] \in AllTokens
    <3> HIDE DEF all
    <3> QED
      BY <2>1, ElementOfSeq
  <2> QED
    BY <2>1, <2>2
<1> HIDE DEF all
<1>2. Nothing \in Readings
  BY EmptySeq DEF Nothing, Readings
<1>3. step \in [(1..(L + 1)) \X Readings -> Readings]
  BY <1>1, FilterTypes
<1>4. PICK g : Iterates(g, Readings, Nothing, L + 1, step)
  <2>1. L + 1 \in Nat
    BY <1>1
  <2> HIDE DEF step, L
  <2> QED
    BY <1>2, <1>3, <2>1, Recursion
<1>5. /\ g \in [0..(L + 1) -> Readings] /\ g[0] = Nothing
      /\ \A i \in 1..(L + 1) : g[i] = FilterArg(blocked, g[i - 1], all[i])
  <2>1. /\ g \in [0..(L + 1) -> Readings] /\ g[0] = Nothing
        /\ \A i \in 1..(L + 1) : g[i] = step[<<i, g[i - 1]>>]
    BY <1>4 DEF Iterates
  <2>2. \A i \in 1..(L + 1) : i - 1 \in 0..(L + 1)
    BY <1>1
  <2> QED
    BY <2>1, <2>2
<1> HIDE DEF step
<1> DEFINE h == [i \in 0..L |-> g[i]]
<1>6. /\ h \in [0..L -> Readings] /\ h[0] = Nothing /\ h[L] = g[L] /\ g[L] \in Readings
      /\ \A i \in 1..L : h[i] = FilterArg(blocked, h[i - 1], args[i])
  <2>1. \A i \in 1..L : i - 1 \in 0..L /\ i \in 0..L /\ i \in 1..(L + 1) /\ all[i] = args[i]
    BY <1>1
  <2>2. \A i \in 1..L : h[i] = g[i] /\ h[i - 1] = g[i - 1]
    BY <2>1
  <2>3. h \in [0..L -> Readings] /\ h[0] = Nothing /\ h[L] = g[L] /\ g[L] \in Readings
    BY <1>1, <1>5
  <2> HIDE DEF h
  <2> QED
    BY <1>5, <2>1, <2>2, <2>3
<1> HIDE DEF h
<1>7. ReadArgs(args, blocked) = g[L]
  BY <1>6, ReadIs
<1>8. ReadArgs(all, blocked) = g[L + 1]
  BY <1>1, <1>5, ReadIs
<1>9. g[L + 1] = FilterArg(blocked, g[L], token)
  BY <1>1, <1>5
<1> QED
  BY <1>6, <1>7, <1>8, <1>9 DEF all


AllOptions == [name : STRING, style : {"separate", "inline", "alone"}, quoted : BOOLEAN]

\* o comes with a value if blocked says that it takes one.
FitsTo(o, blocked) ==
  o.name \in DOMAIN blocked =>
    /\ blocked[o.name] = "withValue" => o.style # "alone"
    /\ blocked[o.name] # "withValue" => o.style # "separate"

Plain(o) == [o EXCEPT !.quoted = FALSE]

LEMMA PlainIs ==
  ASSUME NEW o \in AllOptions
  PROVE  /\ Plain(o) \in AllOptions /\ Plain(o).name = o.name /\ Plain(o).style = o.style
         /\ Plain(o).quoted = FALSE /\ Plain(Plain(o)) = Plain(o)
         /\ \A blocked : FitsTo(o, blocked) => FitsTo(Plain(o), blocked)
BY DEF Plain, AllOptions, FitsTo

LEMMA TokenTypes ==
  ASSUME NEW o \in AllOptions
  PROVE  Tokens(o) \in Seq(AllTokens)
<1>1. /\ [text |-> o.name, role |-> "flag", quoted |-> o.quoted] \in AllTokens
      /\ [text |-> "a value", role |-> "value", quoted |-> o.quoted] \in AllTokens
      /\ [text |-> o.name, role |-> "pair", quoted |-> o.quoted] \in AllTokens
  BY DEF AllTokens, Texts, Roles, AllOptions
<1>2. \A x, y \in AllTokens : <<x>> \in Seq(AllTokens) /\ <<x, y>> \in Seq(AllTokens)
  OBVIOUS
<1>3. o.style \in {"separate", "inline", "alone"}
  BY DEF AllOptions
<1> QED
  BY <1>1, <1>2, <1>3 DEF Tokens

LEMMA TokenIs ==
  ASSUME NEW t \in AllTokens, NEW q
  PROVE  /\ t = [text |-> t.text, role |-> t.role, quoted |-> t.quoted]
         /\ [t EXCEPT !.quoted = q] = [text |-> t.text, role |-> t.role, quoted |-> q]
BY DEF AllTokens

LEMMA FilterOne ==
  ASSUME NEW blocked, NEW kept \in Seq(AllTokens), NEW token \in AllTokens, NEW plain \in AllTokens,
         plain.text = token.text, plain.role = token.role, plain.quoted = FALSE
  PROVE  /\ FilterArg(blocked, [kept |-> kept, skip |-> TRUE], token) = [kept |-> kept, skip |-> FALSE]
         /\ ~(token.role # "value" /\ token.text \in DOMAIN blocked) =>
              FilterArg(blocked, [kept |-> kept, skip |-> FALSE], token)
              = [kept |-> Append(kept, plain), skip |-> FALSE]
         /\ token.role # "value" /\ token.text \in DOMAIN blocked =>
              FilterArg(blocked, [kept |-> kept, skip |-> FALSE], token)
              = [kept |-> kept, skip |-> blocked[token.text] = "withValue" /\ token.role # "pair"]
<1>1. unshellQuoteArg(token) = plain
  <2>1. plain = [text |-> plain.text, role |-> plain.role, quoted |-> plain.quoted]
    BY TokenIs
  <2>2. [token EXCEPT !.quoted = plain.quoted]
        = [text |-> token.text, role |-> token.role, quoted |-> plain.quoted]
    BY TokenIs, ZenonT(40)
  <2>3. [token EXCEPT !.quoted = plain.quoted] = plain
    BY <2>1, <2>2
  <2> QED
    BY <2>3, Zenon DEF unshellQuoteArg
<1>2. \A b \in BOOLEAN, r \in Readings :
        [r EXCEPT !.skip = b] = [kept |-> r.kept, skip |-> b]
  BY DEF Readings
<1>3. \A k \in Seq(AllTokens), r \in Readings :
        [r EXCEPT !.kept = k] = [kept |-> k, skip |-> r.skip]
  BY DEF Readings
<1> DEFINE on == [kept |-> kept, skip |-> FALSE]
           skipping == [kept |-> kept, skip |-> TRUE]
           mode == blocked[token.text] = "withValue" /\ token.role # "pair"
<1>4. /\ on \in Readings /\ on.kept = kept /\ on.skip = FALSE
      /\ skipping \in Readings /\ skipping.kept = kept /\ skipping.skip = TRUE
      /\ mode \in BOOLEAN /\ Append(kept, plain) \in Seq(AllTokens)
  BY AppendProperties DEF Readings
<1> HIDE DEF on, skipping, mode
<1>5. FilterArg(blocked, skipping, token) = [kept |-> kept, skip |-> FALSE]
  BY <1>2, <1>4 DEF FilterArg
<1>6. ~(token.role # "value" /\ token.text \in DOMAIN blocked) =>
        FilterArg(blocked, on, token) = [kept |-> Append(kept, plain), skip |-> FALSE]
  BY <1>1, <1>3, <1>4 DEF FilterArg
<1>7. token.role # "value" /\ token.text \in DOMAIN blocked =>
        FilterArg(blocked, on, token) = [kept |-> kept, skip |-> mode]
  BY <1>1, <1>2, <1>4 DEF FilterArg, mode
<1> QED
  BY <1>5, <1>6, <1>7 DEF on, skipping, mode

\* One option more: it is kept, without its quotes, or dropped with its value.
LEMMA ReadOption ==
  ASSUME NEW blocked, NEW args \in Seq(AllTokens), NEW o \in AllOptions, FitsTo(o, blocked),
         ReadArgs(args, blocked).skip = FALSE
  PROVE  ReadArgs(args \o Tokens(o), blocked) =
           [kept |-> ReadArgs(args, blocked).kept \o If(o.name \notin DOMAIN blocked, Tokens(Plain(o))),
            skip |-> FALSE]
<1> DEFINE read == ReadArgs(args, blocked)
           flag == [text |-> o.name, role |-> "flag", quoted |-> o.quoted]
           value == [text |-> "a value", role |-> "value", quoted |-> o.quoted]
           pair == [text |-> o.name, role |-> "pair", quoted |-> o.quoted]
           pflag == [text |-> o.name, role |-> "flag", quoted |-> FALSE]
           pvalue == [text |-> "a value", role |-> "value", quoted |-> FALSE]
           ppair == [text |-> o.name, role |-> "pair", quoted |-> FALSE]
<1>1. flag \in AllTokens /\ value \in AllTokens /\ pair \in AllTokens
  BY DEF AllTokens, Texts, Roles, AllOptions
<1>p. pflag \in AllTokens /\ pvalue \in AllTokens /\ ppair \in AllTokens
  BY DEF AllTokens, Texts, Roles, AllOptions
<1>2. read \in Readings /\ read.skip = FALSE
  BY <1>1, ReadAppend
<1>3. read.kept \in Seq(AllTokens) /\ read = [kept |-> read.kept, skip |-> FALSE]
  BY <1>2 DEF Readings
<1>4. /\ flag.text = o.name /\ flag.role = "flag" /\ pflag.text = o.name /\ pflag.role = "flag" /\ pflag.quoted = FALSE
      /\ pair.text = o.name /\ pair.role = "pair" /\ ppair.text = o.name /\ ppair.role = "pair" /\ ppair.quoted = FALSE
      /\ value.text = "a value" /\ value.role = "value" /\ pvalue.text = "a value" /\ pvalue.role = "value"
      /\ pvalue.quoted = FALSE
  OBVIOUS
<1>5. /\ \A kept \in Seq(AllTokens) :
           FilterArg(blocked, [kept |-> kept, skip |-> FALSE], value)
           = [kept |-> Append(kept, pvalue), skip |-> FALSE]
      /\ \A kept \in Seq(AllTokens) :
           FilterArg(blocked, [kept |-> kept, skip |-> TRUE], value) = [kept |-> kept, skip |-> FALSE]
  <2> HIDE DEF value, pvalue
  <2>1. /\ value \in AllTokens /\ pvalue \in AllTokens
        /\ pvalue.text = value.text /\ pvalue.role = value.role /\ pvalue.quoted = FALSE
        /\ ~(value.role # "value" /\ value.text \in DOMAIN blocked)
    BY <1>1, <1>p, <1>4
  <2> QED
    BY ONLY <2>1, FilterOne, ZenonT(40)
<1>6. /\ o.name \notin DOMAIN blocked => \A kept \in Seq(AllTokens) :
           /\ FilterArg(blocked, [kept |-> kept, skip |-> FALSE], flag) = [kept |-> Append(kept, pflag), skip |-> FALSE]
           /\ FilterArg(blocked, [kept |-> kept, skip |-> FALSE], pair) = [kept |-> Append(kept, ppair), skip |-> FALSE]
      /\ o.name \in DOMAIN blocked => \A kept \in Seq(AllTokens) :
           /\ FilterArg(blocked, [kept |-> kept, skip |-> FALSE], flag)
              = [kept |-> kept, skip |-> blocked[o.name] = "withValue"]
           /\ FilterArg(blocked, [kept |-> kept, skip |-> FALSE], pair) = [kept |-> kept, skip |-> FALSE]
  <2> HIDE DEF flag, pflag, pair, ppair
  <2>1. /\ flag \in AllTokens /\ pflag \in AllTokens
        /\ pflag.text = flag.text /\ pflag.role = flag.role /\ pflag.quoted = FALSE
    BY <1>1, <1>p, <1>4
  <2>4. /\ pair \in AllTokens /\ ppair \in AllTokens
        /\ ppair.text = pair.text /\ ppair.role = pair.role /\ ppair.quoted = FALSE
    BY <1>1, <1>p, <1>4
  <2>2. CASE o.name \notin DOMAIN blocked
    <3>1. ~(flag.role # "value" /\ flag.text \in DOMAIN blocked)
      BY <1>4, <2>2
    <3>4. ~(pair.role # "value" /\ pair.text \in DOMAIN blocked)
      BY <1>4, <2>2
    <3>2. \A kept \in Seq(AllTokens) :
            FilterArg(blocked, [kept |-> kept, skip |-> FALSE], flag) = [kept |-> Append(kept, pflag), skip |-> FALSE]
      BY ONLY <2>1, <3>1, FilterOne, ZenonT(40)
    <3>3. \A kept \in Seq(AllTokens) :
            FilterArg(blocked, [kept |-> kept, skip |-> FALSE], pair) = [kept |-> Append(kept, ppair), skip |-> FALSE]
      BY ONLY <2>4, <3>4, FilterOne, ZenonT(40)
    <3> QED
      BY <2>2, <3>2, <3>3
  <2>3. CASE o.name \in DOMAIN blocked
    <3>1. /\ flag.role # "value" /\ flag.text \in DOMAIN blocked
          /\ pair.role # "value" /\ pair.text \in DOMAIN blocked
      BY <1>4, <2>3
    <3>2. \A kept \in Seq(AllTokens) :
            FilterArg(blocked, [kept |-> kept, skip |-> FALSE], flag)
            = [kept |-> kept, skip |-> blocked[flag.text] = "withValue" /\ flag.role # "pair"]
      BY ONLY <2>1, <3>1, FilterOne, ZenonT(40)
    <3>4. \A kept \in Seq(AllTokens) :
            FilterArg(blocked, [kept |-> kept, skip |-> FALSE], pair)
            = [kept |-> kept, skip |-> blocked[pair.text] = "withValue" /\ pair.role # "pair"]
      BY ONLY <2>4, <3>1, FilterOne, ZenonT(40)
    <3>3. /\ (blocked[flag.text] = "withValue" /\ flag.role # "pair") = (blocked[o.name] = "withValue")
          /\ (blocked[pair.text] = "withValue" /\ pair.role # "pair") = FALSE
      BY <1>4
    <3> QED
      BY <2>3, <3>2, <3>3, <3>4
  <2> QED
    BY <2>2, <2>3
<1>7. /\ Append(args, flag) \in Seq(AllTokens)
      /\ ReadArgs(Append(args, flag), blocked) = FilterArg(blocked, read, flag)
      /\ ReadArgs(Append(args, pair), blocked) = FilterArg(blocked, read, pair)
      /\ ReadArgs(Append(Append(args, flag), value), blocked)
         = FilterArg(blocked, ReadArgs(Append(args, flag), blocked), value)
  <2> HIDE DEF flag, value, pair
  <2>1. Append(args, flag) \in Seq(AllTokens)
    BY <1>1, AppendProperties
  <2> QED
    BY <1>1, <2>1, ReadAppend
<1>8. Plain(o).name = o.name /\ Plain(o).style = o.style /\ Plain(o).quoted = FALSE
  BY PlainIs
<1>9. /\ args \o <<flag>> = Append(args, flag) /\ args \o <<pair>> = Append(args, pair)
      /\ args \o <<flag, value>> = Append(Append(args, flag), value)
      /\ read.kept \o <<pflag>> = Append(read.kept, pflag) /\ read.kept \o <<ppair>> = Append(read.kept, ppair)
      /\ read.kept \o <<pflag, pvalue>> = Append(Append(read.kept, pflag), pvalue)
  <2> HIDE DEF flag, value, pair, pflag, pvalue, ppair, read
  <2>1. \A s \in Seq(AllTokens), x, y \in AllTokens :
          s \o <<x>> = Append(s, x) /\ s \o <<x, y>> = Append(Append(s, x), y)
    OBVIOUS
  <2> QED
    BY <1>1, <1>p, <1>3, <2>1
<1>10. read.kept \o <<>> = read.kept
  BY <1>3, ConcatEmptySeq
<1>11. CASE o.style = "separate"
  <2>1. Tokens(o) = <<flag, value>> /\ Tokens(Plain(o)) = <<pflag, pvalue>>
    BY <1>8, <1>11 DEF Tokens
  <2> HIDE DEF flag, value, pair, pflag, pvalue, ppair, read
  <2>2. CASE o.name \in DOMAIN blocked
    <3>1. blocked[o.name] = "withValue"
      BY <1>11, <2>2 DEF FitsTo
    <3>0. (blocked[o.name] = "withValue") = TRUE
      BY <3>1
    <3>2. FilterArg(blocked, read, flag) = [kept |-> read.kept, skip |-> TRUE]
      BY <1>3, <1>6, <2>2, <3>0
    <3>3. FilterArg(blocked, FilterArg(blocked, read, flag), value) = [kept |-> read.kept, skip |-> FALSE]
      BY <1>3, <1>5, <3>2
    <3>5. ReadArgs(args \o Tokens(o), blocked) = [kept |-> read.kept, skip |-> FALSE]
      BY <1>7, <1>9, <2>1, <3>3
    <3>4. If(o.name \notin DOMAIN blocked, Tokens(Plain(o))) = <<>>
      BY <2>2 DEF If
    <3> QED
      BY <1>10, <3>4, <3>5 DEF read
  <2>3. CASE o.name \notin DOMAIN blocked
    <3>2. FilterArg(blocked, read, flag) = [kept |-> Append(read.kept, pflag), skip |-> FALSE]
      BY <1>3, <1>6, <2>3
    <3>1. Append(read.kept, pflag) \in Seq(AllTokens)
      BY <1>p, <1>3, AppendProperties
    <3>5. FilterArg(blocked, FilterArg(blocked, read, flag), value)
          = [kept |-> Append(Append(read.kept, pflag), pvalue), skip |-> FALSE]
      BY <1>5, <3>1, <3>2
    <3>3. ReadArgs(args \o Tokens(o), blocked)
          = [kept |-> Append(Append(read.kept, pflag), pvalue), skip |-> FALSE]
      BY <1>7, <1>9, <2>1, <3>5
    <3>4. If(o.name \notin DOMAIN blocked, Tokens(Plain(o))) = <<pflag, pvalue>>
      BY <2>1, <2>3 DEF If
    <3> QED
      BY <1>9, <3>3, <3>4 DEF read
  <2> QED
    BY <2>2, <2>3
<1>12. CASE o.style = "inline"
  <2>1. Tokens(o) = <<pair>> /\ Tokens(Plain(o)) = <<ppair>>
    BY <1>8, <1>12 DEF Tokens
  <2> HIDE DEF flag, value, pair, pflag, pvalue, ppair, read
  <2>2. CASE o.name \in DOMAIN blocked
    <3>1. ReadArgs(args \o Tokens(o), blocked) = [kept |-> read.kept, skip |-> FALSE]
      BY <1>3, <1>6, <1>7, <1>9, <2>1, <2>2
    <3>2. If(o.name \notin DOMAIN blocked, Tokens(Plain(o))) = <<>>
      BY <2>2 DEF If
    <3> QED
      BY <1>10, <3>1, <3>2 DEF read
  <2>3. CASE o.name \notin DOMAIN blocked
    <3>1. ReadArgs(args \o Tokens(o), blocked) = [kept |-> Append(read.kept, ppair), skip |-> FALSE]
      BY <1>3, <1>6, <1>7, <1>9, <2>1, <2>3
    <3>2. If(o.name \notin DOMAIN blocked, Tokens(Plain(o))) = <<ppair>>
      BY <2>1, <2>3 DEF If
    <3> QED
      BY <1>9, <3>1, <3>2 DEF read
  <2> QED
    BY <2>2, <2>3
<1>13. CASE o.style = "alone"
  <2>1. Tokens(o) = <<flag>> /\ Tokens(Plain(o)) = <<pflag>>
    BY <1>8, <1>13 DEF Tokens
  <2> HIDE DEF flag, value, pair, pflag, pvalue, ppair, read
  <2>2. CASE o.name \in DOMAIN blocked
    <3>1. (blocked[o.name] = "withValue") = FALSE
      BY <1>13, <2>2 DEF FitsTo
    <3>2. ReadArgs(args \o Tokens(o), blocked) = [kept |-> read.kept, skip |-> FALSE]
      BY <1>3, <1>6, <1>7, <1>9, <2>1, <2>2, <3>1
    <3>3. If(o.name \notin DOMAIN blocked, Tokens(Plain(o))) = <<>>
      BY <2>2 DEF If
    <3> QED
      BY <1>10, <3>2, <3>3 DEF read
  <2>3. CASE o.name \notin DOMAIN blocked
    <3>1. ReadArgs(args \o Tokens(o), blocked) = [kept |-> Append(read.kept, pflag), skip |-> FALSE]
      BY <1>3, <1>6, <1>7, <1>9, <2>1, <2>3
    <3>2. If(o.name \notin DOMAIN blocked, Tokens(Plain(o))) = <<pflag>>
      BY <2>1, <2>3 DEF If
    <3> QED
      BY <1>9, <3>1, <3>2 DEF read
  <2> QED
    BY <2>2, <2>3
<1>14. o.style \in {"separate", "inline", "alone"}
  BY DEF AllOptions
<1> QED
  BY <1>11, <1>12, <1>13, <1>14


CommandLine(options) == FlattenSeq([i \in DOMAIN options |-> Tokens(options[i])])

PassedOf(options, reserved) ==
  FlattenSeq([i \in DOMAIN options |->
                If(options[i].name \notin reserved, Tokens([options[i] EXCEPT !.quoted = FALSE]))])

LEMMA CommandLineAppend ==
  ASSUME NEW options \in Seq(AllOptions), NEW o \in AllOptions
  PROVE  /\ CommandLine(<<>>) = <<>>
         /\ CommandLine(options) \in Seq(AllTokens)
         /\ CommandLine(Append(options, o)) = CommandLine(options) \o Tokens(o)
<1> DEFINE mapped(q) == [i \in DOMAIN q |-> Tokens(q[i])]
<1>1. \A x \in AllOptions : Tokens(x) \in Seq(AllTokens)
  BY TokenTypes
<1>2. mapped(options) \in Seq(Seq(AllTokens)) /\ mapped(<<>>) = <<>>
  <2>1. /\ Len(options) \in Nat /\ DOMAIN options = 1..Len(options)
        /\ \A i \in 1..Len(options) : options[i] \in AllOptions
    BY LenProperties
  <2>2. mapped(options) \in [1..Len(options) -> Seq(AllTokens)]
    BY <2>1, <1>1
  <2> QED
    BY <2>1, <2>2
<1>3. mapped(Append(options, o)) = Append(mapped(options), Tokens(o))
  BY <1>1
<1>4. /\ FlattenSeq(<<>>) = <<>> /\ FlattenSeq(mapped(options)) \in Seq(AllTokens)
      /\ FlattenSeq(Append(mapped(options), Tokens(o))) = FlattenSeq(mapped(options)) \o Tokens(o)
  BY <1>1, <1>2, FlattenAppend
<1> QED
  BY <1>2, <1>3, <1>4 DEF CommandLine

LEMMA PassedAppend ==
  ASSUME NEW options \in Seq(AllOptions), NEW o \in AllOptions, NEW reserved
  PROVE  /\ PassedOf(<<>>, reserved) = <<>>
         /\ PassedOf(options, reserved) \in Seq(AllTokens)
         /\ PassedOf(Append(options, o), reserved)
            = PassedOf(options, reserved) \o If(o.name \notin reserved, Tokens(Plain(o)))
<1> DEFINE one(x) == If(x.name \notin reserved, Tokens(Plain(x)))
           mapped(q) == [i \in DOMAIN q |-> one(q[i])]
<1>1. \A x \in AllOptions : one(x) \in Seq(AllTokens)
  <2>1. \A x \in AllOptions : Tokens(Plain(x)) \in Seq(AllTokens)
    BY PlainIs, TokenTypes
  <2> QED
    BY <2>1 DEF If
<1> HIDE DEF one
<1>2. mapped(options) \in Seq(Seq(AllTokens)) /\ mapped(<<>>) = <<>>
  <2>1. /\ Len(options) \in Nat /\ DOMAIN options = 1..Len(options)
        /\ \A i \in 1..Len(options) : options[i] \in AllOptions
    BY LenProperties
  <2>2. mapped(options) \in [1..Len(options) -> Seq(AllTokens)]
    BY <2>1, <1>1
  <2> QED
    BY <2>1, <2>2
<1>3. mapped(Append(options, o)) = Append(mapped(options), one(o))
  BY <1>1
<1>4. /\ FlattenSeq(<<>>) = <<>> /\ FlattenSeq(mapped(options)) \in Seq(AllTokens)
      /\ FlattenSeq(Append(mapped(options), one(o))) = FlattenSeq(mapped(options)) \o one(o)
  BY <1>1, <1>2, FlattenAppend
<1>5. \A q : PassedOf(q, reserved) = FlattenSeq(mapped(q))
  BY DEF PassedOf, one, Plain
<1>6. /\ PassedOf(<<>>, reserved) = FlattenSeq(mapped(<<>>))
      /\ PassedOf(options, reserved) = FlattenSeq(mapped(options))
      /\ PassedOf(Append(options, o), reserved) = FlattenSeq(mapped(Append(options, o)))
  BY ONLY <1>5
<1>7. one(o) = If(o.name \notin reserved, Tokens(Plain(o)))
  BY DEF one
<1> HIDE DEF mapped
<1> QED
  BY ONLY <1>2, <1>3, <1>4, <1>6, <1>7

LEMMA PassedNothing ==
  ASSUME NEW reserved
  PROVE  PassedOf(<<>>, reserved) = <<>>
<1>1. [i \in DOMAIN <<>> |->
         If(<<>>[i].name \notin reserved, Tokens([<<>>[i] EXCEPT !.quoted = FALSE]))] = <<>>
  OBVIOUS
<1>2. FlattenSeq(<<>>) = <<>>
  BY EmptySeq, FlattenAppend
<1> QED
  BY <1>1, <1>2 DEF PassedOf

LEMMA PassedConcat ==
  ASSUME NEW options \in Seq(AllOptions), NEW more \in Seq(AllOptions), NEW reserved,
         PassedOf(options, reserved) \in Seq(AllTokens)
  PROVE  PassedOf(options \o more, reserved) = PassedOf(options, reserved) \o PassedOf(more, reserved)
<1> DEFINE S == {s \in Seq(AllOptions) :
                   PassedOf(options \o s, reserved) = PassedOf(options, reserved) \o PassedOf(s, reserved)}
<1>1. <<>> \in S
  <2>1. PassedOf(<<>>, reserved) = <<>>
    BY PassedNothing
  <2> QED
    BY <2>1, EmptySeq, ConcatEmptySeq
<1>2. ASSUME NEW s \in Seq(AllOptions), NEW o \in AllOptions, s \in S
      PROVE  Append(s, o) \in S
  <2> DEFINE one == If(o.name \notin reserved, Tokens(Plain(o)))
  <2>1. options \o Append(s, o) = Append(options \o s, o) /\ options \o s \in Seq(AllOptions)
        /\ Append(s, o) \in Seq(AllOptions)
    OBVIOUS
  <2>2. /\ PassedOf(Append(options \o s, o), reserved) = PassedOf(options \o s, reserved) \o one
        /\ PassedOf(Append(s, o), reserved) = PassedOf(s, reserved) \o one
        /\ PassedOf(s, reserved) \in Seq(AllTokens)
    BY <2>1, PassedAppend
  <2>3. one \in Seq(AllTokens)
    <3>1. Tokens(Plain(o)) \in Seq(AllTokens) /\ <<>> \in Seq(AllTokens)
      BY PlainIs, TokenTypes, EmptySeq
    <3> QED
      BY <3>1 DEF If
  <2> HIDE DEF one
  <2>4. /\ PassedOf(options, reserved) \in Seq(AllTokens) /\ PassedOf(s, reserved) \in Seq(AllTokens)
        /\ one \in Seq(AllTokens)
    BY <2>2, <2>3
  <2>5. (PassedOf(options, reserved) \o PassedOf(s, reserved)) \o one
        = PassedOf(options, reserved) \o (PassedOf(s, reserved) \o one)
    BY ONLY <2>4, ConcatAssociative, SMTT(30)
  <2>6. PassedOf(options \o s, reserved) = PassedOf(options, reserved) \o PassedOf(s, reserved)
    BY <1>2
  <2> QED
    BY <2>1, <2>2, <2>5, <2>6
<1>3. Seq(AllOptions) \subseteq S
  <2> HIDE DEF S
  <2> QED
    BY <1>1, <1>2, SeqSetInduction
<1> QED
  BY <1>3

\* A whole command line, read by one filter, and what that leaves read by another.
LEMMA FilteredOnce ==
  ASSUME NEW blocked, NEW options \in Seq({o \in AllOptions : FitsTo(o, blocked)})
  PROVE  /\ ReadArgs(CommandLine(options), blocked)
            = [kept |-> PassedOf(options, DOMAIN blocked), skip |-> FALSE]
         /\ CommandLine(options) \in Seq(AllTokens)
<1> DEFINE O == {o \in AllOptions : FitsTo(o, blocked)}
           S == {s \in Seq(O) :
                   /\ ReadArgs(CommandLine(s), blocked)
                      = [kept |-> PassedOf(s, DOMAIN blocked), skip |-> FALSE]
                   /\ CommandLine(s) \in Seq(AllTokens)}
<1>1. <<>> \in S
  <2>1. <<>> \in Seq(AllTokens) /\ <<>> \in Seq(O)
    BY EmptySeq
  <2>2. PassedOf(<<>>, DOMAIN blocked) = <<>> /\ CommandLine(<<>>) = <<>>
    <3>1. [i \in DOMAIN <<>> |-> Tokens(<<>>[i])] = <<>>
      OBVIOUS
    <3>2. FlattenSeq(<<>>) = <<>>
      BY EmptySeq, FlattenAppend
    <3> QED
      BY <3>1, <3>2, PassedNothing DEF CommandLine
  <2>3. ReadArgs(<<>>, blocked) = Nothing
    BY ReadNothing
  <2> QED
    BY <2>1, <2>2, <2>3 DEF Nothing
<1>2. ASSUME NEW s \in Seq(O), NEW o \in O, s \in S
      PROVE  Append(s, o) \in S
  <2>1. s \in Seq(AllOptions) /\ o \in AllOptions /\ FitsTo(o, blocked)
    BY SeqMonotonic
  <2> DEFINE read == ReadArgs(CommandLine(s), blocked)
             line == CommandLine(s)
             passed == PassedOf(s, DOMAIN blocked)
  <2>2. /\ read = [kept |-> passed, skip |-> FALSE] /\ line \in Seq(AllTokens)
    BY <1>2
  <2>3. read.kept = passed /\ read.skip = FALSE
    BY <2>2
  <2>4. ReadArgs(line \o Tokens(o), blocked)
        = [kept |-> read.kept \o If(o.name \notin DOMAIN blocked, Tokens(Plain(o))), skip |-> FALSE]
    BY <2>1, <2>2, <2>3, ReadOption
  <2>5. /\ CommandLine(Append(s, o)) = line \o Tokens(o)
        /\ PassedOf(Append(s, o), DOMAIN blocked)
           = passed \o If(o.name \notin DOMAIN blocked, Tokens(Plain(o)))
    BY <2>1, CommandLineAppend, PassedAppend
  <2>6. line \o Tokens(o) \in Seq(AllTokens)
    BY <2>1, <2>2, TokenTypes, ConcatProperties
  <2>7. Append(s, o) \in Seq(O)
    BY AppendProperties
  <2> HIDE DEF read, line, passed, O
  <2> QED
    BY <2>3, <2>4, <2>5, <2>6, <2>7
<1>3. Seq(O) \subseteq S
  <2> HIDE DEF S, O
  <2> QED
    BY <1>1, <1>2, SeqSetInduction
<1> QED
  BY <1>3

LEMMA FilteredTwice ==
  ASSUME NEW first, NEW second,
         NEW options \in Seq({o \in AllOptions : FitsTo(o, second)})
  PROVE  ReadArgs(PassedOf(options, first), second)
         = [kept |-> PassedOf(options, first \cup DOMAIN second), skip |-> FALSE]
<1> DEFINE O == {o \in AllOptions : FitsTo(o, second)}
           S == {s \in Seq(O) : ReadArgs(PassedOf(s, first), second)
                                = [kept |-> PassedOf(s, first \cup DOMAIN second), skip |-> FALSE]}
<1>1. <<>> \in S
  <2>1. <<>> \in Seq(O)
    BY EmptySeq
  <2>2. PassedOf(<<>>, first) = <<>> /\ PassedOf(<<>>, first \cup DOMAIN second) = <<>>
    BY PassedNothing
  <2>3. ReadArgs(<<>>, second) = Nothing
    BY ReadNothing
  <2> QED
    BY <2>1, <2>2, <2>3 DEF Nothing
<1>2. ASSUME NEW s \in Seq(O), NEW o \in O, s \in S
      PROVE  Append(s, o) \in S
  <2>1. s \in Seq(AllOptions) /\ o \in AllOptions /\ FitsTo(o, second)
    BY SeqMonotonic
  <2> DEFINE once == PassedOf(s, first)
             twice == PassedOf(s, first \cup DOMAIN second)
             read == ReadArgs(once, second)
  <2>2. read = [kept |-> twice, skip |-> FALSE]
    BY <1>2
  <2>3. read.kept = twice /\ read.skip = FALSE
    BY <2>2
  <2>4. /\ once \in Seq(AllTokens) /\ twice \in Seq(AllTokens)
        /\ PassedOf(Append(s, o), first) = once \o If(o.name \notin first, Tokens(Plain(o)))
        /\ PassedOf(Append(s, o), first \cup DOMAIN second)
           = twice \o If(o.name \notin first \cup DOMAIN second, Tokens(Plain(o)))
    BY <2>1, PassedAppend
  <2>5. /\ Plain(o) \in AllOptions /\ FitsTo(Plain(o), second) /\ Plain(o).name = o.name
        /\ Plain(Plain(o)) = Plain(o)
    BY <2>1, PlainIs
  <2>6. ReadArgs(once \o Tokens(Plain(o)), second)
        = [kept |-> read.kept \o If(Plain(o).name \notin DOMAIN second, Tokens(Plain(Plain(o)))), skip |-> FALSE]
    BY <2>3, <2>4, <2>5, ReadOption
  <2>7. Append(s, o) \in Seq(O)
    BY AppendProperties
  <2>8. once \o <<>> = once /\ twice \o <<>> = twice
    BY <2>4, ConcatEmptySeq
  <2> HIDE DEF read, once, twice, O
  <2>9. CASE o.name \in first
    <3>1. PassedOf(Append(s, o), first) = once /\ PassedOf(Append(s, o), first \cup DOMAIN second) = twice
      BY <2>4, <2>8, <2>9 DEF If
    <3> QED
      BY <2>2, <2>7, <3>1 DEF read
  <2>10. CASE o.name \notin first
    <3>1. PassedOf(Append(s, o), first) = once \o Tokens(Plain(o))
      BY <2>4, <2>10 DEF If
    <3>2. PassedOf(Append(s, o), first \cup DOMAIN second)
          = twice \o If(o.name \notin DOMAIN second, Tokens(Plain(o)))
      BY <2>4, <2>10 DEF If
    <3>3. ReadArgs(once \o Tokens(Plain(o)), second)
          = [kept |-> twice \o If(o.name \notin DOMAIN second, Tokens(Plain(o))), skip |-> FALSE]
      BY <2>3, <2>5, <2>6
    <3> QED
      BY <2>7, <3>1, <3>2, <3>3
  <2> QED
    BY <2>9, <2>10
<1>3. Seq(O) \subseteq S
  <2> HIDE DEF S, O
  <2> QED
    BY <1>1, <1>2, SeqSetInduction
<1> QED
  BY <1>3


UserTokens == {t \in AllTokens : t.role # "ours"}

\* What a filter drops of arguments of any kind is what it has to; the rest it keeps.
LEMMA FilterLeaves ==
  ASSUME NEW blocked, NEW T \in SUBSET AllTokens, \A t \in T : unshellQuoteArg(t) \in T,
         NEW args \in Seq(T)
  PROVE  filterCustomArgs(args, blocked)
           \in Seq({t \in T : t.role # "value" => t.text \notin DOMAIN blocked})
<1> DEFINE Free == {t \in T : t.role # "value" => t.text \notin DOMAIN blocked}
           S == {s \in Seq(T) : ReadArgs(s, blocked).kept \in Seq(Free)}
<1>1. <<>> \in S
  <2>1. ReadArgs(<<>>, blocked) = [kept |-> <<>>, skip |-> FALSE]
    BY ReadNothing DEF Nothing
  <2>2. ReadArgs(<<>>, blocked).kept = <<>>
    BY <2>1
  <2>3. <<>> \in Seq(T) /\ <<>> \in Seq(Free)
    BY EmptySeq
  <2> HIDE DEF Free
  <2> QED
    BY <2>2, <2>3
<1>2. ASSUME NEW s \in Seq(T), NEW e \in T, s \in S
      PROVE  Append(s, e) \in S
  <2> DEFINE read == ReadArgs(s, blocked)
             plain == unshellQuoteArg(e)
  <2>1. s \in Seq(AllTokens) /\ e \in AllTokens
    BY SeqMonotonic
  <2>2. read \in Readings /\ ReadArgs(Append(s, e), blocked) = FilterArg(blocked, read, e)
    BY <2>1, ReadAppend
  <2>3. read.kept \in Seq(Free) /\ plain \in T /\ Append(s, e) \in Seq(T)
    BY <1>2, AppendProperties
  <2> HIDE DEF read, plain, Free
  <2>4. CASE read.skip
    <3>1. FilterArg(blocked, read, e).kept = read.kept
      BY <2>2, <2>4 DEF FilterArg, Readings
    <3> QED
      BY <2>2, <2>3, <3>1
  <2>5. CASE ~read.skip /\ plain.role # "value" /\ plain.text \in DOMAIN blocked
    <3>1. FilterArg(blocked, read, e).kept = read.kept
      BY <2>2, <2>5 DEF FilterArg, Readings, plain
    <3> QED
      BY <2>2, <2>3, <3>1
  <2>6. CASE ~read.skip /\ ~(plain.role # "value" /\ plain.text \in DOMAIN blocked)
    <3>1. FilterArg(blocked, read, e).kept = Append(read.kept, plain)
      BY <2>2, <2>6 DEF FilterArg, Readings, plain
    <3>2. plain \in Free
      BY <2>3, <2>6 DEF Free
    <3>3. Append(read.kept, plain) \in Seq(Free)
      BY <2>3, <3>2, AppendProperties
    <3> QED
      BY <2>2, <2>3, <3>1, <3>3
  <2> QED
    BY <2>4, <2>5, <2>6
<1>3. Seq(T) \subseteq S
  <2> HIDE DEF S
  <2> QED
    BY <1>1, <1>2, SeqSetInduction
<1> QED
  BY <1>3 DEF filterCustomArgs

LEMMA UserCommandLine ==
  ASSUME NEW options \in Seq(AllOptions)
  PROVE  CommandLine(options) \in Seq(UserTokens)
<1> DEFINE S == {s \in Seq(AllOptions) : CommandLine(s) \in Seq(UserTokens)}
<1>1. <<>> \in S
  <2>1. CommandLine(<<>>) = <<>>
    <3>1. [i \in DOMAIN <<>> |-> Tokens(<<>>[i])] = <<>>
      OBVIOUS
    <3> QED
      BY <3>1, EmptySeq, FlattenAppend DEF CommandLine
  <2> QED
    BY <2>1, EmptySeq
<1>2. ASSUME NEW s \in Seq(AllOptions), NEW o \in AllOptions, s \in S
      PROVE  Append(s, o) \in S
  <2>1. CommandLine(Append(s, o)) = CommandLine(s) \o Tokens(o)
    BY CommandLineAppend
  <2>2. Tokens(o) \in Seq(UserTokens)
    <3>1. /\ [text |-> o.name, role |-> "flag", quoted |-> o.quoted] \in UserTokens
          /\ [text |-> "a value", role |-> "value", quoted |-> o.quoted] \in UserTokens
          /\ [text |-> o.name, role |-> "pair", quoted |-> o.quoted] \in UserTokens
      BY DEF UserTokens, AllTokens, Texts, Roles, AllOptions
    <3>2. \A x, y \in UserTokens : <<x>> \in Seq(UserTokens) /\ <<x, y>> \in Seq(UserTokens)
      OBVIOUS
    <3>3. o.style \in {"separate", "inline", "alone"}
      BY DEF AllOptions
    <3> QED
      BY <3>1, <3>2, <3>3 DEF Tokens
  <2>3. CommandLine(s) \o Tokens(o) \in Seq(UserTokens) /\ Append(s, o) \in Seq(AllOptions)
    BY <1>2, <2>2, ConcatProperties, AppendProperties
  <2> QED
    BY <2>1, <2>3
<1>3. Seq(AllOptions) \subseteq S
  <2> HIDE DEF S
  <2> QED
    BY <1>1, <1>2, SeqSetInduction
<1> QED
  BY <1>3

-----------------------------------------------------------------------------
(* The arguments: whose they are                                              *)

Own(s)     == {s[i].text : i \in {j \in DOMAIN s : s[j].role = "ours"}}
Foreign(s) == {s[i].text : i \in {j \in DOMAIN s : s[j].role \in {"flag", "pair"}}}
Once(s)    == \A i, j \in DOMAIN s : s[i] = s[j] => i = j
OwnOnce(s) ==
  \A i, j \in DOMAIN s :
    s[i].role = "ours" /\ s[j].role = "ours" /\ s[i].text = s[j].text => i = j
Theirs(s) == FlattenSeq([i \in DOMAIN s |-> If(s[i].role # "ours", <<s[i]>>)])

LEMMA ViewsConcat ==
  ASSUME NEW s \in Seq(AllTokens), NEW t \in Seq(AllTokens)
  PROVE  /\ Own(s \o t) = Own(s) \cup Own(t)
         /\ Foreign(s \o t) = Foreign(s) \cup Foreign(t)
         /\ OwnOnce(s) /\ OwnOnce(t) /\ Own(s) \cap Own(t) = {} => OwnOnce(s \o t)
<1> DEFINE st == s \o t
           m == Len(s)
           n == Len(t)
<1>1. /\ m \in Nat /\ n \in Nat /\ DOMAIN s = 1..m /\ DOMAIN t = 1..n /\ DOMAIN st = 1..(m + n)
      /\ \A i \in 1..m : st[i] = s[i]
      /\ \A i \in 1..n : st[m + i] = t[i]
      /\ \A i \in 1..(m + n) : \/ i \in 1..m /\ st[i] = s[i]
                               \/ i - m \in 1..n /\ st[i] = t[i - m]
  <2>1. m \in Nat /\ n \in Nat /\ DOMAIN s = 1..m /\ DOMAIN t = 1..n
    BY LenProperties
  <2>2. /\ st \in Seq(AllTokens) /\ Len(st) = m + n
        /\ \A i \in 1..(m + n) : st[i] = IF i <= m THEN s[i] ELSE t[i - m]
    BY ConcatProperties
  <2> HIDE DEF st, m, n
  <2>3. DOMAIN st = 1..(m + n)
    BY <2>2, LenProperties
  <2>4. \A i \in 1..n : m + i \in 1..(m + n) /\ ~(m + i <= m) /\ (m + i) - m = i
    BY <2>1
  <2>5. \A i \in 1..n : st[m + i] = t[i]
    <3> SUFFICES ASSUME NEW i \in 1..n PROVE st[m + i] = t[i]
      OBVIOUS
    <3>1. m + i \in 1..(m + n) /\ ~(m + i <= m) /\ (m + i) - m = i
      BY <2>4
    <3>2. st[m + i] = t[(m + i) - m]
      BY <2>2, <3>1
    <3> QED
      BY <3>1, <3>2
  <2>6. \A i \in 1..m : st[i] = s[i]
    BY <2>1, <2>2
  <2>7. \A i \in 1..(m + n) : \/ i \in 1..m /\ st[i] = s[i]
                              \/ i - m \in 1..n /\ st[i] = t[i - m]
    BY <2>1, <2>2
  <2> QED
    BY <2>1, <2>3, <2>5, <2>6, <2>7
<1>2. \A i \in 1..n : m + i \in 1..(m + n)
  BY <1>1
<1>3. \A i \in 1..m : i \in 1..(m + n)
  BY <1>1
<1> HIDE DEF st, m, n
<1>4. Own(st) = Own(s) \cup Own(t)
  <2>1. Own(st) \subseteq Own(s) \cup Own(t)
    <3> SUFFICES ASSUME NEW i \in 1..(m + n), st[i].role = "ours"
                 PROVE  st[i].text \in Own(s) \cup Own(t)
      BY <1>1 DEF Own
    <3>1. CASE i \in 1..m /\ st[i] = s[i]
      BY <1>1, <3>1 DEF Own
    <3>2. CASE i - m \in 1..n /\ st[i] = t[i - m]
      BY <1>1, <3>2 DEF Own
    <3> QED
      BY <1>1, <3>1, <3>2
  <2>2. Own(s) \subseteq Own(st)
    BY <1>1, <1>3 DEF Own
  <2>3. Own(t) \subseteq Own(st)
    <3> SUFFICES ASSUME NEW i \in 1..n, t[i].role = "ours" PROVE t[i].text \in Own(st)
      BY <1>1 DEF Own
    <3>1. PICK k \in DOMAIN st : st[k] = t[i]
      BY <1>1, <1>2
    <3>2. st[k].role = "ours" /\ st[k].text = t[i].text
      BY <3>1
    <3> QED
      BY ONLY <3>2, k \in DOMAIN st DEF Own
  <2> QED
    BY <2>1, <2>2, <2>3
<1>5. Foreign(st) = Foreign(s) \cup Foreign(t)
  <2>1. Foreign(st) \subseteq Foreign(s) \cup Foreign(t)
    <3> SUFFICES ASSUME NEW i \in 1..(m + n), st[i].role \in {"flag", "pair"}
                 PROVE  st[i].text \in Foreign(s) \cup Foreign(t)
      BY <1>1 DEF Foreign
    <3>1. CASE i \in 1..m /\ st[i] = s[i]
      BY <1>1, <3>1 DEF Foreign
    <3>2. CASE i - m \in 1..n /\ st[i] = t[i - m]
      BY <1>1, <3>2 DEF Foreign
    <3> QED
      BY <1>1, <3>1, <3>2
  <2>2. Foreign(s) \subseteq Foreign(st)
    BY <1>1, <1>3 DEF Foreign
  <2>3. Foreign(t) \subseteq Foreign(st)
    <3> SUFFICES ASSUME NEW i \in 1..n, t[i].role \in {"flag", "pair"} PROVE t[i].text \in Foreign(st)
      BY <1>1 DEF Foreign
    <3>1. PICK k \in DOMAIN st : st[k] = t[i]
      BY <1>1, <1>2
    <3>2. st[k].role \in {"flag", "pair"} /\ st[k].text = t[i].text
      BY <3>1
    <3> QED
      BY ONLY <3>2, k \in DOMAIN st DEF Foreign
  <2> QED
    BY <2>1, <2>2, <2>3
<1>6. ASSUME OwnOnce(s), OwnOnce(t), Own(s) \cap Own(t) = {}
      PROVE  OwnOnce(st)
  <2> SUFFICES ASSUME NEW i \in 1..(m + n), NEW j \in 1..(m + n),
                      st[i].role = "ours", st[j].role = "ours", st[i].text = st[j].text
               PROVE  i = j
    BY <1>1 DEF OwnOnce
  <2>1. \/ i \in 1..m /\ st[i] = s[i]
        \/ i - m \in 1..n /\ st[i] = t[i - m]
    BY <1>1
  <2>2. \/ j \in 1..m /\ st[j] = s[j]
        \/ j - m \in 1..n /\ st[j] = t[j - m]
    BY <1>1
  <2>3. \A k \in 1..m : s[k].role = "ours" => s[k].text \in Own(s)
    BY <1>1 DEF Own
  <2>4. \A k \in 1..n : t[k].role = "ours" => t[k].text \in Own(t)
    BY <1>1 DEF Own
  <2>5. CASE i \in 1..m /\ st[i] = s[i] /\ j \in 1..m /\ st[j] = s[j]
    BY <1>1, <1>6, <2>5 DEF OwnOnce
  <2>6. CASE i - m \in 1..n /\ st[i] = t[i - m] /\ j - m \in 1..n /\ st[j] = t[j - m]
    <3>1. i - m = j - m
      BY <1>1, <1>6, <2>6 DEF OwnOnce
    <3> QED
      BY <1>1, <3>1
  <2>7. CASE i \in 1..m /\ st[i] = s[i] /\ j - m \in 1..n /\ st[j] = t[j - m]
    BY <1>6, <2>3, <2>4, <2>7
  <2>8. CASE i - m \in 1..n /\ st[i] = t[i - m] /\ j \in 1..m /\ st[j] = s[j]
    BY <1>6, <2>3, <2>4, <2>8
  <2> QED
    BY <2>1, <2>2, <2>5, <2>6, <2>7, <2>8
<1> QED
  BY <1>4, <1>5, <1>6 DEF st

LEMMA TheirsAppend ==
  ASSUME NEW s \in Seq(AllTokens), NEW e \in AllTokens
  PROVE  /\ Theirs(<<>>) = <<>>
         /\ Theirs(s) \in Seq(AllTokens)
         /\ Theirs(Append(s, e)) = Theirs(s) \o If(e.role # "ours", <<e>>)
<1> DEFINE pick(x) == If(x.role # "ours", <<x>>)
           mapped(q) == [i \in DOMAIN q |-> pick(q[i])]
<1>1. \A x \in AllTokens : pick(x) \in Seq(AllTokens)
  BY DEF If
<1> HIDE DEF pick
<1>2. mapped(s) \in Seq(Seq(AllTokens)) /\ mapped(<<>>) = <<>>
  <2>1. Len(s) \in Nat /\ DOMAIN s = 1..Len(s) /\ \A i \in 1..Len(s) : s[i] \in AllTokens
    BY LenProperties
  <2>2. mapped(s) \in [1..Len(s) -> Seq(AllTokens)]
    BY <2>1, <1>1
  <2> QED
    BY <2>1, <2>2
<1>3. mapped(Append(s, e)) = Append(mapped(s), pick(e))
  BY <1>1
<1>4. /\ FlattenSeq(<<>>) = <<>> /\ FlattenSeq(mapped(s)) \in Seq(AllTokens)
      /\ FlattenSeq(Append(mapped(s), pick(e))) = FlattenSeq(mapped(s)) \o pick(e)
  BY <1>1, <1>2, FlattenAppend
<1> QED
  BY <1>2, <1>3, <1>4 DEF Theirs, pick

LEMMA TheirsNothing == Theirs(<<>>) = <<>>
<1>1. [i \in DOMAIN <<>> |-> If(<<>>[i].role # "ours", <<<<>>[i]>>)] = <<>>
  OBVIOUS
<1>2. FlattenSeq(<<>>) = <<>>
  BY EmptySeq, FlattenAppend
<1> QED
  BY <1>1, <1>2 DEF Theirs

\* Without arguments of ours all are theirs, and of ours alone none is.
LEMMA TheirsAllOrNone ==
  ASSUME NEW s \in Seq(AllTokens)
  PROVE  /\ (\A i \in DOMAIN s : s[i].role # "ours") => Theirs(s) = s
         /\ (\A i \in DOMAIN s : s[i].role = "ours") => Theirs(s) = <<>>
<1> DEFINE S == {q \in Seq(AllTokens) :
                   /\ (\A i \in DOMAIN q : q[i].role # "ours") => Theirs(q) = q
                   /\ (\A i \in DOMAIN q : q[i].role = "ours") => Theirs(q) = <<>>}
<1>1. <<>> \in S
  BY EmptySeq, TheirsNothing
<1>2. ASSUME NEW q \in Seq(AllTokens), NEW e \in AllTokens, q \in S
      PROVE  Append(q, e) \in S
  <2>1. /\ Append(q, e) \in Seq(AllTokens) /\ Len(q) \in Nat /\ DOMAIN q = 1..Len(q)
        /\ DOMAIN Append(q, e) = 1..(Len(q) + 1)
        /\ Append(q, e)[Len(q) + 1] = e /\ \A i \in 1..Len(q) : Append(q, e)[i] = q[i]
    <3>1. /\ Append(q, e) \in Seq(AllTokens) /\ Len(Append(q, e)) = Len(q) + 1
          /\ Append(q, e)[Len(q) + 1] = e /\ \A i \in 1..Len(q) : Append(q, e)[i] = q[i]
      BY AppendProperties
    <3> QED
      BY <3>1, LenProperties
  <2>2. Len(q) + 1 \in 1..(Len(q) + 1) /\ \A i \in 1..Len(q) : i \in 1..(Len(q) + 1)
    BY <2>1
  <2>3. Theirs(Append(q, e)) = Theirs(q) \o If(e.role # "ours", <<e>>) /\ Theirs(q) \in Seq(AllTokens)
    BY TheirsAppend
  <2>4. ASSUME \A i \in DOMAIN Append(q, e) : Append(q, e)[i].role # "ours"
        PROVE  Theirs(Append(q, e)) = Append(q, e)
    <3>1. e.role # "ours" /\ \A i \in DOMAIN q : q[i].role # "ours"
      BY <2>1, <2>2, <2>4
    <3>2. Theirs(q) = q
      BY <1>2, <3>1
    <3>3. q \o <<e>> = Append(q, e)
      OBVIOUS
    <3> QED
      BY <2>3, <3>1, <3>2, <3>3 DEF If
  <2>5. ASSUME \A i \in DOMAIN Append(q, e) : Append(q, e)[i].role = "ours"
        PROVE  Theirs(Append(q, e)) = <<>>
    <3>1. e.role = "ours" /\ \A i \in DOMAIN q : q[i].role = "ours"
      BY <2>1, <2>2, <2>5
    <3>2. Theirs(q) = <<>>
      BY <1>2, <3>1
    <3>3. <<>> \o <<>> = <<>>
      BY EmptySeq, ConcatEmptySeq
    <3> QED
      BY <2>3, <3>1, <3>2, <3>3 DEF If
  <2> QED
    BY <2>1, <2>4, <2>5
<1>3. Seq(AllTokens) \subseteq S
  <2> HIDE DEF S
  <2> QED
    BY <1>1, <1>2, SeqSetInduction
<1> QED
  BY <1>3

LEMMA TheirsConcat ==
  ASSUME NEW s \in Seq(AllTokens), NEW t \in Seq(AllTokens)
  PROVE  Theirs(s \o t) = Theirs(s) \o Theirs(t)
<1> DEFINE S == {q \in Seq(AllTokens) : Theirs(s \o q) = Theirs(s) \o Theirs(q)}
<1>0. Theirs(s) \in Seq(AllTokens)
  <2>1. CASE s = <<>>
    BY <2>1, EmptySeq, TheirsNothing
  <2>2. CASE s # <<>>
    <3>1. s[1] \in AllTokens
      BY <2>2, EmptySeq, ElementOfSeq
    <3> QED
      BY <3>1, TheirsAppend
  <2> QED
    BY <2>1, <2>2
<1>1. <<>> \in S
  BY <1>0, EmptySeq, ConcatEmptySeq, TheirsNothing
<1>2. ASSUME NEW q \in Seq(AllTokens), NEW e \in AllTokens, q \in S
      PROVE  Append(q, e) \in S
  <2> DEFINE one == If(e.role # "ours", <<e>>)
  <2>1. /\ s \o Append(q, e) = Append(s \o q, e) /\ s \o q \in Seq(AllTokens)
        /\ Append(q, e) \in Seq(AllTokens)
    OBVIOUS
  <2>2. /\ Theirs(Append(s \o q, e)) = Theirs(s \o q) \o one
        /\ Theirs(Append(q, e)) = Theirs(q) \o one /\ Theirs(q) \in Seq(AllTokens)
    BY <2>1, TheirsAppend
  <2>3. one \in Seq(AllTokens)
    BY DEF If
  <2> HIDE DEF one
  <2>4. Theirs(s) \in Seq(AllTokens) /\ Theirs(q) \in Seq(AllTokens) /\ one \in Seq(AllTokens)
    BY <1>0, <2>2, <2>3
  <2>5. (Theirs(s) \o Theirs(q)) \o one = Theirs(s) \o (Theirs(q) \o one)
    BY ONLY <2>4, ConcatAssociative, SMTT(30)
  <2>6. Theirs(s \o q) = Theirs(s) \o Theirs(q)
    BY <1>2
  <2> QED
    BY <2>1, <2>2, <2>5, <2>6
<1>3. Seq(AllTokens) \subseteq S
  <2> HIDE DEF S
  <2> QED
    BY <1>1, <1>2, SeqSetInduction
<1> QED
  BY <1>3


\* A list of different flags of the daemon's, all of them in S.
Flags(F, S) == F \in Seq(OurFlags) /\ Once(F) /\ ToSet(F) \subseteq S

LEMMA OursViews ==
  ASSUME NEW F, NEW S, Flags(F, S)
  PROVE  /\ Ours(F) \in Seq(AllTokens)
         /\ Own(Ours(F)) \subseteq S /\ Foreign(Ours(F)) = {} /\ OwnOnce(Ours(F))
         /\ Theirs(Ours(F)) = <<>>
<1>1. /\ F \in Seq(OurFlags) /\ Once(F) /\ ToSet(F) \subseteq S
      /\ Len(F) \in Nat /\ DOMAIN F = 1..Len(F) /\ \A i \in DOMAIN F : F[i] \in OurFlags /\ F[i] \in S
  <2>1. /\ F \in Seq(OurFlags) /\ Once(F) /\ ToSet(F) \subseteq S
    BY DEF Flags
  <2>2. Len(F) \in Nat /\ DOMAIN F = 1..Len(F) /\ \A i \in DOMAIN F : F[i] \in OurFlags
    BY <2>1, LenProperties, ElementOfSeq
  <2>3. \A i \in DOMAIN F : F[i] \in S
    BY <2>1 DEF ToSet
  <2> QED
    BY <2>1, <2>2, <2>3
<1> DEFINE T == Ours(F)
           token(x) == [text |-> x, role |-> "ours", quoted |-> FALSE]
<1>2. \A x \in OurFlags : token(x) \in AllTokens
  BY DEF AllTokens, Texts, Roles
<1>3. \A x : token(x).text = x /\ token(x).role = "ours"
  OBVIOUS
<1>4. T = [i \in DOMAIN F |-> token(F[i])]
  BY DEF Ours
<1> HIDE DEF T, token
<1>5. DOMAIN T = DOMAIN F /\ \A i \in DOMAIN T : T[i].text = F[i] /\ T[i].role = "ours"
  BY <1>3, <1>4
<1>6. T \in Seq(AllTokens)
  <2>1. T \in [1..Len(F) -> AllTokens]
    BY <1>1, <1>2, <1>4
  <2> QED
    BY <1>1, <2>1
<1>7. Own(T) \subseteq S /\ Foreign(T) = {} /\ OwnOnce(T)
  BY <1>1, <1>5 DEF Own, Foreign, OwnOnce, Once
<1>8. Theirs(T) = <<>>
  BY <1>5, <1>6, TheirsAllOrNone
<1> QED
  BY <1>6, <1>7, <1>8 DEF T

LEMMA TokensViews ==
  ASSUME NEW o \in AllOptions
  PROVE  Own(Tokens(o)) = {} /\ Foreign(Tokens(o)) = {o.name}
<1> DEFINE flag == [text |-> o.name, role |-> "flag", quoted |-> o.quoted]
           value == [text |-> "a value", role |-> "value", quoted |-> o.quoted]
           pair == [text |-> o.name, role |-> "pair", quoted |-> o.quoted]
<1>1. /\ flag.text = o.name /\ flag.role = "flag" /\ pair.text = o.name /\ pair.role = "pair"
      /\ value.role = "value"
  OBVIOUS
<1>2. \/ Tokens(o) = <<flag, value>>
      \/ Tokens(o) = <<pair>>
      \/ Tokens(o) = <<flag>>
  BY DEF Tokens, AllOptions
<1> HIDE DEF flag, value, pair
<1>3. CASE Tokens(o) = <<flag, value>>
  <2>1. /\ DOMAIN Tokens(o) = {1, 2} /\ Tokens(o)[1] = flag /\ Tokens(o)[2] = value
    BY <1>3
  <2> QED
    BY <1>1, <2>1 DEF Own, Foreign
<1>4. CASE Tokens(o) = <<pair>>
  <2>1. DOMAIN Tokens(o) = {1} /\ Tokens(o)[1] = pair
    BY <1>4
  <2> QED
    BY <1>1, <2>1 DEF Own, Foreign
<1>5. CASE Tokens(o) = <<flag>>
  <2>1. DOMAIN Tokens(o) = {1} /\ Tokens(o)[1] = flag
    BY <1>5
  <2> QED
    BY <1>1, <2>1 DEF Own, Foreign
<1> QED
  BY <1>2, <1>3, <1>4, <1>5

\* What is passed on is none of ours, and no flag of it is reserved.
LEMMA PassedViews ==
  ASSUME NEW options \in Seq(AllOptions), NEW reserved
  PROVE  /\ PassedOf(options, reserved) \in Seq(AllTokens)
         /\ Own(PassedOf(options, reserved)) = {}
         /\ Foreign(PassedOf(options, reserved)) \cap reserved = {}
<1> DEFINE S == {s \in Seq(AllOptions) :
                   /\ PassedOf(s, reserved) \in Seq(AllTokens)
                   /\ Own(PassedOf(s, reserved)) = {}
                   /\ Foreign(PassedOf(s, reserved)) \cap reserved = {}}
<1>1. <<>> \in S
  <2>1. PassedOf(<<>>, reserved) = <<>>
    BY PassedNothing
  <2>2. Own(<<>>) = {} /\ Foreign(<<>>) = {}
    BY DEF Own, Foreign
  <2> QED
    BY <2>1, <2>2, EmptySeq
<1>2. ASSUME NEW s \in Seq(AllOptions), NEW o \in AllOptions, s \in S
      PROVE  Append(s, o) \in S
  <2> DEFINE one == If(o.name \notin reserved, Tokens(Plain(o)))
  <2>1. /\ PassedOf(Append(s, o), reserved) = PassedOf(s, reserved) \o one
        /\ PassedOf(s, reserved) \in Seq(AllTokens)
    BY PassedAppend
  <2>2. one \in Seq(AllTokens) /\ Own(one) = {} /\ Foreign(one) \cap reserved = {}
    <3>1. /\ Tokens(Plain(o)) \in Seq(AllTokens) /\ Own(Tokens(Plain(o))) = {}
          /\ Foreign(Tokens(Plain(o))) = {o.name}
      BY PlainIs, TokenTypes, TokensViews
    <3>2. <<>> \in Seq(AllTokens) /\ Own(<<>>) = {} /\ Foreign(<<>>) = {}
      BY EmptySeq DEF Own, Foreign
    <3> QED
      BY <3>1, <3>2 DEF If
  <2> HIDE DEF one
  <2>3. /\ PassedOf(s, reserved) \o one \in Seq(AllTokens)
        /\ Own(PassedOf(s, reserved) \o one) = Own(PassedOf(s, reserved)) \cup Own(one)
        /\ Foreign(PassedOf(s, reserved) \o one) = Foreign(PassedOf(s, reserved)) \cup Foreign(one)
    BY <2>1, <2>2, ConcatProperties, ViewsConcat
  <2>4. Append(s, o) \in Seq(AllOptions)
    BY AppendProperties
  <2>5. Own(PassedOf(s, reserved)) = {} /\ Foreign(PassedOf(s, reserved)) \cap reserved = {}
    BY <1>2
  <2> QED
    BY <2>1, <2>2, <2>3, <2>4, <2>5
<1>3. Seq(AllOptions) \subseteq S
  <2> HIDE DEF S
  <2> QED
    BY <1>1, <1>2, SeqSetInduction
<1> QED
  BY <1>3

\* Arguments of ours before and after theirs.
LEMMA LaidOut ==
  ASSUME NEW A, NEW SA, Flags(A, SA), NEW B, NEW SB, Flags(B, SB), SA \cap SB = {},
         NEW E \in Seq(AllTokens), NEW C \in Seq(AllTokens), Own(E) = {}, Own(C) = {}
  PROVE  LET args == ((Ours(A) \o E) \o C) \o Ours(B)
         IN  /\ args \in Seq(AllTokens)
             /\ Theirs(args) = E \o C
             /\ OwnOnce(args) /\ Own(args) \subseteq SA \cup SB
             /\ Foreign(args) = Foreign(E) \cup Foreign(C)
<1> DEFINE a == Ours(A)
           b == Ours(B)
           args == ((a \o E) \o C) \o b
<1>1. /\ a \in Seq(AllTokens) /\ Own(a) \subseteq SA /\ Foreign(a) = {} /\ OwnOnce(a) /\ Theirs(a) = <<>>
      /\ b \in Seq(AllTokens) /\ Own(b) \subseteq SB /\ Foreign(b) = {} /\ OwnOnce(b) /\ Theirs(b) = <<>>
  BY OursViews
<1> HIDE DEF a, b
<1>2. OwnOnce(E) /\ OwnOnce(C) /\ Theirs(E) = E /\ Theirs(C) = C
  <2>1. \A s : Own(s) = {} => \A i \in DOMAIN s : s[i].role # "ours"
    BY DEF Own
  <2>2. OwnOnce(E) /\ OwnOnce(C)
    BY <2>1 DEF OwnOnce
  <2> QED
    BY <2>1, <2>2, TheirsAllOrNone
<1>3. /\ a \o E \in Seq(AllTokens)
      /\ (a \o E) \o C \in Seq(AllTokens)
      /\ args \in Seq(AllTokens)
  BY <1>1, ConcatProperties
<1>4. /\ Own(a \o E) = Own(a) /\ Foreign(a \o E) = Foreign(E) /\ OwnOnce(a \o E)
      /\ Theirs(a \o E) = E
  <2>1. /\ Own(a \o E) = Own(a) \cup Own(E) /\ Foreign(a \o E) = Foreign(a) \cup Foreign(E)
        /\ OwnOnce(a) /\ OwnOnce(E) /\ Own(a) \cap Own(E) = {} => OwnOnce(a \o E)
    BY <1>1, ViewsConcat
  <2>2. Theirs(a \o E) = <<>> \o E
    <3>1. Theirs(a \o E) = Theirs(a) \o Theirs(E)
      BY <1>1, TheirsConcat
    <3> QED
      BY <1>1, <1>2, <3>1
  <2>3. <<>> \o E = E
    BY ConcatEmptySeq
  <2>4. OwnOnce(a \o E)
    BY <1>1, <1>2, <2>1
  <2> QED
    BY <1>1, <2>1, <2>2, <2>3, <2>4
<1> DEFINE aE == a \o E
<1> HIDE DEF aE
<1>5. /\ Own(aE \o C) = Own(a) /\ Foreign(aE \o C) = Foreign(E) \cup Foreign(C)
      /\ OwnOnce(aE \o C) /\ Theirs(aE \o C) = E \o C
  <2>1. /\ aE \in Seq(AllTokens) /\ Own(aE) = Own(a) /\ Foreign(aE) = Foreign(E) /\ OwnOnce(aE)
        /\ Theirs(aE) = E
    BY <1>3, <1>4 DEF aE
  <2>2. /\ Own(aE \o C) = Own(aE) \cup Own(C) /\ Foreign(aE \o C) = Foreign(aE) \cup Foreign(C)
        /\ OwnOnce(aE) /\ OwnOnce(C) /\ Own(aE) \cap Own(C) = {} => OwnOnce(aE \o C)
    BY <2>1, ViewsConcat
  <2>3. Theirs(aE \o C) = E \o C
    BY <1>2, <2>1, TheirsConcat
  <2>4. OwnOnce(aE \o C)
    BY <1>2, <2>1, <2>2
  <2> QED
    BY <2>1, <2>2, <2>3, <2>4
<1> DEFINE aEC == aE \o C
<1> HIDE DEF aEC
<1>7. /\ Own(args) = Own(a) \cup Own(b) /\ Foreign(args) = Foreign(E) \cup Foreign(C) /\ OwnOnce(args)
      /\ Theirs(args) = (E \o C) \o <<>>
  <2>1. /\ aEC \in Seq(AllTokens) /\ Own(aEC) = Own(a) /\ Foreign(aEC) = Foreign(E) \cup Foreign(C)
        /\ OwnOnce(aEC) /\ Theirs(aEC) = E \o C
    BY <1>3, <1>5 DEF aE, aEC
  <2>2. /\ Own(aEC \o b) = Own(aEC) \cup Own(b) /\ Foreign(aEC \o b) = Foreign(aEC) \cup Foreign(b)
        /\ OwnOnce(aEC) /\ OwnOnce(b) /\ Own(aEC) \cap Own(b) = {} => OwnOnce(aEC \o b)
    BY <1>1, <2>1, ViewsConcat
  <2>3. Theirs(aEC \o b) = (E \o C) \o <<>>
    <3>1. Theirs(aEC \o b) = Theirs(aEC) \o Theirs(b)
      BY <1>1, <2>1, TheirsConcat
    <3> QED
      BY <1>1, <2>1, <3>1
  <2>4. OwnOnce(aEC \o b)
    BY <1>1, <2>1, <2>2
  <2>5. args = aEC \o b
    BY DEF aEC, aE
  <2> QED
    BY <1>1, <2>1, <2>2, <2>3, <2>4, <2>5
<1>8. (E \o C) \o <<>> = E \o C
  BY ConcatProperties, ConcatEmptySeq
<1> QED
  BY <1>1, <1>3, <1>7, <1>8 DEF args, a, b


-----------------------------------------------------------------------------
(* The arguments: CLI by CLI                                                  *)

LEMMA FlagsConcat ==
  ASSUME NEW F, NEW S, Flags(F, S), NEW G, NEW T, Flags(G, T), S \cap T = {}
  PROVE  Flags(F \o G, S \cup T)
<1> DEFINE m == Len(F)
           n == Len(G)
           FG == F \o G
<1>1. /\ F \in Seq(OurFlags) /\ Once(F) /\ G \in Seq(OurFlags) /\ Once(G)
      /\ m \in Nat /\ n \in Nat /\ DOMAIN F = 1..m /\ DOMAIN G = 1..n
      /\ \A i \in 1..m : F[i] \in S
      /\ \A i \in 1..n : G[i] \in T
  <2>1. F \in Seq(OurFlags) /\ Once(F) /\ G \in Seq(OurFlags) /\ Once(G)
    BY DEF Flags
  <2>2. m \in Nat /\ n \in Nat /\ DOMAIN F = 1..m /\ DOMAIN G = 1..n
    BY <2>1, LenProperties
  <2> HIDE DEF m, n
  <2> QED
    BY <2>1, <2>2 DEF Flags, ToSet
<1>2. /\ FG \in Seq(OurFlags) /\ DOMAIN FG = 1..(m + n)
      /\ \A i \in 1..(m + n) : FG[i] = IF i <= m THEN F[i] ELSE G[i - m]
  <2>1. /\ FG \in Seq(OurFlags) /\ Len(FG) = m + n
        /\ \A i \in 1..(m + n) : FG[i] = IF i <= m THEN F[i] ELSE G[i - m]
    BY <1>1, ConcatProperties
  <2> HIDE DEF FG, m, n
  <2> QED
    BY <2>1, LenProperties
<1> HIDE DEF FG, m, n
<1>3. \A i \in 1..(m + n) : \/ i \in 1..m /\ FG[i] = F[i] /\ FG[i] \in S
                            \/ i - m \in 1..n /\ FG[i] = G[i - m] /\ FG[i] \in T
  BY <1>1, <1>2
<1>4. ToSet(FG) \subseteq S \cup T
  BY <1>2, <1>3 DEF ToSet
<1>5. ASSUME NEW i \in 1..(m + n), NEW j \in 1..(m + n), FG[i] = FG[j]
      PROVE  i = j
  <2>1. CASE i \in 1..m /\ FG[i] = F[i] /\ FG[i] \in S
    <3>1. FG[j] \notin T
      BY <1>5, <2>1
    <3>2. j \in 1..m /\ FG[j] = F[j]
      BY <1>3, <3>1
    <3> QED
      BY <1>1, <1>5, <2>1, <3>2 DEF Once
  <2>2. CASE i - m \in 1..n /\ FG[i] = G[i - m] /\ FG[i] \in T
    <3>1. FG[j] \notin S
      BY <1>5, <2>2
    <3>2. j - m \in 1..n /\ FG[j] = G[j - m]
      BY <1>3, <3>1
    <3>3. i - m = j - m
      BY <1>1, <1>5, <2>2, <3>2 DEF Once
    <3> QED
      BY <1>1, <3>3
  <2> QED
    BY <1>3, <2>1, <2>2
<1>6. Once(FG)
  BY <1>2, <1>5 DEF Once
<1> QED
  BY <1>2, <1>4, <1>6 DEF Flags, FG

LEMMA FlagsIf ==
  ASSUME NEW F, NEW S, Flags(F, S), NEW condition \in BOOLEAN
  PROVE  /\ Flags(If(condition, F), S)
         /\ Ours(If(condition, F)) = If(condition, Ours(F))
<1>1. Flags(<<>>, S)
  BY EmptySeq DEF Flags, Once, ToSet
<1>2. Ours(<<>>) = <<>>
  BY DEF Ours
<1> QED
  BY <1>1, <1>2 DEF If

\* The arguments are theirs, in E and C, and different flags of ours; an --agent of
\* theirs displaces ours.
Owned(args, E, C) ==
  /\ args \in Seq(AllTokens) /\ Theirs(args) = E \o C
  /\ OwnOnce(args) /\ Foreign(args) = Foreign(E) \cup Foreign(C)
  /\ "--agent" \notin Own(args) \/ "--agent" \notin Foreign(args)

LEMMA LaidOwned ==
  ASSUME NEW A, NEW SA, Flags(A, SA), NEW B, NEW SB, Flags(B, SB), SA \cap SB = {},
         NEW E \in Seq(AllTokens), NEW C \in Seq(AllTokens), Own(E) = {}, Own(C) = {},
         "--agent" \notin SA \cup SB \/ "--agent" \notin Foreign(E) \cup Foreign(C)
  PROVE  Owned(((Ours(A) \o E) \o C) \o Ours(B), E, C)
<1> DEFINE args == ((Ours(A) \o E) \o C) \o Ours(B)
<1>1. /\ args \in Seq(AllTokens)
      /\ Theirs(args) = E \o C
      /\ OwnOnce(args) /\ Own(args) \subseteq SA \cup SB
      /\ Foreign(args) = Foreign(E) \cup Foreign(C)
  BY LaidOut
<1> HIDE DEF args
<1>2. Owned(args, E, C)
  BY <1>1 DEF Owned
<1> QED
  BY <1>2 DEF args

\* The usual order: what is there always, what is there in full, theirs, and more.
LEMMA UsuallyOwned ==
  ASSUME NEW F, NEW SF, Flags(F, SF), NEW G, NEW SG, Flags(G, SG), NEW H, NEW SH, Flags(H, SH),
         SF \cap SG = {}, (SF \cup SG) \cap SH = {}, "--agent" \notin (SF \cup SG) \cup SH,
         NEW full \in BOOLEAN,
         NEW E \in Seq(AllTokens), NEW C \in Seq(AllTokens), Own(E) = {}, Own(C) = {}
  PROVE  Owned(((Ours(F \o If(full, G)) \o E) \o C) \o If(full, Ours(H)), E, C)
<1>1. Flags(If(full, G), SG) /\ Flags(If(full, H), SH) /\ Ours(If(full, H)) = If(full, Ours(H))
  BY FlagsIf
<1> DEFINE A == F \o If(full, G)
           B == If(full, H)
<1>2. Flags(A, SF \cup SG) /\ Flags(B, SH)
  BY <1>1, FlagsConcat
<1> HIDE DEF A, B
<1>3. Owned(((Ours(A) \o E) \o C) \o Ours(B), E, C)
  BY <1>2, LaidOwned
<1> QED
  BY <1>1, <1>3 DEF A, B

\* What the filters of a CLI leave of the arguments.
Filtered(cli, full, args) ==
  IF cli = "codex" /\ full THEN filterCodexCustomConfigOverrides(filterCustomArgs(args, codexBlockedArgs))
  ELSE filterCustomArgs(args, Blocked[cli])

\* opencode and openclaw take no extra args.
Taking(cli, full, extra) ==
  IF cli \in {"opencode", "openclaw"} THEN <<>> ELSE Filtered(cli, full, extra)

LEMMA UsualArgs ==
  ASSUME NEW cli \in {"claude", "qwen", "gemini", "codebuddy", "copilot"}, NEW full \in BOOLEAN,
         NEW extra, NEW custom,
         Taking(cli, full, extra) \in Seq(AllTokens), Own(Taking(cli, full, extra)) = {},
         Filtered(cli, full, custom) \in Seq(AllTokens), Own(Filtered(cli, full, custom)) = {}
  PROVE  Owned(Args(cli, full, extra, custom), Taking(cli, full, extra), Filtered(cli, full, custom))
<1> DEFINE E == Taking(cli, full, extra)
           C == Filtered(cli, full, custom)
<1>1. /\ E \in Seq(AllTokens) /\ C \in Seq(AllTokens) /\ Own(E) = {} /\ Own(C) = {}
      /\ E = filterCustomArgs(extra, Blocked[cli]) /\ C = filterCustomArgs(custom, Blocked[cli])
  BY DEF Taking, Filtered
<1> HIDE DEF E, C
<1>2. ASSUME NEW F, NEW SF, Flags(F, SF), NEW G, NEW SG, Flags(G, SG), NEW H, NEW SH, Flags(H, SH),
             SF \cap SG = {}, (SF \cup SG) \cap SH = {}, "--agent" \notin (SF \cup SG) \cup SH,
             Args(cli, full, extra, custom) = ((Ours(F \o If(full, G)) \o E) \o C) \o If(full, Ours(H))
      PROVE  Owned(Args(cli, full, extra, custom), E, C)
  <2>1. Owned(((Ours(F \o If(full, G)) \o E) \o C) \o If(full, Ours(H)), E, C)
    BY <1>1, <1>2, UsuallyOwned
  <2> QED
    BY <1>2, <2>1
<1>3. /\ Flags(<<"--mcp-config">>, {"--mcp-config"})
      /\ Flags(<<"--additional-mcp-config">>, {"--additional-mcp-config"})
  BY DEF Flags, Once, ToSet, OurFlags
<1>4. CASE cli = "claude"
  <2> DEFINE F == <<"-p", "--output-format", "--input-format", "--verbose", "--strict-mcp-config",
                    "--permission-mode", "--disallowedTools">>
             SF == {"-p", "--output-format", "--input-format", "--verbose", "--strict-mcp-config",
                    "--permission-mode", "--disallowedTools"}
             G == <<"--model", "--effort", "--max-turns", "--append-system-prompt", "--resume">>
             SG == {"--model", "--effort", "--max-turns", "--append-system-prompt", "--resume"}
  <2>1. Flags(F, SF) /\ Flags(G, SG)
    BY DEF Flags, Once, ToSet, OurFlags
  <2>2. SF \cap SG = {} /\ (SF \cup SG) \cap {"--mcp-config"} = {} /\ "--agent" \notin (SF \cup SG) \cup {"--mcp-config"}
    OBVIOUS
  <2>3. Args(cli, full, extra, custom)
        = ((Ours(F \o If(full, G)) \o E) \o C) \o If(full, Ours(<<"--mcp-config">>))
    BY <1>1, <1>4 DEF Args, buildClaudeArgs, Blocked
  <2> HIDE DEF F, SF, G, SG
  <2> QED
    BY <1>2, <1>3, <2>1, <2>2, <2>3 DEF E, C
<1>5. CASE cli = "qwen"
  <2> DEFINE F == <<"--bare", "--output-format", "--input-format", "--yolo">>
             SF == {"--bare", "--output-format", "--input-format", "--yolo"}
             G == <<"-m", "--max-session-turns", "--append-system-prompt", "--resume">>
             SG == {"-m", "--max-session-turns", "--append-system-prompt", "--resume"}
  <2>1. Flags(F, SF) /\ Flags(G, SG)
    BY DEF Flags, Once, ToSet, OurFlags
  <2>2. /\ SF \cap SG = {} /\ (SF \cup SG) \cap {"--mcp-config"} = {}
        /\ "--agent" \notin (SF \cup SG) \cup {"--mcp-config"}
    OBVIOUS
  <2>3. Args(cli, full, extra, custom)
        = ((Ours(F \o If(full, G)) \o E) \o C) \o If(full, Ours(<<"--mcp-config">>))
    BY <1>1, <1>5 DEF Args, buildQwenArgs, Blocked
  <2> HIDE DEF F, SF, G, SG
  <2> QED
    BY <1>2, <1>3, <2>1, <2>2, <2>3 DEF E, C
<1>6. CASE cli = "gemini"
  <2> DEFINE F == <<"--bare", "--output-format", "--input-format", "--yolo">>
             SF == {"--bare", "--output-format", "--input-format", "--yolo"}
             G == <<"--model", "--append-system-prompt", "--max-turns", "--resume">>
             SG == {"--model", "--append-system-prompt", "--max-turns", "--resume"}
  <2>1. Flags(F, SF) /\ Flags(G, SG)
    BY DEF Flags, Once, ToSet, OurFlags
  <2>2. /\ SF \cap SG = {} /\ (SF \cup SG) \cap {"--mcp-config"} = {}
        /\ "--agent" \notin (SF \cup SG) \cup {"--mcp-config"}
    OBVIOUS
  <2>3. Args(cli, full, extra, custom)
        = ((Ours(F \o If(full, G)) \o E) \o C) \o If(full, Ours(<<"--mcp-config">>))
    BY <1>1, <1>6 DEF Args, buildGeminiArgs, Blocked
  <2> HIDE DEF F, SF, G, SG
  <2> QED
    BY <1>2, <1>3, <2>1, <2>2, <2>3 DEF E, C
<1>7. CASE cli = "codebuddy"
  <2> DEFINE F == <<"--print", "--output-format", "--input-format", "--dangerously-skip-permissions">>
             SF == {"--print", "--output-format", "--input-format", "--dangerously-skip-permissions"}
             G == <<"--model", "--max-turns", "--system-prompt", "--resume">>
             SG == {"--model", "--max-turns", "--system-prompt", "--resume"}
  <2>1. Flags(F, SF) /\ Flags(G, SG)
    BY DEF Flags, Once, ToSet, OurFlags
  <2>2. /\ SF \cap SG = {} /\ (SF \cup SG) \cap {"--mcp-config"} = {}
        /\ "--agent" \notin (SF \cup SG) \cup {"--mcp-config"}
    OBVIOUS
  <2>3. Args(cli, full, extra, custom)
        = ((Ours(F \o If(full, G)) \o E) \o C) \o If(full, Ours(<<"--mcp-config">>))
    BY <1>1, <1>7 DEF Args, buildCodebuddyArgs, Blocked
  <2> HIDE DEF F, SF, G, SG
  <2> QED
    BY <1>2, <1>3, <2>1, <2>2, <2>3 DEF E, C
<1>8. CASE cli = "copilot"
  <2> DEFINE F == <<"--acp">>
             SF == {"--acp"}
  <2>1. Flags(F, SF) /\ Flags(<<>>, {})
    BY EmptySeq DEF Flags, Once, ToSet, OurFlags
  <2>2. /\ SF \cap {} = {} /\ (SF \cup {}) \cap {"--additional-mcp-config"} = {}
        /\ "--agent" \notin (SF \cup {}) \cup {"--additional-mcp-config"}
    OBVIOUS
  <2>4. F \o If(full, <<>>) = F
    BY <2>1, ConcatEmptySeq DEF Flags, If
  <2>3. Args(cli, full, extra, custom)
        = ((Ours(F \o If(full, <<>>)) \o E) \o C) \o If(full, Ours(<<"--additional-mcp-config">>))
    BY <1>1, <1>8, <2>4 DEF Args, buildAcpArgs, Blocked
  <2> HIDE DEF F, SF
  <2> QED
    BY <1>2, <1>3, <2>1, <2>2, <2>3 DEF E, C
<1> QED
  BY <1>4, <1>5, <1>6, <1>7, <1>8 DEF E, C

LEMMA CodexArgs ==
  ASSUME NEW full \in BOOLEAN, NEW extra, NEW custom,
         Taking("codex", full, extra) \in Seq(AllTokens), Own(Taking("codex", full, extra)) = {},
         Filtered("codex", full, custom) \in Seq(AllTokens), Own(Filtered("codex", full, custom)) = {}
  PROVE  Owned(Args("codex", full, extra, custom), Taking("codex", full, extra), Filtered("codex", full, custom))
<1> DEFINE E == Taking("codex", full, extra)
           C == Filtered("codex", full, custom)
           F == <<"app-server", "--listen">>
           SF == {"app-server", "--listen"}
<1>1. Args("codex", full, extra, custom) = (Ours(F) \o E) \o C
  <2>1. /\ E = IF full THEN filterCodexCustomConfigOverrides(filterCustomArgs(extra, codexBlockedArgs))
               ELSE filterCustomArgs(extra, codexBlockedArgs)
        /\ C = IF full THEN filterCodexCustomConfigOverrides(filterCustomArgs(custom, codexBlockedArgs))
               ELSE filterCustomArgs(custom, codexBlockedArgs)
    BY DEF Taking, Filtered, Blocked
  <2> HIDE DEF E, C
  <2> QED
    BY <2>1 DEF Args, buildCodexArgs
<1>2. Flags(F, SF) /\ Flags(<<>>, {}) /\ SF \cap {} = {} /\ "--agent" \notin SF \cup {}
  BY EmptySeq DEF Flags, Once, ToSet, OurFlags
<1>3. E \in Seq(AllTokens) /\ C \in Seq(AllTokens) /\ Own(E) = {} /\ Own(C) = {}
  OBVIOUS
<1> HIDE DEF E, C, F, SF
<1>4. Owned(((Ours(F) \o E) \o C) \o Ours(<<>>), E, C)
  BY <1>2, <1>3, LaidOwned
<1>5. ((Ours(F) \o E) \o C) \o Ours(<<>>) = (Ours(F) \o E) \o C
  <2>1. Ours(F) \in Seq(AllTokens)
    BY <1>2, OursViews
  <2>2. (Ours(F) \o E) \o C \in Seq(AllTokens)
    BY <1>3, <2>1, ConcatProperties
  <2>3. Ours(<<>>) = <<>>
    BY DEF Ours
  <2> QED
    BY <2>2, <2>3, ConcatEmptySeq
<1>6. Owned(Args("codex", full, extra, custom), E, C)
  BY <1>1, <1>4, <1>5
<1> QED
  BY <1>6 DEF E, C

LEMMA OpencodeArgs ==
  ASSUME NEW full \in BOOLEAN, NEW extra, NEW custom,
         Filtered("opencode", full, custom) \in Seq(AllTokens), Own(Filtered("opencode", full, custom)) = {}
  PROVE  Owned(Args("opencode", full, extra, custom), <<>>, Filtered("opencode", full, custom))
<1> DEFINE C == Filtered("opencode", full, custom)
           F == <<"run", "--format", "--dangerously-skip-permissions">>
           SF == {"run", "--format", "--dangerously-skip-permissions"}
           G == <<"--dir", "--model", "--variant", "--prompt", "--session">>
           SG == {"--dir", "--model", "--variant", "--prompt", "--session"}
           A == F \o If(full, G)
<1>1. Args("opencode", full, extra, custom) = (Ours(A) \o C) \o Ours(<<"prompt">>)
  <2>1. C = filterCustomArgs(custom, opencodeBlockedArgs)
    BY DEF Filtered, Blocked
  <2> HIDE DEF C
  <2> QED
    BY <2>1 DEF Args, buildOpencodeArgs
<1>2. Flags(F, SF) /\ Flags(G, SG) /\ Flags(<<"prompt">>, {"prompt"})
  BY DEF Flags, Once, ToSet, OurFlags
<1>3. SF \cap SG = {} /\ (SF \cup SG) \cap {"prompt"} = {} /\ "--agent" \notin (SF \cup SG) \cup {"prompt"}
  OBVIOUS
<1>4. C \in Seq(AllTokens) /\ Own(C) = {} /\ <<>> \in Seq(AllTokens) /\ Own(<<>>) = {}
  <2>1. <<>> \in Seq(AllTokens) /\ Own(<<>>) = {}
    BY EmptySeq DEF Own
  <2> QED
    BY <2>1
<1> HIDE DEF C, F, SF, G, SG
<1>5. Flags(A, SF \cup SG)
  BY <1>2, <1>3, FlagsIf, FlagsConcat
<1> HIDE DEF A
<1>6. Owned(((Ours(A) \o <<>>) \o C) \o Ours(<<"prompt">>), <<>>, C)
  BY <1>2, <1>3, <1>4, <1>5, LaidOwned
<1>7. Ours(A) \o <<>> = Ours(A)
  BY <1>5, OursViews, ConcatEmptySeq
<1>8. Owned(Args("opencode", full, extra, custom), <<>>, C)
  BY <1>1, <1>6, <1>7
<1> QED
  BY <1>8 DEF C

\* openclaw gets an --agent of ours only if there is none of theirs.
LEMMA OpenclawArgs ==
  ASSUME NEW full \in BOOLEAN, NEW extra, NEW custom,
         Filtered("openclaw", full, custom) \in Seq(AllTokens), Own(Filtered("openclaw", full, custom)) = {}
  PROVE  Owned(Args("openclaw", full, extra, custom), <<>>, Filtered("openclaw", full, custom))
<1> DEFINE C == Filtered("openclaw", full, custom)
           named == \E i \in DOMAIN C : C[i].text = "--agent" /\ C[i].role # "value"
           F == <<"agent">>
           G == <<"--local">>
           H == <<"--json", "--session-id">>
           K == <<"--timeout">>
           N == <<"--agent">>
           base == ((F \o If(~full, G)) \o H) \o If(full, K)
           SB == (({"agent"} \cup {"--local"}) \cup {"--json", "--session-id"}) \cup {"--timeout"}
           A == base \o If(full /\ ~named, N)
<1>1. Args("openclaw", full, extra, custom) = (Ours(A) \o C) \o Ours(<<"--message">>)
  <2>1. C = filterCustomArgs(custom, openclawBlockedArgs)
    BY DEF Filtered, Blocked
  <2> HIDE DEF C
  <2> QED
    BY <2>1 DEF Args, buildOpenclawArgs
<1>2. C \in Seq(AllTokens) /\ Own(C) = {} /\ <<>> \in Seq(AllTokens) /\ Own(<<>>) = {} /\ Foreign(<<>>) = {}
  <2>1. <<>> \in Seq(AllTokens) /\ Own(<<>>) = {} /\ Foreign(<<>>) = {}
    BY EmptySeq DEF Own, Foreign
  <2> QED
    BY <2>1
<1> HIDE DEF C
<1>3. Flags(base, SB)
  <2>1. /\ Flags(F, {"agent"}) /\ Flags(G, {"--local"}) /\ Flags(H, {"--json", "--session-id"})
        /\ Flags(K, {"--timeout"})
    BY DEF Flags, Once, ToSet, OurFlags
  <2> HIDE DEF F, G, H, K
  <2>2. Flags(If(~full, G), {"--local"}) /\ Flags(If(full, K), {"--timeout"})
    BY <2>1, FlagsIf
  <2>3. Flags(F \o If(~full, G), {"agent"} \cup {"--local"})
    BY <2>1, <2>2, FlagsConcat
  <2>4. Flags((F \o If(~full, G)) \o H, ({"agent"} \cup {"--local"}) \cup {"--json", "--session-id"})
    BY <2>1, <2>3, FlagsConcat
  <2> QED
    BY <2>2, <2>4, FlagsConcat
<1>4. Flags(N, {"--agent"}) /\ Flags(<<"--message">>, {"--message"})
  BY DEF Flags, Once, ToSet, OurFlags
<1>5. SB \cap {"--message"} = {} /\ SB \cap {"--agent"} = {} /\ "--agent" \notin SB
  OBVIOUS
<1> HIDE DEF N, base, SB
<1>6. Owned(((Ours(A) \o <<>>) \o C) \o Ours(<<"--message">>), <<>>, C)
  <2>1. CASE full /\ ~named
    <3>1. A = base \o N
      BY <2>1 DEF If
    <3> HIDE DEF A
    <3>2. Flags(A, SB \cup {"--agent"}) /\ (SB \cup {"--agent"}) \cap {"--message"} = {}
      BY <1>3, <1>4, <1>5, <3>1, FlagsConcat
    <3>3. "--agent" \notin Foreign(<<>>) \cup Foreign(C)
      BY <1>2, <2>1 DEF Foreign
    <3> QED
      BY <1>2, <1>4, <3>2, <3>3, LaidOwned
  <2>2. CASE ~(full /\ ~named)
    <3>1. A = base
      BY <1>3, <2>2, ConcatEmptySeq DEF If, Flags
    <3> HIDE DEF A
    <3>2. Flags(A, SB) /\ "--agent" \notin SB \cup {"--message"}
      BY <1>3, <1>5, <3>1
    <3> QED
      BY <1>2, <1>4, <1>5, <3>2, LaidOwned
  <2> QED
    BY <2>1, <2>2
<1>7. Ours(A) \o <<>> = Ours(A)
  <2>1. Ours(A) \in Seq(AllTokens)
    <3>1. Flags(If(full /\ ~named, N), {"--agent"})
      BY <1>4, FlagsIf
    <3>2. Flags(A, SB \cup {"--agent"})
      BY <1>3, <1>5, <3>1, FlagsConcat
    <3> QED
      BY <3>2, OursViews
  <2> QED
    BY <2>1, ConcatEmptySeq
<1> HIDE DEF A
<1>8. Owned(Args("openclaw", full, extra, custom), <<>>, C)
  BY <1>1, <1>6, <1>7
<1> QED
  BY <1>8 DEF C

LEMMA ArgsOwned ==
  ASSUME NEW cli \in Known \ {"droid"}, NEW full \in BOOLEAN, NEW extra, NEW custom,
         Taking(cli, full, extra) \in Seq(AllTokens), Own(Taking(cli, full, extra)) = {},
         Filtered(cli, full, custom) \in Seq(AllTokens), Own(Filtered(cli, full, custom)) = {}
  PROVE  Owned(Args(cli, full, extra, custom), Taking(cli, full, extra), Filtered(cli, full, custom))
<1>1. cli \in {"claude", "codex", "opencode", "openclaw", "qwen", "gemini", "codebuddy", "copilot"}
  BY DEF Known, KnownAgents, ToSet
<1>2. CASE cli \in {"claude", "qwen", "gemini", "codebuddy", "copilot"}
  BY <1>2, UsualArgs
<1>3. CASE cli = "codex"
  BY <1>3, CodexArgs
<1>4. CASE cli = "opencode"
  BY <1>4, OpencodeArgs DEF Taking
<1>5. CASE cli = "openclaw"
  BY <1>5, OpenclawArgs DEF Taking
<1> QED
  BY <1>1, <1>2, <1>3, <1>4, <1>5

\* The options the daemon keeps from a CLI.
Reserved(cli, full) ==
  DOMAIN Blocked[cli] \cup (IF cli = "codex" /\ full THEN {mcpOverride} ELSE {})

\* Whatever the options are, well formed or not, the filters leave none of them that
\* is ours or reserved.
LEMMA FilteredLeaves ==
  ASSUME NEW cli \in Known, NEW full \in BOOLEAN, NEW args \in Seq(UserTokens)
  PROVE  /\ Filtered(cli, full, args) \in Seq(AllTokens)
         /\ Own(Filtered(cli, full, args)) = {}
         /\ Foreign(Filtered(cli, full, args)) \cap Reserved(cli, full) = {}
<1> DEFINE Once1 == {t \in UserTokens : t.role # "value" => t.text \notin DOMAIN Blocked[cli]}
           second == Blocking({}, {mcpOverride})
           Twice == {t \in Once1 : t.role # "value" => t.text \notin DOMAIN second}
           Rest == {t \in UserTokens : t.role # "value" => t.text \notin Reserved(cli, full)}
           left == Filtered(cli, full, args)
<1>1. \A t \in AllTokens : /\ unshellQuoteArg(t) \in AllTokens
                           /\ unshellQuoteArg(t).text = t.text /\ unshellQuoteArg(t).role = t.role
  BY DEF unshellQuoteArg, AllTokens
<1>2. filterCustomArgs(args, Blocked[cli]) \in Seq(Once1)
  <2>1. UserTokens \in SUBSET AllTokens /\ \A t \in UserTokens : unshellQuoteArg(t) \in UserTokens
    BY <1>1 DEF UserTokens
  <2> QED
    BY <2>1, FilterLeaves
<1>3. left \in Seq(Rest)
  <2>1. CASE cli = "codex" /\ full
    <3>1. Once1 \in SUBSET AllTokens /\ \A t \in Once1 : unshellQuoteArg(t) \in Once1
      BY <1>1 DEF UserTokens
    <3>2. DOMAIN second = {mcpOverride} /\ Blocked[cli] = codexBlockedArgs
      BY <2>1 DEF Blocking, Blocked
    <3> HIDE DEF Once1
    <3>3. filterCustomArgs(filterCustomArgs(args, Blocked[cli]), second) \in Seq(Twice)
      BY <1>2, <3>1, FilterLeaves
    <3>4. left \in Seq(Twice)
      BY <2>1, <3>2, <3>3 DEF Filtered, filterCodexCustomConfigOverrides
    <3>5. Twice \subseteq Rest
      BY <2>1, <3>2 DEF Reserved, Once1
    <3> HIDE DEF left, Twice, Rest
    <3> QED
      BY <3>4, <3>5, SeqMonotonic
  <2>2. CASE ~(cli = "codex" /\ full)
    <3>1. left = filterCustomArgs(args, Blocked[cli])
      BY <2>2 DEF Filtered
    <3>2. Once1 = Rest
      BY <2>2 DEF Reserved
    <3> QED
      BY <1>2, <3>1, <3>2
  <2> QED
    BY <2>1, <2>2
<1> HIDE DEF left
<1>4. Rest \subseteq AllTokens /\ \A i \in DOMAIN left : left[i] \in Rest
  <2>1. DOMAIN left = 1..Len(left)
    BY <1>3, LenProperties
  <2> HIDE DEF Rest
  <2>2. \A i \in DOMAIN left : left[i] \in Rest
    BY <1>3, <2>1, ElementOfSeq
  <2> QED
    BY <2>2 DEF Rest, UserTokens
<1>5. left \in Seq(AllTokens)
  <2> HIDE DEF Rest
  <2> QED
    BY <1>3, <1>4, SeqMonotonic
<1>6. Own(left) = {}
  BY <1>4 DEF Own, UserTokens
<1>7. Foreign(left) \cap Reserved(cli, full) = {}
  BY <1>4 DEF Foreign
<1> QED
  BY <1>5, <1>6, <1>7 DEF left

\* Every option that either filter may drop comes with a value if it takes one.
Fitting(cli, options) ==
  \A i \in DOMAIN options :
    FitsTo(options[i], Blocked[cli]) /\ FitsTo(options[i], Blocking({}, {mcpOverride}))

LEMMA OptionsTyped ==
  ASSUME NEW cli \in Known, NEW options \in Seq(OptionsOf(cli))
  PROVE  options \in Seq(AllOptions)
<1>1. OptionsOf(cli) \subseteq AllOptions
  BY OptionsAssumption DEF AllOptions
<1> QED
  BY <1>1, SeqMonotonic

LEMMA OptionsFit ==
  ASSUME NEW cli \in Known, NEW options \in Seq(OptionsOf(cli)), Fitting(cli, options)
  PROVE  /\ options \in Seq({o \in AllOptions : FitsTo(o, Blocked[cli])})
         /\ options \in Seq({o \in AllOptions : FitsTo(o, Blocking({}, {mcpOverride}))})
<1> DEFINE fitsFirst == {o \in AllOptions : FitsTo(o, Blocked[cli])}
           fitsSecond == {o \in AllOptions : FitsTo(o, Blocking({}, {mcpOverride}))}
<1>1. /\ Len(options) \in Nat /\ DOMAIN options = 1..Len(options)
      /\ options = [i \in 1..Len(options) |-> options[i]]
      /\ \A i \in 1..Len(options) : options[i] \in AllOptions
  <2>1. options \in Seq(AllOptions)
    BY OptionsTyped
  <2> QED
    BY <2>1, LenProperties, ElementOfSeq
<1>2. \A i \in 1..Len(options) : options[i] \in fitsFirst /\ options[i] \in fitsSecond
  BY <1>1 DEF Fitting
<1> HIDE DEF fitsFirst, fitsSecond
<1>3. options \in [1..Len(options) -> fitsFirst] /\ options \in [1..Len(options) -> fitsSecond]
  BY <1>1, <1>2
<1>4. options \in Seq(fitsFirst) /\ options \in Seq(fitsSecond)
  BY <1>1, <1>3
<1> QED
  BY <1>4 DEF fitsFirst, fitsSecond

LEMMA FilteredIs ==
  ASSUME NEW cli \in Known, NEW full \in BOOLEAN, NEW options \in Seq(OptionsOf(cli)),
         Fitting(cli, options)
  PROVE  Filtered(cli, full, CommandLine(options)) = PassedOf(options, Reserved(cli, full))
<1>1. ReadArgs(CommandLine(options), Blocked[cli])
      = [kept |-> PassedOf(options, DOMAIN Blocked[cli]), skip |-> FALSE]
  BY OptionsFit, FilteredOnce
<1>2. filterCustomArgs(CommandLine(options), Blocked[cli]) = PassedOf(options, DOMAIN Blocked[cli])
  BY <1>1 DEF filterCustomArgs
<1>3. CASE cli = "codex" /\ full
  <2> DEFINE once == PassedOf(options, DOMAIN Blocked[cli])
             twice == PassedOf(options, DOMAIN Blocked[cli] \cup DOMAIN Blocking({}, {mcpOverride}))
  <2>1. ReadArgs(once, Blocking({}, {mcpOverride})) = [kept |-> twice, skip |-> FALSE]
    BY OptionsFit, FilteredTwice
  <2>2. Blocked[cli] = codexBlockedArgs
    BY <1>3 DEF Blocked
  <2>3. DOMAIN Blocking({}, {mcpOverride}) = {mcpOverride}
    BY DEF Blocking
  <2>4. Filtered(cli, full, CommandLine(options)) = ReadArgs(once, Blocking({}, {mcpOverride})).kept
    BY <1>2, <1>3, <2>2 DEF Filtered, filterCodexCustomConfigOverrides, filterCustomArgs
  <2>5. twice = PassedOf(options, Reserved(cli, full))
    BY <1>3, <2>3 DEF Reserved
  <2> HIDE DEF once, twice
  <2> QED
    BY <2>1, <2>4, <2>5
<1>4. CASE ~(cli = "codex" /\ full)
  <2>1. Reserved(cli, full) = DOMAIN Blocked[cli]
    BY <1>4 DEF Reserved
  <2> QED
    BY <1>2, <1>4, <2>1 DEF Filtered
<1> QED
  BY <1>3, <1>4

\* What a CLI is started with, of options it may be given.
AsMeant(cli, full, extra, custom, args) ==
  /\ args \in Seq(AllTokens)
  /\ OwnOnce(args) /\ Foreign(args) \cap Reserved(cli, full) = {}
  /\ "--agent" \notin Own(args) \/ "--agent" \notin Foreign(args)
  /\ Fitting(cli, custom) =>
       /\ PassedOf(custom, Reserved(cli, full)) \in Seq(AllTokens)
       /\ \E e \in Seq(AllTokens) : Theirs(args) = e \o PassedOf(custom, Reserved(cli, full))
       /\ Fitting(cli, extra) =>
            Theirs(args) = PassedOf((IF cli \in {"opencode", "openclaw"} THEN <<>> ELSE extra) \o custom,
                                    Reserved(cli, full))

LEMMA ArgsAsMeant ==
  ASSUME NEW cli \in Known \ {"droid"}, NEW full \in BOOLEAN,
         NEW extra \in Seq(OptionsOf(cli)), NEW custom \in Seq(OptionsOf(cli))
  PROVE  AsMeant(cli, full, extra, custom, Args(cli, full, CommandLine(extra), CommandLine(custom)))
<1> DEFINE reserved == Reserved(cli, full)
           taken == IF cli \in {"opencode", "openclaw"} THEN <<>> ELSE extra
           args == Args(cli, full, CommandLine(extra), CommandLine(custom))
           E == Taking(cli, full, CommandLine(extra))
           C == Filtered(cli, full, CommandLine(custom))
<1>1. extra \in Seq(AllOptions) /\ custom \in Seq(AllOptions) /\ taken \in Seq(AllOptions)
  BY OptionsTyped, EmptySeq
<1>2. CommandLine(extra) \in Seq(UserTokens) /\ CommandLine(custom) \in Seq(UserTokens)
  BY <1>1, UserCommandLine
<1>3. C \in Seq(AllTokens) /\ Own(C) = {} /\ Foreign(C) \cap reserved = {}
  BY <1>2, FilteredLeaves
<1>4. E \in Seq(AllTokens) /\ Own(E) = {} /\ Foreign(E) \cap reserved = {}
  <2>1. CASE cli \in {"opencode", "openclaw"}
    <3>1. E = <<>>
      BY <2>1 DEF Taking
    <3>2. <<>> \in Seq(AllTokens) /\ Own(<<>>) = {} /\ Foreign(<<>>) = {}
      BY EmptySeq DEF Own, Foreign
    <3> QED
      BY <3>1, <3>2
  <2>2. CASE cli \notin {"opencode", "openclaw"}
    <3>1. E = Filtered(cli, full, CommandLine(extra))
      BY <2>2 DEF Taking
    <3> QED
      BY <1>2, <3>1, FilteredLeaves
  <2> QED
    BY <2>1, <2>2
<1>5. Owned(args, E, C)
  BY <1>3, <1>4, ArgsOwned
<1>6. Fitting(cli, custom) => C = PassedOf(custom, reserved)
  BY FilteredIs
<1>7. Fitting(cli, extra) => E = PassedOf(taken, reserved)
  <2>1. PassedOf(<<>>, reserved) = <<>>
    BY PassedNothing
  <2>2. Fitting(cli, extra) => Filtered(cli, full, CommandLine(extra)) = PassedOf(extra, reserved)
    BY FilteredIs
  <2> QED
    BY <2>1, <2>2 DEF Taking
<1> HIDE DEF taken, E, C, args, reserved
<1>8. PassedOf(taken \o custom, reserved) = PassedOf(taken, reserved) \o PassedOf(custom, reserved)
  BY <1>1, PassedViews, PassedConcat, SMTT(30)
<1>9. /\ args \in Seq(AllTokens) /\ Theirs(args) = E \o C
      /\ OwnOnce(args) /\ Foreign(args) \cap reserved = {}
      /\ "--agent" \notin Own(args) \/ "--agent" \notin Foreign(args)
  BY <1>3, <1>4, <1>5 DEF Owned
<1>10. ASSUME Fitting(cli, custom)
       PROVE  /\ PassedOf(custom, reserved) \in Seq(AllTokens)
              /\ \E e \in Seq(AllTokens) : Theirs(args) = e \o PassedOf(custom, reserved)
              /\ Fitting(cli, extra) => Theirs(args) = PassedOf(taken \o custom, reserved)
  BY <1>3, <1>4, <1>6, <1>7, <1>8, <1>9, <1>10
<1>11. AsMeant(cli, full, extra, custom, args)
  BY <1>9, <1>10 DEF AsMeant, taken, reserved
<1> QED
  BY <1>11 DEF args

-----------------------------------------------------------------------------
(* The arguments: the invariant                                               *)

Preparing == {"execute", "launched"}

\* A CLI is started with what config and request ask for, and with nothing else.
LaunchInv ==
  /\ pc \in Preparing =>
       /\ opts.extra \in Seq(OptionsOf(Route.cli)) /\ opts.custom \in Seq(OptionsOf(Route.cli))
       /\ opts.full \in BOOLEAN
  /\ pc = "launched" =>
       /\ Route.cli # "droid"
       /\ argv = Args(Route.cli, opts.full, CommandLine(opts.extra), CommandLine(opts.custom))

LEMMA OptionsBuilt ==
  ASSUME BuildExecOptions
  PROVE  /\ opts'.extra \in Seq(OptionsOf(Route.cli)) /\ opts'.custom \in Seq(OptionsOf(Route.cli))
         /\ opts'.full \in BOOLEAN
<1> DEFINE S == OptionsOf(Route.cli)
<1>1. PICK extra \in UpToOne(S), base \in UpToOne(S), custom \in UpToOne(S), full \in BOOLEAN :
        opts' = [extra |-> extra, custom |-> base \o custom, full |-> full]
  BY DEF BuildExecOptions
<1> HIDE DEF S
<1>2. \A q \in UpToOne(S) : q \in Seq(S)
  <2>1. <<>> \in Seq(S) /\ \A x \in S : <<x>> \in Seq(S)
    OBVIOUS
  <2> QED
    BY <2>1 DEF UpToOne
<1>3. base \o custom \in Seq(S)
  BY <1>2, ConcatProperties
<1> QED
  BY <1>1, <1>2, <1>3 DEF S

LEMMA LaunchStep ==
  ASSUME LaunchInv, [Next]_vars
  PROVE  LaunchInv'
<1> USE DEF startVars, routeVars, launchVars, runVars, answerVars, forwarderLeaves, handlerLeaves,
            requestLeaves, executeLeaves, Proceed, Refuse, Preparing
<1>1. CASE BuildExecOptions
  <2>1. pc' = "execute" /\ target' = target
    BY <1>1 DEF BuildExecOptions
  <2>2. Route' = Route
    BY <2>1 DEF Route
  <2> QED
    BY <1>1, <2>1, <2>2, OptionsBuilt DEF LaunchInv
<1>2. CASE Launch
  <2>1. /\ pc = "execute" /\ pc' = "launched" /\ Route.cli # "droid"
        /\ UNCHANGED <<target, opts>>
        /\ argv' = Args(Route.cli, opts.full, CommandLine(opts.extra), CommandLine(opts.custom))
    BY <1>2 DEF Launch, CommandLine
  <2>2. Route' = Route
    BY <2>1 DEF Route
  <2> QED
    BY <2>1, <2>2 DEF LaunchInv
<1>3. ASSUME pc' \notin Preparing
      PROVE  LaunchInv'
  BY <1>3 DEF LaunchInv
<1>4. ASSUME UNCHANGED <<pc, target, opts, argv>>
      PROVE  LaunchInv'
  <2>1. Route' = Route
    BY <1>4 DEF Route
  <2> QED
    BY <1>4, <2>1 DEF LaunchInv
<1>5. CASE \E files \in Files, env \in Environments : StartDaemon(files, env)
  BY <1>3, <1>5 DEF StartDaemon
<1>6. CASE \E a \in Asks : Arrive(a)
  BY <1>3, <1>6 DEF Arrive
<1>7. CASE Authenticate \/ Decode \/ Resolve
  BY <1>3, <1>7 DEF Authenticate, Decode, Resolve
<1>8. CASE FindAdapter \/ Acquire \/ QueueTimeout \/ CancelledWhileQueued
  BY <1>3, <1>8 DEF FindAdapter, Acquire, QueueTimeout, CancelledWhileQueued
<1>9. CASE StubFails \/ ExecuteFails \/ ExecuteReturns
  BY <1>3, <1>9 DEF StubFails, ExecuteFails, ExecuteReturns
<1>10. CASE \E kind \in Kinds : Emit(kind)
  BY <1>4, <1>10 DEF Emit
<1>11. CASE \E s \in {"completed", "failed", "cancelled"}, output \in BOOLEAN : SendResult(s, output)
  BY <1>4, <1>11 DEF SendResult
<1>12. CASE CloseEvents \/ ClientLeaves
  BY <1>4, <1>12 DEF CloseEvents, ClientLeaves
<1>13. CASE Lead \/ StreamEvent \/ StreamEnds
  BY <1>3, <1>13 DEF Lead, StreamEvent, StreamEnds
<1>14. CASE Collect \/ CollectEnds \/ SeeClientGone
  BY <1>3, <1>14 DEF Collect, CollectEnds, SeeClientGone
<1>15. CASE Terminated \/ UNCHANGED vars
  BY <1>4, <1>15 DEF Terminated, vars
<1> QED
  BY <1>1, <1>2, <1>5, <1>6, <1>7, <1>8, <1>9, <1>10, <1>11, <1>12, <1>13, <1>14, <1>15 DEF Next

LEMMA LaunchInvariant == Spec => []LaunchInv
<1>1. Init => LaunchInv
  BY DEF Init, LaunchInv, Preparing
<1>2. LaunchInv /\ [Next]_vars => LaunchInv'
  BY LaunchStep
<1> QED
  BY <1>1, <1>2, PTL DEF Spec

\* At most one argument of ours has the text f, if ours are different.
LEMMA OnceIsOne ==
  ASSUME NEW s \in Seq(AllTokens), NEW f, OwnOnce(s)
  PROVE  Cardinality({i \in DOMAIN s : s[i].text = f /\ s[i].role = "ours"}) <= 1
<1> DEFINE S == {i \in DOMAIN s : s[i].text = f /\ s[i].role = "ours"}
<1>1. CASE S = {}
  <2> HIDE DEF S
  <2>1. Cardinality(S) = 0
    BY <1>1, FS_EmptySet
  <2> QED
    BY <2>1 DEF S
<1>2. CASE S # {}
  <2>1. PICK i : i \in S
    BY <1>2
  <2>2. S = {i}
    BY <2>1 DEF OwnOnce
  <2> HIDE DEF S
  <2>3. Cardinality(S) = 1
    BY <2>2, FS_Singleton
  <2> QED
    BY <2>3 DEF S
<1> QED
  BY <1>1, <1>2

LEMMA EndsConcat ==
  ASSUME NEW T, NEW a \in Seq(T), NEW b \in Seq(T)
  PROVE  Ends(a \o b, b)
<1> DEFINE ab == a \o b
<1>1. ab \in Seq(T) /\ Len(ab) = Len(a) + Len(b) /\ Len(a) \in Nat /\ Len(b) \in Nat
  BY LenProperties, ConcatProperties
<1>2. <<>> \in Seq(T) /\ Len(<<>>) = 0 /\ ab \o <<>> = ab
  BY <1>1, EmptySeq, ConcatEmptySeq
<1>3. SubSeq(ab \o <<>>, Len(a) + 1, Len(ab \o <<>>) - Len(<<>>)) = b
  BY <1>2, Middle
<1> HIDE DEF ab
<1>7. Len(ab \o <<>>) - Len(<<>>) = Len(ab)
  BY <1>1, <1>2
<1>4. SubSeq(ab, Len(a) + 1, Len(ab)) = b
  BY ONLY <1>2, <1>3, <1>7, Zenon
<1>5. Len(ab) - Len(b) + 1 = Len(a) + 1 /\ Len(b) <= Len(ab)
  BY <1>1
<1>6. Ends(ab, b)
  BY <1>4, <1>5 DEF Ends
<1> QED
  BY <1>6 DEF ab

LEMMA LaunchedAsMeant ==
  ASSUME RouteInv, LaunchInv, pc = "launched"
  PROVE  /\ argv \in Seq(AllTokens)
         /\ OwnOnce(argv) /\ Foreign(argv) \cap OwnedFlags = {}
         /\ "--agent" \notin Own(argv) \/ "--agent" \notin Foreign(argv)
         /\ WellFormed(opts.custom) =>
              /\ Ends(Theirs(argv), Passed(opts.custom))
              /\ WellFormed(opts.extra) =>
                   \/ Theirs(argv) = Passed(opts.extra \o opts.custom)
                   \/ Route.cli \notin {"claude", "codex"} /\ Theirs(argv) = Passed(opts.custom)
<1> DEFINE cli == Route.cli
           full == opts.full
           extra == opts.extra
           custom == opts.custom
<1>1. cli \in Known
  BY DEF RouteInv, Progress, Chosen, Found, Adapters
<1>2. /\ extra \in Seq(OptionsOf(cli)) /\ custom \in Seq(OptionsOf(cli)) /\ full \in BOOLEAN
      /\ cli # "droid"
      /\ argv = Args(cli, full, CommandLine(extra), CommandLine(custom))
  BY DEF LaunchInv, Preparing
<1>3. OwnedFlags = Reserved(cli, full)
  BY DEF OwnedFlags, Reserved
<1>4. \A options : Passed(options) = PassedOf(options, Reserved(cli, full))
  BY <1>3 DEF Passed, PassedOf
<1>5. \A options : WellFormed(options) => Fitting(cli, options)
  <2>1. /\ DOMAIN Blocking({}, {mcpOverride}) = {mcpOverride}
        /\ Blocking({}, {mcpOverride})[mcpOverride] = "withValue"
    BY DEF Blocking
  <2> QED
    BY <2>1 DEF WellFormed, Fitting, FitsTo
<1> HIDE DEF cli, full, extra, custom
<1> DEFINE taken == IF cli \in {"opencode", "openclaw"} THEN <<>> ELSE extra
<1>6. /\ argv \in Seq(AllTokens)
      /\ OwnOnce(argv) /\ Foreign(argv) \cap Reserved(cli, full) = {}
      /\ "--agent" \notin Own(argv) \/ "--agent" \notin Foreign(argv)
      /\ Fitting(cli, custom) =>
           /\ PassedOf(custom, Reserved(cli, full)) \in Seq(AllTokens)
           /\ \E e \in Seq(AllTokens) : Theirs(argv) = e \o PassedOf(custom, Reserved(cli, full))
           /\ Fitting(cli, extra) => Theirs(argv) = PassedOf(taken \o custom, Reserved(cli, full))
  <2>1. cli \in Known \ {"droid"}
    BY <1>1, <1>2
  <2>2. AsMeant(cli, full, extra, custom, argv)
    BY <1>2, <2>1, ArgsAsMeant
  <2> QED
    BY <2>2 DEF AsMeant
<1>7. ASSUME WellFormed(custom)
      PROVE  Ends(Theirs(argv), Passed(custom))
  BY <1>4, <1>5, <1>6, <1>7, EndsConcat
<1>8. ASSUME WellFormed(custom), WellFormed(extra)
      PROVE  \/ Theirs(argv) = Passed(extra \o custom)
             \/ cli \notin {"claude", "codex"} /\ Theirs(argv) = Passed(custom)
  <2>1. Theirs(argv) = Passed(taken \o custom)
    BY <1>4, <1>5, <1>6, <1>8
  <2>2. CASE cli \in {"opencode", "openclaw"}
    <3>1. taken \o custom = custom
      BY <1>2, <2>2, ConcatEmptySeq
    <3> QED
      BY <2>1, <2>2, <3>1
  <2>3. CASE cli \notin {"opencode", "openclaw"}
    BY <2>1, <2>3
  <2> QED
    BY <2>2, <2>3
<1> QED
  BY <1>3, <1>6, <1>7, <1>8 DEF cli, custom, extra

\* However config and client write what they pass to a CLI, none of it can take the
\* place of an argument the daemon depends on; and all of it that is not reserved
\* reaches the CLI in its order and with its values, if the reserved flags among it
\* come with theirs. For every list of options (buildExecOptions, filterCustomArgs,
\* the build...Args of the adapters).
THEOREM FlagsStayOurs == Spec => []OwnedFlagsAreOurs
<1>1. RouteInv /\ LaunchInv => OwnedFlagsAreOurs
  <2> SUFFICES ASSUME RouteInv, LaunchInv, pc = "launched" PROVE OwnedFlagsAreOurs
    BY DEF OwnedFlagsAreOurs
  <2> DEFINE ours(f) == {i \in DOMAIN argv : argv[i].text = f /\ argv[i].role = "ours"}
             others(f) == {i \in DOMAIN argv : argv[i].text = f /\ argv[i].role \in {"flag", "pair"}}
             theirs == FlattenSeq([i \in DOMAIN argv |-> If(argv[i].role # "ours", <<argv[i]>>)])
  <2>1. /\ argv \in Seq(AllTokens)
        /\ OwnOnce(argv) /\ Foreign(argv) \cap OwnedFlags = {}
        /\ "--agent" \notin Own(argv) \/ "--agent" \notin Foreign(argv)
        /\ WellFormed(opts.custom) =>
             /\ Ends(Theirs(argv), Passed(opts.custom))
             /\ WellFormed(opts.extra) =>
                  \/ Theirs(argv) = Passed(opts.extra \o opts.custom)
                  \/ Route.cli \notin {"claude", "codex"} /\ Theirs(argv) = Passed(opts.custom)
    BY LaunchedAsMeant
  <2>2. \A f : Cardinality(ours(f)) <= 1
    BY <2>1, OnceIsOne
  <2>3. \A f : f \notin Foreign(argv) => others(f) = {}
    BY DEF Foreign
  <2>4. \A f : f \notin Own(argv) => ours(f) = {}
    BY DEF Own
  <2>5. \A f \in OwnedFlags : Cardinality(ours(f)) <= 1 /\ others(f) = {}
    BY <2>1, <2>2, <2>3
  <2>6. ours("--agent") = {} \/ others("--agent") = {}
    BY <2>1, <2>3, <2>4
  <2>7. theirs = Theirs(argv)
    BY DEF Theirs
  <2> HIDE DEF theirs, ours, others
  <2>8. /\ \A f \in OwnedFlags : Cardinality(ours(f)) <= 1 /\ others(f) = {}
        /\ ours("--agent") = {} \/ others("--agent") = {}
        /\ WellFormed(opts.custom) =>
             /\ Ends(theirs, Passed(opts.custom))
             /\ WellFormed(opts.extra) =>
                  \/ theirs = Passed(opts.extra \o opts.custom)
                  \/ Route.cli \notin {"claude", "codex"} /\ theirs = Passed(opts.custom)
    BY <2>1, <2>5, <2>6, <2>7
  <2> QED
    BY <2>8 DEF OwnedFlagsAreOurs, theirs, ours, others
<1> QED
  BY <1>1, RouteInvariant, LaunchInvariant, PTL
=============================================================================
