------------------------------ MODULE AcpProofs -----------------------------
(* What an ACP session reports is justified, its handshake is in order and   *)
(* the contract of adapter.Session is kept, with and without a session to    *)
(* resume and an MCP config, however long the server goes on.                *)
EXTENDS MCAcp, TLAPS

Seen == [status : {"completed", "failed"}, session : SessionIds, text : BOOLEAN]

Reporting == {"report", "closeDone", "closeResult", "closeMessages", "cancel", "done"}

\* finalStatus remembers what went wrong.
SeenExplained == seen.status = "failed" <=> Wrong

Progress ==
  /\ pc \in {"prepare", "start", "refused"} => process = "none"
  /\ pc \in Reporting => process = "exited"
  /\ process = "exited" <=> exit # "none"
  /\ pc \in Reporting /\ exit = "error" => waitErr

\* Which of the three calls on the channels have been made.
Channels ==
  /\ result = <<>> <=> pc \notin Reporting \ {"report"}
  /\ resultOpen <=> pc \notin {"closeMessages", "cancel", "done"}
  /\ messages = "open" <=> pc \notin {"cancel", "done"}
  /\ Len(result) <= 1

\* The number of requests that come before the next one.
Before == CASE step = "initialize" -> 0 [] step = "session" -> 1 [] step = "prompt" -> 2

\* The requests before the next one are written, that one perhaps, and no other;
\* and only the last of them may still be answered: then nothing is to be written.
Ordered ==
  strays = 0 =>
    /\ Len(sent) \in {Before, Before + 1}
    /\ pc \in {"prepare", "start", "refused", "lock", "write"} => Len(sent) = Before
    /\ \A n \in DOMAIN sent : sent[n].method = Handshake[n]
    /\ \A m \in {"initialize", "session", "prompt"} :
         Id[m] \in unanswered => m = step /\ Len(sent) = Before + 1

Weigh(b, n) == IF b THEN n ELSE 0

\* The requests that the next one and those still unanswered may lead to.
ToCome ==
  Weigh(pc \in {"prepare", "start", "lock", "write"}, 3 - Before)
    + Weigh(1 \in unanswered, 2) + Weigh(2 \in unanswered, 1)

\* Only a stray response adds to the requests written or to come.
Bounded == Len(sent) + ToCome <= 3 + 2 * strays

IInv == TypeOK /\ SeenExplained /\ Progress /\ Channels /\ Ordered /\ Bounded /\ VerdictIsJustified

LEMMA IdsAre ==
  /\ Methods = {"initialize", "session", "prompt", "cancel"}
  /\ Id["initialize"] = 1 /\ Id["session"] = 2 /\ Id["prompt"] = 3 /\ Id["cancel"] = 99
  /\ Ids = {1, 2, 3, 99}
<1>1. Methods = {"initialize", "session", "prompt", "cancel"}
  BY DEF Methods, Id
<1>2. Id["initialize"] = 1 /\ Id["session"] = 2 /\ Id["prompt"] = 3 /\ Id["cancel"] = 99
  BY DEF Id
<1> QED
  BY <1>1, <1>2 DEF Ids

LEMMA InitIInv == Init => IInv
<1> SUFFICES ASSUME Init PROVE IInv
  OBVIOUS
<1>1. sent \in Seq([method : Methods, session : SessionIds]) /\ result \in Seq(Results)
      /\ Len(sent) = 0 /\ DOMAIN sent = {} /\ DOMAIN result = {} /\ Len(result) = 0
  BY DEF Init
<1>2. TypeOK
  BY <1>1, AcpAssumption DEF Init, TypeOK, SessionIds
<1>3. SeenExplained /\ Progress /\ Channels
  BY <1>1, AcpAssumption DEF Init, SeenExplained, Wrong, Progress, Channels, Reporting
<1>4. Ordered /\ Bounded /\ VerdictIsJustified
  BY <1>1 DEF Init, Ordered, Bounded, ToCome, Weigh, Before, VerdictIsJustified
<1> QED
  BY <1>2, <1>3, <1>4 DEF IInv

LEMMA TypeStep == ASSUME TypeOK, [Next]_vars PROVE TypeOK'
<1> USE DEF writeLeaves, processLeaves, sessionVars, processVars, stdinVars, CancelContext
<1>1. CASE WriteMcpConfig
  BY <1>1 DEF WriteMcpConfig, executeLeaves, TypeOK
<1>2. CASE StartProcess
  BY <1>2 DEF StartProcess, executeLeaves, TypeOK
<1>3. CASE StartFails
  BY <1>3 DEF StartFails, executeLeaves, TypeOK
<1>4. CASE DriverLocks
  BY <1>4 DEF DriverLocks, Lock, TypeOK
<1>5. CASE WatcherLocks
  BY <1>5 DEF WatcherLocks, Lock, TypeOK
<1>6. ASSUME NEW who \in {"driver", "watcher"}, NEW method \in Methods, Write(who, method)
      PROVE  /\ sent' \in Seq([method : Methods, session : SessionIds])
             /\ unanswered' \subseteq Ids /\ lock' = "free" /\ stdin' = stdin
  <2>1. Request(method) \in [method : Methods, session : SessionIds]
    BY DEF TypeOK, Request, Asked, SessionIds
  <2>2. Id[method] \in Ids
    BY DEF Ids
  <2>3. sent \in Seq([method : Methods, session : SessionIds]) /\ unanswered \subseteq Ids
    BY DEF TypeOK
  <2>4. CASE ~StdinBroken /\ who = "driver"
    <3>1. sent' = Append(sent, Request(method)) /\ unanswered' = unanswered \cup {Id[method]}
          /\ lock' = "free" /\ stdin' = stdin
      BY <1>6, <2>4 DEF Write
    <3> QED
      BY <2>1, <2>2, <2>3, <3>1
  <2>5. CASE ~(~StdinBroken /\ who = "driver")
    BY <1>6, <2>1, <2>2, <2>3, <2>5 DEF Write
  <2> QED
    BY <2>4, <2>5
<1>7. CASE DriverWrites
  <2>1. step \in Methods
    BY IdsAre DEF TypeOK
  <2>2. /\ sent' \in Seq([method : Methods, session : SessionIds])
        /\ unanswered' \subseteq Ids /\ lock' = "free" /\ stdin' = stdin
    BY <1>6, <1>7, <2>1 DEF DriverWrites
  <2> QED
    BY <1>7, <2>2 DEF DriverWrites, TypeOK
<1>8. CASE WatcherWrites
  <2>1. "cancel" \in Methods
    BY IdsAre
  <2>2. /\ sent' \in Seq([method : Methods, session : SessionIds])
        /\ unanswered' \subseteq Ids /\ lock' = "free" /\ stdin' = stdin
    BY <1>6, <1>8, <2>1 DEF WatcherWrites
  <2> QED
    BY <1>8, <2>2 DEF WatcherWrites, TypeOK
<1>9. CASE WatcherWakes
  BY <1>9 DEF WatcherWakes, TypeOK
<1>10. ASSUME NEW l \in Lines, ReadLine(l)
      PROVE  TypeOK'
  <2>1. l.session \in SessionIds
    BY DEF Lines
  <2>2. unanswered' \subseteq Ids /\ strays' \in Nat /\ told' \subseteq {"error", "scan"}
    BY <1>10 DEF ReadLine, Heard, TypeOK
  <2>3. CASE Answer(l)
    BY <1>10, <2>1, <2>2, <2>3 DEF ReadLine, scanLeaves, Answer, WithSession, Asked, SessionIds, TypeOK
  <2>4. CASE Error(l)
    BY <1>10, <2>2, <2>4 DEF ReadLine, scanLeaves, Error, TypeOK
  <2>5. CASE SessionMessage(l)
    <3>1. seen' \in Seen
      BY <2>1, <2>5 DEF SessionMessage, WithSession, TypeOK, Seen
    <3> QED
      BY <1>10, <2>2, <2>5, <3>1 DEF ReadLine, scanLeaves, SessionMessage, TypeOK, Seen
  <2>6. CASE SessionFinished(l)
    BY <1>10, <2>1, <2>2, <2>6 DEF ReadLine, scanLeaves, SessionFinished, WithSession, TypeOK
  <2>7. CASE Skip(l)
    BY <1>10, <2>2, <2>7 DEF ReadLine, scanLeaves, Skip, TypeOK
  <2> QED
    BY <1>10, <2>3, <2>4, <2>5, <2>6, <2>7 DEF ReadLine, Notification
<1>11. CASE ScanEnds
  BY <1>11 DEF ScanEnds, scanLeaves, TypeOK
<1>12. CASE ScanFails
  BY <1>12 DEF ScanFails, scanLeaves, TypeOK
<1>13. CASE WaitReturns
  <2>1. waitErr' \in BOOLEAN
    BY <1>13, Zenon DEF WaitReturns
  <2> QED
    BY <1>13, <2>1 DEF WaitReturns, finishLeaves, TypeOK
<1>14. CASE Report
  <2> DEFINE r == [status |-> Verdict, session |-> ReportedId(Verdict), text |-> seen.text]
  <2>1. r \in Results
    BY DEF Verdict, ReportedId, Results, SessionIds, TypeOK
  <2>2. result' = Append(result, r) /\ result \in Seq(Results)
    BY <1>14 DEF Report, TypeOK
  <2>3. result' \in Seq(Results)
    BY <2>1, <2>2
  <2> QED
    BY <1>14, <2>3 DEF Report, finishLeaves, TypeOK
<1>15. CASE CloseDone
  BY <1>15 DEF CloseDone, finishLeaves, TypeOK
<1>16. CASE CloseResult
  <2>1. result' \in Seq(Results) /\ resultOpen' \in BOOLEAN /\ waitErr' \in BOOLEAN
    BY <1>16 DEF CloseResult, TypeOK
  <2> QED
    BY <1>16, <2>1 DEF CloseResult, finishLeaves, TypeOK
<1>17. CASE CloseMessages
  BY <1>17 DEF CloseMessages, finishLeaves, TypeOK
<1>18. CASE CancelOnReturn
  BY <1>18 DEF CancelOnReturn, finishLeaves, TypeOK
<1>19. CASE ContextEnds
  BY <1>19 DEF ContextEnds, TypeOK
<1>20. CASE ProcessStops
  BY <1>20 DEF ProcessStops, TypeOK
<1>21. CASE HelperLives
  BY <1>21 DEF HelperLives, TypeOK
<1>22. CASE Killed
  BY <1>22 DEF Killed, TypeOK
<1>23. CASE UNCHANGED vars
  BY <1>23 DEF vars, TypeOK
<1> QED
  BY <1>1, <1>2, <1>3, <1>4, <1>7, <1>8, <1>9, <1>10, <1>11, <1>12, <1>13, <1>14, <1>15, <1>19, <1>23,
    <1>5, <1>16, <1>17, <1>18, <1>20, <1>21, <1>22
    DEF Next, Execute, Finish, Terminated

\* A Result once reported stays justified: nothing it rests on is taken back.
LEMMA VerdictStands ==
  ASSUME VerdictIsJustified, TypeOK, UNCHANGED <<result, told>>,
         exit = "zero" => exit' = "zero", waitErr => waitErr', ctx # "live" => ctx' = ctx
  PROVE  VerdictIsJustified'
<1>1. Wrong' <=> Wrong
  BY DEF Wrong
<1>2. ASSUME NEW status \in {"completed", "failed", "aborted", "timeout"}, Justified(status)
      PROVE  Justified(status)'
  <2>1. CASE status = "completed"
    BY <1>1, <1>2, <2>1 DEF Justified
  <2>2. CASE status = "failed"
    BY <1>1, <1>2, <2>2 DEF Justified
  <2>3. CASE status \in {"aborted", "timeout"}
    BY <1>2, <2>3 DEF Justified
  <2> QED
    BY <2>1, <2>2, <2>3
<1>3. result \in Seq(Results)
  BY DEF TypeOK
<1>4. \A i \in DOMAIN result : result[i] \in Results
  BY <1>3
<1>5. \A i \in DOMAIN result : result[i].status \in {"completed", "failed", "aborted", "timeout"}
  BY <1>4 DEF Results
<1> QED
  BY <1>2, <1>5 DEF VerdictIsJustified

LEMMA NothingReported ==
  ASSUME Channels, pc \notin Reporting \ {"report"}, UNCHANGED result
  PROVE  VerdictIsJustified'
BY DEF Channels, VerdictIsJustified

\* A step past the handshake, or outside it, leaves it as it is.
LEMMA HandshakeStays ==
  ASSUME TypeOK, Ordered, Bounded, UNCHANGED <<step, sent, strays>>,
         unanswered' \subseteq unanswered \cup {99},
         pc' \in {"prepare", "start", "refused", "lock", "write"} =>
           pc \in {"prepare", "start", "refused", "lock", "write"},
         pc' # pc => pc' = "refused" \/ pc' \notin {"prepare", "start", "lock", "write"}
                       \/ pc \in {"prepare", "start", "lock", "write"}
  PROVE  Ordered' /\ Bounded'
<1>1. \A m \in {"initialize", "session", "prompt"} : Id[m] \in unanswered' => Id[m] \in unanswered
  BY IdsAre
<1>2. Before' = Before /\ Before \in 0..2 /\ Len(sent) \in Nat /\ strays \in Nat
  BY DEF Before, TypeOK
<1>3. Ordered'
  BY <1>1, <1>2 DEF Ordered
<1>4. ToCome' <= ToCome /\ ToCome \in Nat /\ ToCome' \in Nat
  BY <1>2 DEF ToCome, Weigh
<1> QED
  BY <1>2, <1>3, <1>4 DEF Bounded

LEMMA ExecuteKeeps == IInv /\ Execute => IInv'
<1> SUFFICES ASSUME IInv, Execute PROVE IInv'
  OBVIOUS
<1> USE DEF IInv, executeLeaves, sessionVars, Execute, WriteMcpConfig, StartProcess, StartFails
<1>1. TypeOK'
  BY TypeStep DEF Next
<1>2. SeenExplained'
  BY DEF SeenExplained, Wrong
<1>3. Progress' /\ Channels'
  BY DEF Progress, Channels, Reporting, TypeOK
<1>4. Ordered' /\ Bounded'
  BY HandshakeStays
<1>5. VerdictIsJustified'
  BY NothingReported DEF Reporting
<1> QED
  BY <1>1, <1>2, <1>3, <1>4, <1>5

LEMMA DriverKeeps == IInv /\ (DriverLocks \/ DriverWrites) => IInv'
<1> SUFFICES ASSUME IInv, DriverLocks \/ DriverWrites PROVE IInv'
  OBVIOUS
<1> USE DEF IInv, writeLeaves, sessionVars, processVars, stdinVars
<1>1. TypeOK'
  BY TypeStep DEF Next
<1>2. SeenExplained'
  BY DEF DriverLocks, DriverWrites, SeenExplained, Wrong
<1>3. Progress' /\ Channels'
  BY DEF DriverLocks, DriverWrites, Lock, Write, Progress, Channels, Reporting, TypeOK
<1>4. Ordered'
  <2>1. CASE UNCHANGED <<sent, unanswered>>
    BY <2>1 DEF Ordered, Before, DriverLocks, DriverWrites, Lock, Write
  <2>2. CASE ~UNCHANGED <<sent, unanswered>>
    <3>1. pc = "write" /\ pc' = "scan" /\ sent' = Append(sent, Request(step))
          /\ unanswered' = unanswered \cup {Id[step]}
      BY <2>2 DEF DriverLocks, DriverWrites, Lock, Write
    <3>2. Request(step).method = step
      BY DEF Request
    <3>3. SUFFICES ASSUME strays = 0 PROVE Ordered'
      BY DEF Ordered, DriverLocks, DriverWrites
    <3>4. Len(sent) = Before /\ Before \in 0..2 /\ step = Handshake[Before + 1] /\ Before' = Before
      BY <3>1, <3>3 DEF Ordered, Before, Handshake, TypeOK, DriverLocks, DriverWrites
    <3>5. Len(sent') = Before + 1 /\ \A n \in DOMAIN sent' : sent'[n].method = Handshake[n]
      BY <3>1, <3>2, <3>3, <3>4 DEF Ordered, TypeOK
    <3>6. \A m \in {"initialize", "session", "prompt"} : Id[m] \in unanswered' => m = step
      BY <3>1, <3>3, <3>4, IdsAre DEF Ordered, TypeOK
    <3> QED
      BY <3>1, <3>4, <3>5, <3>6 DEF Ordered, DriverLocks, DriverWrites
  <2> QED
    BY <2>1, <2>2
<1>5. Bounded'
  <2>1. Len(sent) \in Nat /\ Before \in 0..2 /\ Before' = Before
    BY DEF TypeOK, Before, DriverLocks, DriverWrites
  <2>2. CASE UNCHANGED <<sent, unanswered>>
    BY <2>1, <2>2 DEF Bounded, ToCome, Weigh, DriverLocks, DriverWrites, TypeOK
  <2>3. CASE ~UNCHANGED <<sent, unanswered>>
    <3>1. pc = "write" /\ pc' = "scan" /\ sent' = Append(sent, Request(step))
          /\ unanswered' = unanswered \cup {Id[step]} /\ strays' = strays
      BY <2>3 DEF DriverLocks, DriverWrites, Lock, Write
    <3>2. Len(sent') = Len(sent) + 1
      BY <3>1 DEF TypeOK
    <3>3. step \in {"initialize", "session", "prompt"}
      BY DEF TypeOK
    <3>4. Weigh(1 \in unanswered', 2) + Weigh(2 \in unanswered', 1)
            <= Weigh(1 \in unanswered, 2) + Weigh(2 \in unanswered, 1) + 2 - Before
      BY <3>1, <3>3, IdsAre DEF Weigh, Before
    <3> QED
      BY <2>1, <3>1, <3>2, <3>4 DEF Bounded, ToCome, Weigh, TypeOK
  <2> QED
    BY <2>2, <2>3
<1>6. VerdictIsJustified'
  BY VerdictStands DEF DriverLocks, DriverWrites
<1> QED
  BY <1>1, <1>2, <1>3, <1>4, <1>5, <1>6

LEMMA WatcherKeeps == IInv /\ (WatcherWakes \/ WatcherLocks \/ WatcherWrites) => IInv'
<1> SUFFICES ASSUME IInv, WatcherWakes \/ WatcherLocks \/ WatcherWrites PROVE IInv'
  OBVIOUS
<1> USE DEF IInv, writeLeaves, sessionVars, processVars, stdinVars, WatcherWakes, WatcherLocks,
      WatcherWrites, Lock
<1>1. TypeOK'
  BY TypeStep DEF Next
<1>2. SeenExplained'
  BY DEF SeenExplained, Wrong
<1>3. Progress' /\ Channels'
  BY DEF Progress, Channels, Reporting, TypeOK
<1>4. Ordered' /\ Bounded'
  <2>1. unanswered' \subseteq unanswered \cup {99} /\ sent' = sent
    BY IdsAre DEF Write
  <2> QED
    BY <2>1, HandshakeStays
<1>5. VerdictIsJustified'
  BY VerdictStands
<1> QED
  BY <1>1, <1>2, <1>3, <1>4, <1>5

\* A response moves the handshake on, and is the last one that may: its id is taken
\* out of unanswered. Nothing else moves it.
LEMMA ReadLineKeeps == ASSUME IInv, NEW l \in Lines, ReadLine(l) PROVE IInv'
<1> USE DEF IInv, ReadLine, scanLeaves, sessionVars, processVars
<1>1. TypeOK'
  BY TypeStep DEF Next
<1>2. SeenExplained'
  <2>1. CASE Answer(l)
    BY <2>1 DEF Heard, Answer, WithSession, SeenExplained, Wrong, TypeOK
  <2>2. CASE Error(l)
    BY <2>2 DEF Heard, Error, SeenExplained, Wrong, TypeOK
  <2>3. CASE Notification(l)
    BY <2>3 DEF Heard, Notification, SessionMessage, SessionFinished, Skip, WithSession,
      SeenExplained, Wrong, TypeOK
  <2> QED
    BY <2>1, <2>2, <2>3
<1>3. pc = "scan" /\ pc' \in {"lock", "scan", "wait"}
  BY DEF Answer, Error, Notification, SessionMessage, SessionFinished, Skip
<1>4. Progress' /\ Channels'
  BY <1>3 DEF Progress, Channels, Reporting, TypeOK
<1>5. CASE Answer(l)
  <2>1. /\ unanswered' = unanswered \ {l.id}
        /\ strays' = IF l.id \in unanswered THEN strays ELSE strays + 1
    BY <1>5 DEF Answer, Heard, Stray, ResponseKinds
  <2>2. strays \in Nat /\ Len(sent) \in Nat /\ Before \in 0..2
    BY DEF TypeOK, Before
  <2>3. CASE l.id = 1
    <3>1. pc' = "lock" /\ step' = "session" /\ Before' = 1
      BY <1>5, <2>3 DEF Answer, Id, Before
    <3>2. Ordered'
      <4> SUFFICES ASSUME strays' = 0 PROVE Ordered'
        BY DEF Ordered
      <4>1. strays = 0 /\ 1 \in unanswered
        BY <2>1, <2>2, <2>3
      <4>2. step = "initialize" /\ Len(sent) = 1
        BY <4>1, IdsAre DEF Ordered, Before
      <4> QED
        BY <2>1, <2>3, <3>1, <4>1, <4>2, IdsAre DEF Ordered
    <3>3. Bounded'
      BY <1>3, <2>1, <2>2, <2>3, <3>1 DEF Bounded, ToCome, Weigh
    <3> QED
      BY <1>1, <1>2, <1>3, <1>4, <3>2, <3>3, NothingReported DEF Reporting
  <2>4. CASE l.id = 2
    <3>1. pc' = "lock" /\ step' = "prompt" /\ Before' = 2
      BY <1>5, <2>4 DEF Answer, Id, Before
    <3>2. Ordered'
      <4> SUFFICES ASSUME strays' = 0 PROVE Ordered'
        BY DEF Ordered
      <4>1. strays = 0 /\ 2 \in unanswered
        BY <2>1, <2>2, <2>4
      <4>2. step = "session" /\ Len(sent) = 2
        BY <4>1, IdsAre DEF Ordered, Before
      <4> QED
        BY <2>1, <2>4, <3>1, <4>1, <4>2, IdsAre DEF Ordered
    <3>3. Bounded'
      BY <1>3, <2>1, <2>2, <2>4, <3>1 DEF Bounded, ToCome, Weigh
    <3> QED
      BY <1>1, <1>2, <1>3, <1>4, <3>2, <3>3, NothingReported DEF Reporting
  <2>5. CASE l.id \notin {1, 2}
    <3>1. UNCHANGED <<pc, step>> /\ Before' = Before
      BY <1>5, <2>5 DEF Answer, Id, Before
    <3>2. Ordered'
      BY <2>1, <2>2, <3>1 DEF Ordered
    <3>3. Bounded'
      BY <1>3, <2>1, <2>2, <2>5, <3>1 DEF Bounded, ToCome, Weigh
    <3> QED
      BY <1>1, <1>2, <1>3, <1>4, <3>2, <3>3, NothingReported DEF Reporting
  <2> QED
    BY <2>3, <2>4, <2>5
<1>6. CASE Error(l) \/ Notification(l)
  <2>1. /\ step' = step /\ pc' \in {"scan", "wait"} /\ Before' = Before
        /\ unanswered' \subseteq unanswered /\ strays' \in {strays, strays + 1}
    BY <1>6 DEF Error, Notification, SessionMessage, SessionFinished, Skip, Heard, Before
  <2>2. strays \in Nat /\ Len(sent) \in Nat /\ Before \in 0..2
    BY DEF TypeOK, Before
  <2>3. Ordered'
    BY <2>1, <2>2 DEF Ordered
  <2>4. Bounded'
    BY <1>3, <2>1, <2>2 DEF Bounded, ToCome, Weigh
  <2> QED
    BY <1>1, <1>2, <1>3, <1>4, <2>3, <2>4, NothingReported DEF Reporting
<1> QED
  BY <1>5, <1>6

LEMMA ScanKeeps == IInv /\ (ScanEnds \/ ScanFails) => IInv'
<1> SUFFICES ASSUME IInv, ScanEnds \/ ScanFails PROVE IInv'
  OBVIOUS
<1> USE DEF IInv, ScanEnds, ScanFails, scanLeaves, sessionVars, processVars
<1>1. TypeOK'
  BY TypeStep DEF Next
<1>2. SeenExplained'
  BY DEF SeenExplained, Wrong, TypeOK
<1>3. Progress' /\ Channels'
  BY DEF Progress, Channels, Reporting, TypeOK
<1>4. Ordered' /\ Bounded'
  BY HandshakeStays
<1>5. VerdictIsJustified'
  BY NothingReported DEF Reporting
<1> QED
  BY <1>1, <1>2, <1>3, <1>4, <1>5

LEMMA FinishKeeps == IInv /\ Finish => IInv'
<1> SUFFICES ASSUME IInv, Finish PROVE IInv'
  OBVIOUS
<1> USE DEF IInv, Finish, finishLeaves, sessionVars, processVars, stdinVars
<1>1. TypeOK'
  BY TypeStep DEF Next
<1>2. SeenExplained' /\ Ordered' /\ Bounded'
  <2>1. UNCHANGED <<seen, told, strays, step, sent, unanswered>> /\ pc' \in Reporting
    BY DEF WaitReturns, Report, CloseDone, CloseResult, CloseMessages, CancelOnReturn, Reporting
  <2> QED
    BY <2>1, HandshakeStays DEF SeenExplained, Wrong, Reporting
<1>3. Progress'
  BY DEF WaitReturns, Report, CloseDone, CloseResult, CloseMessages, CancelOnReturn, Progress,
    Reporting, TypeOK
<1>4. Channels' /\ VerdictIsJustified'
  <2>1. CASE WaitReturns
    BY <2>1, NothingReported DEF WaitReturns, Channels, Reporting
  <2>2. CASE Report
    <3> DEFINE r == [status |-> Verdict, session |-> ReportedId(Verdict), text |-> seen.text]
    <3>1. result = <<>> /\ result' = <<r>>
      BY <2>2 DEF Report, Channels, Reporting
    <3>2. Channels'
      BY <2>2, <3>1 DEF Report, Channels, Reporting
    <3>3. Justified(Verdict)
      <4>1. (exit = "error" => waitErr) /\ exit \in {"zero", "error"}
        BY <2>2 DEF Report, Progress, Reporting, TypeOK
      <4>2. seen.status \in {"completed", "failed"} /\ ctx \in {"live", "cancelled", "expired"}
        BY DEF TypeOK
      <4> QED
        BY <4>1, <4>2 DEF Verdict, Justified, SeenExplained
    <3>4. Justified(Verdict)' /\ Verdict' = Verdict
      BY <2>2, <3>3 DEF Report, Justified, Verdict, Wrong
    <3>5. result'[1].status = Verdict /\ DOMAIN result' = {1}
      BY <3>1
    <3> QED
      BY <3>2, <3>4, <3>5 DEF VerdictIsJustified
  <2>3. CASE CloseDone \/ CloseResult \/ CloseMessages \/ CancelOnReturn
    <3>1. Channels'
      BY <2>3 DEF CloseDone, CloseResult, CloseMessages, CancelOnReturn, Channels, Reporting
    <3>2. VerdictIsJustified'
      BY <2>3, VerdictStands DEF CloseDone, CloseResult, CloseMessages, CancelOnReturn, CancelContext
    <3> QED
      BY <3>1, <3>2
  <2> QED
    BY <2>1, <2>2, <2>3
<1> QED
  BY <1>1, <1>2, <1>3, <1>4

LEMMA SurroundingsKeep == IInv /\ (ContextEnds \/ ProcessStops \/ HelperLives \/ Killed) => IInv'
<1> SUFFICES ASSUME IInv, ContextEnds \/ ProcessStops \/ HelperLives \/ Killed PROVE IInv'
  OBVIOUS
<1> USE DEF IInv, ContextEnds, ProcessStops, HelperLives, Killed, processLeaves, sessionVars,
      processVars, stdinVars
<1>1. TypeOK'
  BY TypeStep DEF Next
<1>2. SeenExplained' /\ Ordered' /\ Bounded'
  BY HandshakeStays DEF SeenExplained, Wrong
<1>3. Progress' /\ Channels'
  BY DEF Progress, Channels, Reporting, TypeOK
<1>4. exit = "zero" => process = "exited"
  BY DEF Progress
<1>5. VerdictIsJustified'
  BY <1>4, VerdictStands
<1> QED
  BY <1>1, <1>2, <1>3, <1>5

LEMMA NextIInv == IInv /\ [Next]_vars => IInv'
<1> SUFFICES ASSUME IInv, [Next]_vars PROVE IInv'
  OBVIOUS
<1>1. CASE UNCHANGED vars
  <2> USE <1>1 DEF vars, sessionVars, processVars, stdinVars, IInv
  <2>1. TypeOK' /\ VerdictIsJustified'
    BY TypeStep, VerdictStands
  <2>2. SeenExplained' /\ Ordered' /\ Bounded'
    BY HandshakeStays DEF SeenExplained, Wrong
  <2>3. Progress' /\ Channels'
    BY DEF Progress, Channels
  <2> QED
    BY <2>1, <2>2, <2>3
<1>2. CASE Next /\ ~UNCHANGED vars
  BY <1>2, ExecuteKeeps, DriverKeeps, WatcherKeeps, ReadLineKeeps, ScanKeeps, FinishKeeps,
    SurroundingsKeep DEF Next, Terminated
<1> QED
  BY <1>1, <1>2

-----------------------------------------------------------------------------

LEMMA Invariant == Spec => []IInv
BY InitIInv, NextIInv, PTL DEF Spec

\* Every variable keeps its type, whatever the server writes.
THEOREM TypeCorrect == Spec => []TypeOK
<1>1. IInv => TypeOK
  BY DEF IInv
<1> QED
  BY <1>1, Invariant, PTL

\* processAcpEvents writes initialize, session/new or session/load, and session/prompt
\* once each and in this order, until the server sends a response that answers none of
\* them; each such response makes it write at most two requests more.
THEOREM HandshakeIsOrdered == Spec => []HandshakeInOrder
<1>1. IInv => HandshakeInOrder
  <2> SUFFICES ASSUME IInv PROVE HandshakeInOrder
    OBVIOUS
  <2>1. Before \in 0..2 /\ Len(sent) \in Nat /\ ToCome \in Nat /\ strays \in Nat
    BY DEF IInv, TypeOK, Before, ToCome, Weigh
  <2>2. DOMAIN sent = 1..Len(sent)
    BY DEF IInv, TypeOK
  <2>3. strays = 0 => Len(sent) <= 3 /\ \A n \in DOMAIN sent : sent[n].method = Handshake[n]
    BY <2>1 DEF IInv, Ordered
  <2>4. Len(sent) <= 3 + 2 * strays
    BY <2>1 DEF IInv, Bounded
  <2> QED
    BY <2>1, <2>2, <2>3, <2>4 DEF HandshakeInOrder
<1> QED
  BY <1>1, Invariant, PTL

\* Execute of the ACP adapter reports a turn as completed, failed, aborted or timed
\* out only for a reason.
THEOREM VerdictsAreJustified == Spec => []VerdictIsJustified
<1>1. IInv => VerdictIsJustified
  BY DEF IInv
<1> QED
  BY <1>1, Invariant, PTL

LEMMA SessionInit == Init => Session!Init
BY DEF Init, Session!Init

\* A step reports the one Result, closes one of the two channels, or touches neither.
LEMMA SessionStep == IInv /\ IInv' /\ [Next]_vars => [Session!Next]_(Session!vars)
<1> SUFFICES ASSUME IInv, IInv', [Next]_vars PROVE [Session!Next]_(Session!vars)
  OBVIOUS
<1>1. CASE Report
  <2>1. result = <<>> /\ resultOpen
    BY <1>1 DEF Report, IInv, Channels, Reporting
  <2>2. result' \in Seq(Results)
    BY DEF IInv, TypeOK
  <2>3. PICK r : result' = <<r>>
    BY <1>1, <2>1 DEF Report
  <2>4. r \in Results
    BY <2>2, <2>3
  <2> QED
    BY <1>1, <2>1, <2>3, <2>4 DEF Report, Session!Next, Session!Report
<1>2. CASE CloseResult
  BY <1>2 DEF CloseResult, Session!Next, Session!CloseResult, IInv, Channels, Reporting
<1>3. CASE CloseMessages
  BY <1>3 DEF CloseMessages, Session!Next, Session!CloseMessages, IInv, Channels
<1>4. CASE ~(Report \/ CloseResult \/ CloseMessages)
  <2>1. UNCHANGED sessionVars
    BY <1>4 DEF Next, Execute, WriteMcpConfig, StartProcess, StartFails, executeLeaves, DriverLocks,
      DriverWrites, WatcherWakes, WatcherLocks, WatcherWrites, writeLeaves, ReadLine, ScanEnds,
      ScanFails, scanLeaves, Finish, WaitReturns, CloseDone, CancelOnReturn, ContextEnds,
      ProcessStops, HelperLives, Killed, processLeaves, Terminated, vars, sessionVars
  <2> QED
    BY <2>1 DEF sessionVars, Session!vars
<1> QED
  BY <1>1, <1>2, <1>3, <1>4

\* The ACP adapter keeps the contract of adapter.Session: exactly one Result, then
\* the close of its channel, and one close of Messages.
THEOREM SessionContract == Spec => KeepsSessionContract
BY SessionInit, SessionStep, Invariant, PTL DEF Spec, KeepsSessionContract, Session!Spec
=============================================================================
