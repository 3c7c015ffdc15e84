-------------------------- MODULE StreamJsonProofs --------------------------
(* What a session of a line-oriented adapter reports is justified by what it *)
(* has read and by how the process ended, nothing is left behind, and the    *)
(* contract of adapter.Session is kept: for all six CLIs, however many lines *)
(* they write.                                                               *)
EXTENDS MCStreamJson, TLAPS

Seen == [status : {"completed", "failed"}, session : SessionIds, output : LineSets,
         usage : LineSets, async : BOOLEAN, events : BOOLEAN, raw : LineSets]

AllKinds == UNION {Kinds(c) : c \in Clis}

LEMMA KindsOf ==
  ASSUME NEW c \in Clis, NEW l \in Lines(c)
  PROVE  /\ l \in [kind : AllKinds, session : SessionIds]
         /\ l.kind \in Kinds(c)
         /\ l.kind = "async" => c = "claude"
         /\ l.kind = "error" => c \in {"gemini", "opencode", "openclaw"}
         /\ l.kind = "errorResult" => c \in {"claude", "qwen", "codebuddy"}
<1>1. l.kind \in Kinds(c) /\ l.kind \in AllKinds
  BY DEF Lines, AllKinds
<1>2. l \in [kind : AllKinds, session : SessionIds]
  BY DEF Lines, AllKinds
<1> QED
  BY <1>1, <1>2 DEF Kinds, Clis, ClaudeKinds, QwenKinds, CodebuddyKinds, GeminiKinds,
    OpencodeKinds, OpenclawKinds, ResultKinds

\* What a line does to the local variables of the scan: a failure it tells of is
\* kept, nothing else makes the run fail, and openclaw has something to report.
LEMMA LineHeard ==
  ASSUME NEW c \in Clis, NEW s \in Seen, NEW l \in Lines(c), NEW n \in 1..MaxLines
  PROVE  /\ Heard(c, s, l, n) \in Seen
         /\ Heard(c, s, l, n).status = IF l.kind \in ErrorKinds THEN "failed" ELSE s.status
         /\ Heard(c, s, l, n).async <=> s.async \/ l.kind = "async"
         /\ c = "openclaw" => Heard(c, s, l, n).events \/ Heard(c, s, l, n).raw # {}
<1> USE DEF Seen, LineSets, SessionIds, ErrorKinds, ResultKinds, WithSession, WithText,
      WithUsage, Failed
<1>0. l \in [kind : AllKinds, session : SessionIds]
  BY KindsOf
<1>1. ASSUME NEW t \in Seen
      PROVE  /\ TakeResult(t, l, n) \in Seen
             /\ TakeResult(t, l, n).status = IF l.kind = "errorResult" THEN "failed" ELSE t.status
             /\ TakeResult(t, l, n).async = t.async
  BY <1>0 DEF TakeResult, ResultUsage
<1>2. ASSUME NEW t \in Seen
      PROVE  /\ QwenLine(t, l, n) \in Seen
             /\ l.kind # "error" =>
                  QwenLine(t, l, n).status = IF l.kind \in ErrorKinds THEN "failed" ELSE t.status
             /\ QwenLine(t, l, n).async = t.async
  <2>1. WithSession(t, l) \in Seen /\ WithSession(t, l).status = t.status
        /\ WithSession(t, l).async = t.async
    BY <1>0
  <2>2. CASE l.kind = "text"
    BY <2>1, <2>2 DEF QwenLine
  <2>3. CASE l.kind \in ResultKinds
    <3>1. QwenLine(t, l, n) = TakeResult(WithSession(t, l), l, n)
      BY <2>3 DEF QwenLine
    <3> QED
      BY <3>1, <2>1, <1>1, <2>3
  <2>4. CASE l.kind # "text" /\ l.kind \notin ResultKinds
    <3>1. QwenLine(t, l, n) = WithSession(t, l)
      BY <2>4 DEF QwenLine
    <3> QED
      BY <3>1, <2>1, <2>4
  <2> QED
    BY <2>2, <2>3, <2>4
<1>3. ASSUME NEW t \in Seen
      PROVE  /\ OpencodeLine(t, l, n) \in Seen
             /\ l.kind # "errorResult" =>
                  OpencodeLine(t, l, n).status = IF l.kind \in ErrorKinds THEN "failed" ELSE t.status
             /\ OpencodeLine(t, l, n).async = t.async
  BY <1>0 DEF OpencodeLine
<1>4. CASE c = "claude"
  <2>1. CASE l.kind \in ResultKinds
    BY <2>1, <1>1, <1>4, KindsOf DEF Heard, ClaudeLine
  <2>2. CASE l.kind \notin ResultKinds
    BY <2>2, <1>0, <1>4, KindsOf DEF Heard, ClaudeLine, WithAsyncLaunch
  <2> QED
    BY <2>1, <2>2
<1>5. CASE c \in {"qwen", "codebuddy"}
  BY <1>5, <1>2, KindsOf DEF Heard, CodebuddyLine
<1>6. CASE c \in {"gemini", "opencode"}
  BY <1>6, <1>3, KindsOf DEF Heard, GeminiLine
<1>7. CASE c = "openclaw"
  <2>1. l.kind # "errorResult" /\ l.kind # "async"
    BY <1>7, KindsOf
  <2>2. Heard(c, s, l, n) = OpenclawLine(s, l, n)
    BY <1>7 DEF Heard
  <2>3. CASE l.kind = "noise"
    BY <2>2, <2>3 DEF OpenclawLine
  <2>4. ASSUME NEW t \in Seen, Heard(c, s, l, n) = [t EXCEPT !.events = TRUE],
               t.status = (IF l.kind \in ErrorKinds THEN "failed" ELSE s.status),
               t.async = s.async
        PROVE  /\ Heard(c, s, l, n) \in Seen
               /\ Heard(c, s, l, n).status = t.status
               /\ Heard(c, s, l, n).async = s.async
               /\ Heard(c, s, l, n).events
    BY <2>4
  <2>5. CASE l.kind = "result"
    <3>1. /\ OpenclawBlob(s, l, n) \in Seen
          /\ OpenclawBlob(s, l, n).status = s.status
          /\ OpenclawBlob(s, l, n).async = s.async
      BY <1>0 DEF OpenclawBlob
    <3>2. Heard(c, s, l, n) = [OpenclawBlob(s, l, n) EXCEPT !.events = TRUE]
      BY <2>2, <2>5 DEF OpenclawLine
    <3> QED
      BY <3>1, <3>2, <2>1, <2>4, <2>5
  <2>6. CASE l.kind \notin {"noise", "result"}
    <3>1. Heard(c, s, l, n) = [OpencodeLine(s, l, n) EXCEPT !.events = TRUE]
      BY <2>2, <2>6 DEF OpenclawLine
    <3> QED
      BY <3>1, <2>1, <1>3, <2>4
  <2> QED
    BY <2>3, <2>5, <2>6
<1> QED
  BY <1>4, <1>5, <1>6, <1>7 DEF Clis

-----------------------------------------------------------------------------
(* The inductive invariant *)

Scanning == {"scan", "control"}
Reporting == {"report", "closeResult", "closeMessages", "cancel", "done"}

\* TypeOK, and that the lines heard are lines of this CLI.
TypeInv == TypeOK /\ seen \in Seen /\ heard \in Seq(Lines(cli))

ErrorHeard == \E kind \in HeardKinds : kind \in ErrorKinds

\* What seen remembers of the lines and of the end of the scan.
SeenExplained ==
  /\ seen.async <=> "async" \in HeardKinds
  /\ ErrorHeard => seen.status = "failed"
  /\ ended = "error" /\ Traits(cli).scanErr => seen.status = "failed"
  /\ cli = "openclaw" /\ ended # "no" /\ heard = <<>> => seen.status = "failed"
  /\ ended = "no" /\ heard = <<>> => ~seen.events /\ seen.raw = {}
  /\ cli = "openclaw" /\ ended = "no" /\ heard # <<>> => seen.events \/ seen.raw # {}
  /\ seen.status = "failed" =>
       \/ ErrorHeard
       \/ ended = "error" /\ Traits(cli).scanErr
       \/ cli = "openclaw" /\ ended # "no" /\ heard = <<>>

\* Where the reading goroutine is and what it has done so far.
Progress ==
  /\ pc \in {"prepare", "start", "refused"} \cup Scanning => ended = "no"
  /\ pc \in {"wait"} \cup Reporting => ended # "no"
  /\ pc \in {"prepare", "start", "refused"} =>
       heard = <<>> /\ process = "none" /\ writer # "writing"
  /\ pc \in Reporting => process = "exited" /\ stdin = "closed" /\ stdout = "closed"
  /\ pc \in Reporting \ {"report"} => writer # "writing"
  /\ process = "exited" <=> exit # "none"
  /\ pc \in Reporting /\ exit = "error" => waitErr
  /\ pc = "start" => mcp # "requested"
  /\ pc \in {"refused", "closeMessages", "cancel", "done"} => mcp # "temp"
  /\ pc \in {"refused", "done"} => ctx # "live"

\* Which of the three calls on the channels have been made.
Channels ==
  /\ result = <<>> <=> pc \notin {"closeResult", "closeMessages", "cancel", "done"}
  /\ resultOpen <=> pc \notin {"closeMessages", "cancel", "done"}
  /\ messages = "open" <=> pc \notin {"cancel", "done"}
  /\ Len(result) <= 1

IInv == TypeInv /\ SeenExplained /\ Progress /\ Channels /\ VerdictIsJustified

LEMMA InitIInv == Init => IInv
<1> SUFFICES ASSUME Init PROVE IInv
  OBVIOUS
<1>1. TypeInv
  <2>1. seen \in Seen
    BY DEF Init, Seen, Nothing, LineSets, SessionIds
  <2>2. heard \in Seq(Lines(cli)) /\ heard \in Seq([kind : AllKinds, session : SessionIds])
        /\ Len(heard) <= MaxLines /\ result \in Seq(Results)
    BY StreamAssumption DEF Init
  <2> QED
    BY <2>1, <2>2 DEF Init, TypeInv, TypeOK, Seen, AllKinds
<1>2. SeenExplained
  <2>1. DOMAIN heard = {}
    BY DEF Init
  <2>2. HeardKinds = {}
    BY <2>1 DEF HeardKinds
  <2> QED
    BY <2>2 DEF Init, SeenExplained, ErrorHeard, Nothing
<1>3. Progress /\ Channels /\ VerdictIsJustified
  BY DEF Init, Progress, Channels, VerdictIsJustified, Scanning, Reporting
<1> QED
  BY <1>1, <1>2, <1>3 DEF IInv

LEMMA KindHeard ==
  ASSUME TypeInv, NEW l \in Lines(cli), heard' = Append(heard, l)
  PROVE  HeardKinds' = HeardKinds \cup {l.kind}
<1>1. DOMAIN heard' = DOMAIN heard \cup {Len(heard) + 1}
  BY DEF TypeInv
<1>2. heard'[Len(heard) + 1] = l /\ \A n \in DOMAIN heard : heard'[n] = heard[n]
  BY DEF TypeInv
<1> QED
  BY <1>1, <1>2 DEF HeardKinds

\* A Result once reported stays justified: nothing it rests on is taken back.
LEMMA VerdictStands ==
  ASSUME VerdictIsJustified, UNCHANGED <<cli, result, ended, heard>>,
         exit = "zero" => exit' = "zero", waitErr => waitErr',
         writer = "failed" => writer' = "failed", ctx # "live" => ctx' = ctx,
         TypeOK
  PROVE  VerdictIsJustified'
<1>1. (Told' <=> Told) /\ (Broken' <=> Broken) /\ (Silent' <=> Silent)
  BY DEF Told, Broken, Silent, HeardKinds
<1>2. ASSUME NEW status \in Statuses, Justified(status) PROVE Justified(status)'
  <2>1. CASE status = "completed"
    BY <1>1, <1>2, <2>1 DEF Justified
  <2>2. CASE status = "failed"
    BY <1>1, <1>2, <2>2 DEF Justified
  <2>3. CASE status \in {"aborted", "timeout"}
    BY <1>2, <2>3 DEF Justified
  <2> QED
    BY <2>1, <2>2, <2>3 DEF Statuses
<1>3. \A i \in DOMAIN result : result[i].status \in Statuses
  <2>1. result \in Seq(Results)
    BY DEF TypeOK
  <2>2. \A i \in DOMAIN result : result[i] \in Results
    BY <2>1
  <2> QED
    BY <2>2 DEF Results
<1> QED
  BY <1>2, <1>3 DEF VerdictIsJustified

LEMMA NothingReported ==
  ASSUME Channels, pc \notin {"closeResult", "closeMessages", "cancel", "done"}, UNCHANGED result
  PROVE  VerdictIsJustified'
BY DEF Channels, VerdictIsJustified

LEMMA SeenStays ==
  ASSUME IInv, UNCHANGED <<cli, seen, ended, heard>>
  PROVE  SeenExplained'
BY DEF IInv, SeenExplained, ErrorHeard, HeardKinds

LEMMA ExecuteKeeps == IInv /\ Execute => IInv'
<1> SUFFICES ASSUME IInv, Execute PROVE IInv'
  OBVIOUS
<1> USE DEF IInv, startLeaves, sessionVars
<1>1. TypeInv'
  BY DEF TypeInv, TypeOK, Execute, WriteMcpConfig, StartProcess, StartFails, CancelContext
<1>2. SeenExplained'
  BY SeenStays DEF Execute, WriteMcpConfig, StartProcess, StartFails
<1>3. Progress' /\ Channels'
  BY DEF Progress, Channels, Scanning, Reporting, Execute, WriteMcpConfig, StartProcess,
    StartFails, CancelContext, TypeInv, TypeOK
<1>4. VerdictIsJustified'
  BY NothingReported DEF Execute, WriteMcpConfig, StartProcess, StartFails
<1> QED
  BY <1>1, <1>2, <1>3, <1>4

LEMMA WriterKeeps == IInv /\ (WritePrompt \/ WriteFails \/ AnswerControl \/ ControlFails) => IInv'
<1> SUFFICES ASSUME IInv, WritePrompt \/ WriteFails \/ AnswerControl \/ ControlFails PROVE IInv'
  OBVIOUS
<1> USE DEF IInv, WritePrompt, WriteFails, AnswerControl, ControlFails, writerLeaves,
      controlLeaves, sessionVars, processVars, pipeVars
<1>1. TypeInv'
  BY DEF TypeInv, TypeOK
<1>2. SeenExplained'
  BY SeenStays
<1>3. Progress' /\ Channels'
  BY DEF Progress, Channels, Scanning, Reporting, TypeInv, TypeOK
<1>4. VerdictIsJustified'
  BY VerdictStands DEF TypeInv
<1> QED
  BY <1>1, <1>2, <1>3, <1>4

LEMMA ReadLineKeeps == ASSUME IInv, NEW l \in Lines(cli), ReadLine(l) PROVE IInv'
<1> USE DEF IInv, ReadLine, readLeaves, sessionVars, processVars
<1> DEFINE n == Len(heard) + 1
<1>0. cli \in Clis /\ n \in 1..MaxLines /\ seen \in Seen
  BY StreamAssumption DEF TypeInv, TypeOK
<1>1. /\ seen' \in Seen
      /\ seen'.status = IF l.kind \in ErrorKinds THEN "failed" ELSE seen.status
      /\ seen'.async <=> seen.async \/ l.kind = "async"
      /\ cli = "openclaw" => seen'.events \/ seen'.raw # {}
  BY <1>0, LineHeard
<1>2. TypeInv'
  <2>1. heard' \in Seq(Lines(cli)) /\ heard' \in Seq([kind : AllKinds, session : SessionIds])
        /\ Len(heard') <= MaxLines
    BY <1>0, KindsOf, StreamAssumption DEF TypeInv, TypeOK, AllKinds
  <2> QED
    BY <1>1, <2>1 DEF TypeInv, TypeOK, AllKinds, Seen
<1>3. SeenExplained'
  <2>1. HeardKinds' = HeardKinds \cup {l.kind}
    BY KindHeard
  <2>2. heard' # <<>>
    BY <1>0 DEF TypeInv
  <2>3. ended = "no" /\ ended' = "no"
    BY DEF Progress, Scanning
  <2> QED
    <3>1. seen'.async <=> "async" \in HeardKinds'
      BY <1>1, <2>1 DEF SeenExplained
    <3>2. ErrorHeard' <=> ErrorHeard \/ l.kind \in ErrorKinds
      BY <2>1 DEF ErrorHeard
    <3> QED
      BY <1>1, <2>2, <2>3, <3>1, <3>2 DEF SeenExplained
<1>4. Progress' /\ Channels'
  BY DEF Progress, Channels, Scanning, Reporting, TypeInv, TypeOK
<1>5. VerdictIsJustified'
  BY NothingReported
<1> QED
  BY <1>2, <1>3, <1>4, <1>5

LEMMA ScanKeeps == IInv /\ (ScanEnds \/ ScanFails) => IInv'
<1> SUFFICES ASSUME IInv, ScanEnds \/ ScanFails PROVE IInv'
  OBVIOUS
<1> USE DEF IInv, readLeaves, sessionVars, processVars
<1>0. ended = "no"
  BY DEF Progress, Scanning, ScanEnds, ScanFails
<1>1. seen' \in Seen
  BY DEF ScanEnds, ScanFails, AtEnd, AtError, OpenclawEnd, Failed, Nothing, Seen, TypeInv,
    LineSets, SessionIds
<1>2. TypeInv'
  BY <1>1 DEF ScanEnds, ScanFails, TypeInv, TypeOK, Seen
<1>3. SeenExplained'
  <2>1. HeardKinds' = HeardKinds
    BY DEF ScanEnds, ScanFails, HeardKinds
  <2>2. "async" \in HeardKinds => cli = "claude"
    BY KindsOf DEF HeardKinds, TypeInv, TypeOK
  <2>3. CASE ScanEnds
    <3>1. seen'.async <=> seen.async
      BY <2>3 DEF ScanEnds, AtEnd, OpenclawEnd, Failed, Seen, TypeInv
    <3>2. seen' = seen \/ (cli = "openclaw" /\ heard = <<>> /\ seen'.status = "failed")
          \/ (cli = "openclaw" /\ heard # <<>> /\ seen'.status = seen.status)
      BY <1>0, <2>3 DEF ScanEnds, AtEnd, OpenclawEnd, Failed, Seen, TypeInv, SeenExplained
    <3>3. cli = "openclaw" /\ heard = <<>> => seen'.status = "failed"
      BY <2>3 DEF ScanEnds, AtEnd, OpenclawEnd, Failed, Seen, TypeInv, SeenExplained
    <3> QED
      BY <1>0, <1>1, <2>1, <2>3, <3>1, <3>2, <3>3 DEF ErrorHeard, ScanEnds, SeenExplained
  <2>4. CASE ScanFails /\ cli = "openclaw"
    BY <1>0, <1>1, <2>1, <2>2, <2>4 DEF ErrorHeard, ScanFails, AtError, Failed, Nothing, SeenExplained, Traits,
      Openclaw, TypeInv
  <2>5. CASE ScanFails /\ cli # "openclaw"
    BY <1>0, <1>1, <2>1, <2>5 DEF ErrorHeard, ScanFails, AtError, Failed, SeenExplained, Seen, TypeInv
  <2> QED
    BY <2>3, <2>4, <2>5
<1>4. Progress' /\ Channels'
  BY DEF ScanEnds, ScanFails, Progress, Channels, Scanning, Reporting, TypeInv, TypeOK
<1>5. VerdictIsJustified'
  BY NothingReported DEF ScanEnds, ScanFails
<1> QED
  BY <1>2, <1>3, <1>4, <1>5

LEMMA FinishKeeps == IInv /\ Finish => IInv'
<1> SUFFICES ASSUME IInv, Finish PROVE IInv'
  OBVIOUS
<1> USE DEF IInv, finishLeaves, sessionVars, processVars, pipeVars
<1>1. CASE WaitReturns
  <2>0. waitErr' \in BOOLEAN
    BY <1>1, Zenon DEF WaitReturns
  <2>1. TypeInv' /\ Channels'
    BY <1>1, <2>0 DEF WaitReturns, TypeInv, TypeOK, Channels
  <2>2. SeenExplained'
    BY <1>1, SeenStays DEF WaitReturns
  <2>3. Progress'
    BY <1>1 DEF WaitReturns, TypeInv, TypeOK, Progress, Scanning, Reporting
  <2>4. VerdictIsJustified'
    BY <1>1, NothingReported DEF WaitReturns
  <2> QED
    BY <2>1, <2>2, <2>3, <2>4
<1>2. CASE Report
  <2> DEFINE r == [status |-> Verdict, session |-> ReportedId(Verdict),
                   output |-> seen.output, usage |-> seen.usage]
  <2>1. r \in Results
    BY DEF Verdict, ReportedId, Results, Statuses, SessionIds, TypeInv, TypeOK, Seen
  <2>2. result = <<>> /\ result' = <<r>>
    BY <1>2 DEF Report, Channels
  <2>3. result' \in Seq(Results)
    BY <2>1, <2>2
  <2>4. TypeInv' /\ Progress' /\ Channels'
    BY <1>2, <2>2, <2>3 DEF Report, TypeInv, TypeOK, Progress, Channels, Scanning, Reporting
  <2>5. SeenExplained'
    BY <1>2, SeenStays DEF Report
  <2>6. Justified(Verdict)
    <3>1. ended # "no" /\ (exit = "error" => waitErr) /\ exit \in {"zero", "error"}
      BY <1>2 DEF Report, Progress, Reporting, TypeInv, TypeOK
    <3>2. Told <=> ErrorHeard \/ seen.async
      BY DEF Told, ErrorHeard, SeenExplained
    <3>3. seen.status = "failed" <=> ErrorHeard \/ Broken \/ Silent
      BY <3>1 DEF SeenExplained, Broken, Silent
    <3>4. seen.status \in {"completed", "failed"} /\ ctx \in {"live", "cancelled", "expired"}
      BY DEF TypeInv, Seen, TypeOK
    <3> QED
      BY <3>1, <3>2, <3>3, <3>4 DEF Verdict, Justified
  <2>7. Justified(Verdict)'
    BY <1>2, <2>6 DEF Report, Justified, Verdict, Told, Broken, Silent, HeardKinds
  <2>8. result'[1].status = Verdict /\ DOMAIN result' = {1} /\ Verdict' = Verdict
    BY <1>2, <2>2 DEF Report, Verdict
  <2>9. VerdictIsJustified'
    BY <2>7, <2>8 DEF VerdictIsJustified
  <2> QED
    BY <2>4, <2>5, <2>9
<1>3. CASE CloseResult \/ CloseMessages \/ CancelOnReturn
  <2>1. TypeInv'
    BY <1>3 DEF CloseResult, CloseMessages, CancelOnReturn, CancelContext, TypeInv, TypeOK
  <2>2. Progress'
    BY <1>3 DEF CloseResult, CloseMessages, CancelOnReturn, CancelContext, TypeInv, TypeOK,
      Progress, Scanning, Reporting
  <2>3. Channels'
    BY <1>3 DEF CloseResult, CloseMessages, CancelOnReturn, Channels
  <2>4. SeenExplained'
    BY <1>3, SeenStays DEF CloseResult, CloseMessages, CancelOnReturn
  <2>5. VerdictIsJustified'
    BY <1>3, VerdictStands DEF CloseResult, CloseMessages, CancelOnReturn, CancelContext, TypeInv
  <2> QED
    BY <2>1, <2>2, <2>3, <2>4, <2>5
<1> QED
  BY <1>1, <1>2, <1>3 DEF Finish

LEMMA SurroundingsKeep ==
  IInv /\ (CloseOnDone \/ ContextEnds \/ ProcessStops \/ HelperLives \/ Killed) => IInv'
<1> SUFFICES ASSUME IInv, CloseOnDone \/ ContextEnds \/ ProcessStops \/ HelperLives \/ Killed
             PROVE  IInv'
  OBVIOUS
<1> USE DEF IInv, processLeaves, sessionVars, processVars, pipeVars
<1>1. TypeInv' /\ Progress' /\ Channels'
  BY DEF CloseOnDone, ContextEnds, ProcessStops, HelperLives, Killed, InSession, TypeInv, TypeOK,
    Progress, Channels, Scanning, Reporting
<1>2. SeenExplained'
  BY SeenStays DEF CloseOnDone, ContextEnds, ProcessStops, HelperLives, Killed
<1>3. exit = "zero" => process = "exited"
  BY DEF Progress
<1>4. VerdictIsJustified'
  BY <1>3, VerdictStands DEF CloseOnDone, ContextEnds, ProcessStops, HelperLives, Killed, TypeInv
<1> QED
  BY <1>1, <1>2, <1>4

LEMMA NextIInv == IInv /\ [Next]_vars => IInv'
<1> SUFFICES ASSUME IInv, [Next]_vars PROVE IInv'
  OBVIOUS
<1>1. CASE UNCHANGED vars
  <2>1. TypeInv' /\ Progress' /\ Channels'
    BY <1>1 DEF vars, sessionVars, pipeVars, processVars, IInv, TypeInv, TypeOK, Progress, Channels
  <2>2. SeenExplained' /\ VerdictIsJustified'
    BY <1>1, SeenStays, VerdictStands DEF vars, sessionVars, pipeVars, processVars, IInv, TypeInv
  <2> QED
    BY <2>1, <2>2 DEF IInv
<1>2. CASE Next /\ ~UNCHANGED vars
  BY <1>2, ExecuteKeeps, WriterKeeps, ReadLineKeeps, ScanKeeps, FinishKeeps, SurroundingsKeep
    DEF Next, Terminated
<1> QED
  BY <1>1, <1>2

-----------------------------------------------------------------------------

LEMMA Invariant == Spec => []IInv
BY InitIInv, NextIInv, PTL DEF Spec

\* Every variable keeps its type, whatever the six CLIs write.
THEOREM TypeCorrect == Spec => []TypeOK
<1>1. IInv => TypeOK
  BY DEF IInv, TypeInv
<1> QED
  BY <1>1, Invariant, PTL

\* Execute of each of the six adapters reports a run as completed, failed, aborted or
\* timed out only for a reason.
THEOREM VerdictsAreJustified == Spec => []VerdictIsJustified
<1>1. IInv => VerdictIsJustified
  BY DEF IInv
<1> QED
  BY <1>1, Invariant, PTL

\* On every path through Execute and its goroutine the temp file, the context, the
\* process and the pipes are released.
THEOREM NothingIsLeaked == Spec => []NothingLeaks
<1>1. IInv => NothingLeaks
  BY DEF IInv, Progress, Channels, NothingLeaks, Reporting
<1> QED
  BY <1>1, Invariant, PTL

-----------------------------------------------------------------------------
(* The report and the stream: what the scan took from each line *)

Texts     == {"text", "result", "errorResult"}
Tokens(c) == IF c \in {"gemini", "opencode", "openclaw"} THEN {"usage", "result"} ELSE Texts

\* What a line of that kind adds to the lines taken, and whether it replaces them.
Taken(lines, kinds, replaced, kind, n) ==
  (IF replaced /\ kind \in {"result", "errorResult"} THEN {} ELSE lines)
    \cup (IF kind \in kinds THEN {n} ELSE {})

NoiseOnly == cli = "openclaw" /\ HeardKinds = {"noise"}

\* Output and usage are the lines ReportFollowsStream speaks of as long as the scan
\* goes on, and of openclaw the log lines are kept apart; after it they are what will
\* be reported, unless the run has failed.
StreamFollowed ==
  /\ ended = "no" =>
       /\ seen.output = Expected(Texts, cli # "openclaw")
       /\ seen.usage = Expected(Tokens(cli), TRUE)
       /\ cli = "openclaw" =>
            /\ seen.raw = Expected({"noise"}, FALSE)
            /\ seen.events <=> \E kind \in HeardKinds : kind # "noise"
  /\ ended # "no" /\ seen.status = "completed" =>
       IF NoiseOnly THEN seen.output = DOMAIN heard
       ELSE /\ seen.output = Expected(Texts, cli # "openclaw")
            /\ seen.usage = Expected(Tokens(cli), TRUE)

\* What a line adds to the output and to the usage, and what openclaw makes of its
\* log lines.
LEMMA LineTaken ==
  ASSUME NEW c \in Clis, NEW s \in Seen, NEW l \in Lines(c), NEW n \in 1..MaxLines
  PROVE  /\ Heard(c, s, l, n).output = Taken(s.output, Texts, c # "openclaw", l.kind, n)
         /\ Heard(c, s, l, n).usage = Taken(s.usage, Tokens(c), TRUE, l.kind, n)
         /\ c = "openclaw" =>
              /\ Heard(c, s, l, n).raw = Taken(s.raw, {"noise"}, FALSE, l.kind, n)
              /\ Heard(c, s, l, n).events <=> s.events \/ l.kind # "noise"
<1> USE DEF Seen, Texts, Tokens, Taken
<1>0. l \in [kind : AllKinds, session : SessionIds] /\ l.kind \in Kinds(c)
  BY KindsOf
<1>1. ASSUME NEW t \in Seen
      PROVE  /\ WithSession(t, l) \in Seen
             /\ WithSession(t, l).output = t.output /\ WithSession(t, l).usage = t.usage
             /\ WithSession(t, l).raw = t.raw /\ WithSession(t, l).events = t.events
  BY <1>0 DEF WithSession
<1>2. ASSUME NEW t \in Seen, l.kind \in ResultKinds
      PROVE  /\ TakeResult(t, l, n).output = Taken(t.output, Texts, TRUE, l.kind, n)
             /\ TakeResult(t, l, n).usage = Taken(t.usage, Texts, TRUE, l.kind, n)
  BY <1>0, <1>2 DEF TakeResult, ResultUsage, ResultKinds
<1>3. ASSUME NEW t \in Seen, l.kind = "text"
      PROVE  /\ WithUsage(WithText(t, n), n).output = Taken(t.output, Texts, TRUE, l.kind, n)
             /\ WithUsage(WithText(t, n), n).usage = Taken(t.usage, Texts, TRUE, l.kind, n)
  BY <1>3 DEF WithUsage, WithText
<1>4. CASE c = "claude"
  <2>1. Heard(c, s, l, n) = ClaudeLine(s, l, n)
    BY <1>4 DEF Heard
  <2>2. CASE l.kind = "text"
    <3>1. Heard(c, s, l, n) = WithUsage(WithText(s, n), n)
      BY <2>1, <2>2 DEF ClaudeLine, ResultKinds
    <3> QED
      BY <3>1, <2>2, <1>3, <1>4
  <2>3. CASE l.kind \in ResultKinds
    <3>1. Heard(c, s, l, n) = TakeResult(s, l, n)
      BY <2>1, <2>3 DEF ClaudeLine, ResultKinds
    <3> QED
      BY <3>1, <2>3, <1>2, <1>4
  <2>4. CASE l.kind # "text" /\ l.kind \notin ResultKinds
    BY <2>1, <2>4, <1>1, <1>4 DEF ClaudeLine, WithAsyncLaunch, ResultKinds
  <2> QED
    BY <2>2, <2>3, <2>4
<1>5. CASE c \in {"qwen", "codebuddy"}
  <2> DEFINE t == WithSession(s, l)
  <2>0. t \in Seen /\ t.output = s.output /\ t.usage = s.usage
    BY <1>1
  <2>1. Heard(c, s, l, n) = QwenLine(s, l, n)
    BY <1>5 DEF Heard, CodebuddyLine
  <2>2. CASE l.kind = "text"
    <3>1. Heard(c, s, l, n) = WithUsage(WithText(t, n), n)
      BY <2>1, <2>2 DEF QwenLine, ResultKinds
    <3> QED
      BY <3>1, <2>0, <2>2, <1>3, <1>5
  <2>3. CASE l.kind \in ResultKinds
    <3>1. Heard(c, s, l, n) = TakeResult(t, l, n)
      BY <2>1, <2>3 DEF QwenLine, ResultKinds
    <3> QED
      BY <3>1, <2>0, <2>3, <1>2, <1>5
  <2>4. CASE l.kind # "text" /\ l.kind \notin ResultKinds
    <3>1. Heard(c, s, l, n) = t
      BY <2>1, <2>4 DEF QwenLine
    <3> QED
      BY <3>1, <2>0, <2>4, <1>5 DEF ResultKinds
  <2> QED
    BY <2>2, <2>3, <2>4
<1>6. ASSUME c \in {"gemini", "opencode", "openclaw"}, l.kind # "result"
      PROVE  /\ OpencodeLine(s, l, n).output = Taken(s.output, Texts, TRUE, l.kind, n)
             /\ OpencodeLine(s, l, n).usage = Taken(s.usage, Tokens(c), TRUE, l.kind, n)
             /\ OpencodeLine(s, l, n).raw = s.raw /\ OpencodeLine(s, l, n) \in Seen
  <2> DEFINE t == WithSession(s, l)
  <2>0. t \in Seen /\ t.output = s.output /\ t.usage = s.usage /\ t.raw = s.raw
    BY <1>1
  <2>1. l.kind \in {"text", "usage", "status", "error", "noise"}
    BY <1>0, <1>6 DEF Kinds, GeminiKinds, OpencodeKinds, OpenclawKinds
  <2>2. OpencodeLine(s, l, n) = CASE l.kind = "text"  -> WithText(t, n)
                                  [] l.kind = "usage" -> WithUsage(t, n)
                                  [] l.kind = "error" -> Failed(t)
                                  [] OTHER -> t
    BY DEF OpencodeLine
  <2> HIDE DEF t
  <2> QED
    BY <2>0, <2>1, <2>2, <1>6 DEF WithText, WithUsage, Failed, LineSets
<1>7. CASE c \in {"gemini", "opencode"}
  <2>1. Heard(c, s, l, n) = OpencodeLine(s, l, n) /\ l.kind # "result"
    BY <1>7, <1>0 DEF Heard, GeminiLine, Kinds, GeminiKinds, OpencodeKinds
  <2> QED
    BY <2>1, <1>6, <1>7
<1>8. CASE c = "openclaw"
  <2>1. Heard(c, s, l, n) = OpenclawLine(s, l, n)
    BY <1>8 DEF Heard
  <2>2. l.kind \in {"text", "usage", "status", "error", "result", "noise"}
    BY <1>8, <1>0 DEF Kinds, OpenclawKinds
  <2>3. CASE l.kind = "noise"
    BY <2>1, <2>3, <1>8 DEF OpenclawLine
  <2>4. ASSUME NEW t \in Seen, Heard(c, s, l, n) = [t EXCEPT !.events = TRUE]
        PROVE  /\ Heard(c, s, l, n).output = t.output /\ Heard(c, s, l, n).usage = t.usage
               /\ Heard(c, s, l, n).raw = t.raw /\ Heard(c, s, l, n).events
    BY <2>4
  <2>5. CASE l.kind = "result"
    <3> DEFINE t == WithSession(s, l)
    <3>1. t \in Seen /\ t.output = s.output /\ t.usage = s.usage /\ t.raw = s.raw
      BY <1>1
    <3>2. OpenclawBlob(s, l, n) = [WithText(t, n) EXCEPT !.usage = {n}]
      BY DEF OpenclawBlob
    <3> HIDE DEF t
    <3>3. /\ OpenclawBlob(s, l, n) \in Seen
          /\ OpenclawBlob(s, l, n).output = s.output \cup {n}
          /\ OpenclawBlob(s, l, n).usage = {n}
          /\ OpenclawBlob(s, l, n).raw = s.raw
      <4>1. /\ WithText(t, n) \in Seen /\ WithText(t, n).output = s.output \cup {n}
            /\ WithText(t, n).raw = s.raw
        BY <3>1 DEF WithText, LineSets
      <4> QED
        BY <4>1, <3>2 DEF LineSets
    <3>4. Heard(c, s, l, n) = [OpenclawBlob(s, l, n) EXCEPT !.events = TRUE]
      BY <2>1, <2>5 DEF OpenclawLine
    <3> QED
      BY <3>3, <3>4, <2>4, <2>5, <1>8
  <2>6. CASE l.kind \notin {"noise", "result"}
    <3>1. Heard(c, s, l, n) = [OpencodeLine(s, l, n) EXCEPT !.events = TRUE]
      BY <2>1, <2>6 DEF OpenclawLine
    <3> QED
      BY <3>1, <2>2, <2>4, <2>6, <1>6, <1>8
  <2> QED
    BY <2>3, <2>5, <2>6
<1> QED
  BY <1>4, <1>5, <1>7, <1>8 DEF Clis

\* The lines a report should follow, after one more line.
LEMMA ExpectedGrows ==
  ASSUME heard \in Seq(Lines(cli)), NEW l \in Lines(cli), heard' = Append(heard, l),
         NEW CONSTANT kinds, NEW CONSTANT replaced \in BOOLEAN
  PROVE  Expected(kinds, replaced)'
           = Taken(Expected(kinds, replaced), kinds, replaced, l.kind, Len(heard) + 1)
<1>0. PICK n : n = Len(heard) + 1
  OBVIOUS
<1>1. DOMAIN heard = 1..Len(heard) /\ DOMAIN heard' = 1..n /\ Len(heard') = n /\ Len(heard) \in Nat
  BY <1>0
<1>2. heard'[n] = l /\ \A m \in DOMAIN heard : heard'[m] = heard[m]
  BY <1>0
<1>3. Authoritative(n)'
  BY <1>0, <1>1 DEF Authoritative
<1>4. ASSUME NEW CONSTANT m \in Nat, m \in DOMAIN heard
      PROVE  Authoritative(m)' <=> Authoritative(m) /\ l.kind \notin {"result", "errorResult"}
  <2>1. m + 1..Len(heard') = (m + 1..Len(heard)) \cup {n}
    BY <1>0, <1>1, <1>4
  <2>2. \A k \in m + 1..Len(heard) : heard'[k] = heard[k]
    BY <1>1, <1>2, <1>4
  <2> QED
    BY <2>1, <2>2, <1>2 DEF Authoritative
<1>5. ASSUME NEW CONSTANT m
      PROVE  m \in Expected(kinds, replaced)'
               <=> m \in Taken(Expected(kinds, replaced), kinds, replaced, l.kind, n)
  <2>1. CASE m = n
    <3>1. n \in DOMAIN heard' /\ n \notin DOMAIN heard
      BY <1>0, <1>1
    <3>2. n \in Expected(kinds, replaced)' <=> l.kind \in kinds
      <4>1. heard'[n].kind = l.kind
        BY <1>2
      <4> QED
        BY <3>1, <4>1, <1>3 DEF Expected
    <3>3. n \notin Expected(kinds, replaced)
      BY <3>1 DEF Expected
    <3> QED
      BY <2>1, <3>2, <3>3 DEF Taken
  <2>2. CASE m \in DOMAIN heard
    <3>1. m # n /\ m \in DOMAIN heard' /\ heard'[m] = heard[m] /\ m \in Nat
      BY <2>2, <1>0, <1>1, <1>2
    <3>2. m \in Expected(kinds, replaced)'
            <=> heard[m].kind \in kinds /\ (replaced => Authoritative(m)')
      BY <3>1 DEF Expected
    <3> QED
      BY <3>1, <3>2, <2>2, <1>4 DEF Expected, Taken
  <2>3. CASE m # n /\ m \notin DOMAIN heard
    <3>1. m \notin DOMAIN heard'
      BY <2>3, <1>0, <1>1
    <3> QED
      BY <3>1, <2>3 DEF Expected, Taken
  <2> QED
    BY <2>1, <2>2, <2>3
<1> QED
  BY <1>0, <1>5

FollowInv == StreamFollowed /\ ReportFollowsStream

LEMMA NoneReported ==
  ASSUME Channels, pc \notin {"closeResult", "closeMessages", "cancel", "done"}, UNCHANGED result
  PROVE  ReportFollowsStream'
BY DEF Channels, ReportFollowsStream

\* A step that reads nothing and reports nothing.
LEMMA FollowStays ==
  ASSUME FollowInv, UNCHANGED <<cli, seen, ended, heard, result>>
  PROVE  FollowInv'
<1>1. HeardKinds' = HeardKinds /\ (NoiseOnly' <=> NoiseOnly)
  BY DEF HeardKinds, NoiseOnly
<1>2. ASSUME NEW CONSTANT kinds, NEW CONSTANT replaced
      PROVE  Expected(kinds, replaced)' = Expected(kinds, replaced)
  BY DEF Expected, Authoritative
<1>3. Expected(Texts, cli # "openclaw")' = Expected(Texts, cli # "openclaw")
      /\ Expected(Tokens(cli), TRUE)' = Expected(Tokens(cli), TRUE)
      /\ Expected({"noise"}, FALSE)' = Expected({"noise"}, FALSE)
  BY DEF Expected, Authoritative
<1>4. StreamFollowed'
  BY <1>1, <1>3 DEF FollowInv, StreamFollowed
<1>5. ReportFollowsStream'
  BY <1>1 DEF FollowInv, ReportFollowsStream, Expected, Authoritative
<1> QED
  BY <1>4, <1>5 DEF FollowInv

LEMMA InitFollows == Init => FollowInv
BY DEF Init, Nothing, FollowInv, StreamFollowed, ReportFollowsStream, Expected, HeardKinds

LEMMA ReadLineFollows ==
  ASSUME IInv, FollowInv, NEW l \in Lines(cli), ReadLine(l) PROVE FollowInv'
<1> DEFINE n == Len(heard) + 1
<1>0. /\ cli \in Clis /\ n \in 1..MaxLines /\ seen \in Seen /\ heard \in Seq(Lines(cli))
      /\ ended = "no" /\ ended' = "no" /\ cli' = cli /\ heard' = Append(heard, l)
      /\ seen' = Heard(cli, seen, l, n)
  BY StreamAssumption DEF IInv, TypeInv, TypeOK, Progress, Scanning, ReadLine, readLeaves
<1>1. /\ seen'.output = Taken(seen.output, Texts, cli # "openclaw", l.kind, n)
      /\ seen'.usage = Taken(seen.usage, Tokens(cli), TRUE, l.kind, n)
      /\ cli = "openclaw" =>
           /\ seen'.raw = Taken(seen.raw, {"noise"}, FALSE, l.kind, n)
           /\ seen'.events <=> seen.events \/ l.kind # "noise"
  BY <1>0, LineTaken
<1>2. Expected(Texts, cli # "openclaw")' = Taken(Expected(Texts, cli # "openclaw"), Texts, cli # "openclaw", l.kind, n)
  <2>1. CASE cli = "openclaw"
    <3>1. Expected(Texts, FALSE)' = Taken(Expected(Texts, FALSE), Texts, FALSE, l.kind, n)
      BY <1>0, ExpectedGrows
    <3> QED
      BY <3>1, <2>1, <1>0 DEF Expected, Taken
  <2>2. CASE cli # "openclaw"
    <3>1. Expected(Texts, TRUE)' = Taken(Expected(Texts, TRUE), Texts, TRUE, l.kind, n)
      BY <1>0, ExpectedGrows
    <3> QED
      BY <3>1, <2>2, <1>0 DEF Expected, Taken
  <2> QED
    BY <2>1, <2>2
<1>3. Expected(Tokens(cli), TRUE)' = Taken(Expected(Tokens(cli), TRUE), Tokens(cli), TRUE, l.kind, n)
  <2>1. CASE cli \in {"gemini", "opencode", "openclaw"}
    <3>1. Expected({"usage", "result"}, TRUE)'
            = Taken(Expected({"usage", "result"}, TRUE), {"usage", "result"}, TRUE, l.kind, n)
      BY <1>0, ExpectedGrows
    <3> QED
      BY <3>1, <2>1, <1>0 DEF Tokens
  <2>2. CASE cli \notin {"gemini", "opencode", "openclaw"}
    <3>1. Expected(Texts, TRUE)' = Taken(Expected(Texts, TRUE), Texts, TRUE, l.kind, n)
      BY <1>0, ExpectedGrows
    <3> QED
      BY <3>1, <2>2, <1>0 DEF Tokens
  <2> QED
    BY <2>1, <2>2
<1>4. Expected({"noise"}, FALSE)' = Taken(Expected({"noise"}, FALSE), {"noise"}, FALSE, l.kind, n)
  BY <1>0, ExpectedGrows
<1>5. HeardKinds' = HeardKinds \cup {l.kind}
  BY <1>0, KindHeard DEF IInv
<1>6. StreamFollowed'
  <2>1. /\ seen.output = Expected(Texts, cli # "openclaw")
        /\ seen.usage = Expected(Tokens(cli), TRUE)
        /\ cli = "openclaw" =>
             /\ seen.raw = Expected({"noise"}, FALSE)
             /\ seen.events <=> \E kind \in HeardKinds : kind # "noise"
    BY <1>0 DEF FollowInv, StreamFollowed
  <2>2. /\ seen'.output = Expected(Texts, cli # "openclaw")'
        /\ seen'.usage = Expected(Tokens(cli), TRUE)'
    BY <1>1, <1>2, <1>3, <2>1
  <2>3. cli = "openclaw" =>
          /\ seen'.raw = Expected({"noise"}, FALSE)'
          /\ seen'.events <=> \E kind \in HeardKinds' : kind # "noise"
    BY <1>1, <1>4, <1>5, <2>1
  <2> QED
    BY <1>0, <2>2, <2>3 DEF StreamFollowed
<1>7. ReportFollowsStream'
  BY NoneReported DEF IInv, ReadLine, readLeaves, sessionVars
<1> QED
  BY <1>6, <1>7 DEF FollowInv

\* The end of the scan: only the log lines of openclaw change their place.
LEMMA ScanFollows == IInv /\ FollowInv /\ (ScanEnds \/ ScanFails) => FollowInv'
<1> SUFFICES ASSUME IInv, FollowInv, ScanEnds \/ ScanFails PROVE FollowInv'
  OBVIOUS
<1>0. /\ ended = "no" /\ ended' # "no" /\ cli' = cli /\ heard' = heard /\ seen \in Seen
      /\ heard \in Seq(Lines(cli))
  BY DEF IInv, TypeInv, Progress, Scanning, ScanEnds, ScanFails, readLeaves
<1>1. /\ HeardKinds' = HeardKinds /\ (NoiseOnly' <=> NoiseOnly)
      /\ Expected(Texts, cli # "openclaw")' = Expected(Texts, cli # "openclaw")
      /\ Expected(Tokens(cli), TRUE)' = Expected(Tokens(cli), TRUE)
  BY <1>0 DEF HeardKinds, NoiseOnly, Expected, Authoritative
<1>2. /\ seen.output = Expected(Texts, cli # "openclaw")
      /\ seen.usage = Expected(Tokens(cli), TRUE)
      /\ cli = "openclaw" =>
           /\ seen.raw = Expected({"noise"}, FALSE)
           /\ seen.events <=> \E kind \in HeardKinds : kind # "noise"
  BY <1>0 DEF FollowInv, StreamFollowed
<1>3. CASE cli = "openclaw" /\ ScanEnds /\ ~seen.events /\ seen.raw # {}
  <2>1. \A kind \in HeardKinds : kind = "noise"
    BY <1>2, <1>3
  <2>2. seen.raw = DOMAIN heard
    BY <2>1, <1>2, <1>3 DEF Expected, HeardKinds
  <2>3. NoiseOnly
    BY <2>1, <2>2, <1>3 DEF HeardKinds, NoiseOnly
  <2>4. seen'.output = DOMAIN heard
    BY <1>0, <1>3, <2>2 DEF ScanEnds, AtEnd, OpenclawEnd, Seen
  <2>5. StreamFollowed'
    BY <1>0, <1>1, <2>3, <2>4 DEF StreamFollowed
  <2> QED
    BY <1>3, <2>5, NoneReported DEF FollowInv, IInv, ScanEnds, readLeaves, sessionVars
<1>4. CASE ~(cli = "openclaw" /\ ScanEnds /\ ~seen.events /\ seen.raw # {})
  <2>1. seen'.status = "failed" \/ (seen' = seen /\ ~NoiseOnly)
    BY <1>0, <1>2, <1>4 DEF ScanEnds, ScanFails, AtEnd, AtError, OpenclawEnd, Failed, Nothing, Seen, NoiseOnly
  <2>2. StreamFollowed'
    BY <1>0, <1>1, <1>2, <2>1 DEF StreamFollowed
  <2> QED
    BY <2>2, NoneReported DEF FollowInv, IInv, ScanEnds, ScanFails, readLeaves, sessionVars
<1> QED
  BY <1>3, <1>4

LEMMA ReportFollows == IInv /\ FollowInv /\ Report => FollowInv'
<1> SUFFICES ASSUME IInv, FollowInv, Report PROVE FollowInv'
  OBVIOUS
<1> DEFINE r == [status |-> Verdict, session |-> ReportedId(Verdict),
                 output |-> seen.output, usage |-> seen.usage]
<1>1. result' = <<r>> /\ UNCHANGED <<cli, seen, ended, heard>> /\ ended # "no"
  BY DEF Report, finishLeaves, IInv, Channels, Progress, Reporting
<1>2. r.status = "completed" => seen.status = "completed"
  BY DEF Verdict
<1>3. r.output = seen.output /\ r.usage = seen.usage
  OBVIOUS
<1>4. \A i \in DOMAIN result' : result'[i] = r
  BY <1>1
<1>5. /\ HeardKinds' = HeardKinds /\ (NoiseOnly' <=> NoiseOnly)
      /\ Expected(Texts, cli # "openclaw")' = Expected(Texts, cli # "openclaw")
      /\ Expected(Tokens(cli), TRUE)' = Expected(Tokens(cli), TRUE)
  BY <1>1 DEF HeardKinds, NoiseOnly, Expected, Authoritative
<1>6. StreamFollowed'
  BY <1>1, <1>5 DEF FollowInv, StreamFollowed
<1> HIDE DEF r
<1>7. \A i \in DOMAIN result' : result'[i].status = "completed" =>
        IF NoiseOnly' THEN result'[i].output = DOMAIN heard'
        ELSE /\ result'[i].output = Expected(Texts, cli # "openclaw")'
             /\ result'[i].usage = Expected(Tokens(cli), TRUE)'
  BY <1>1, <1>2, <1>3, <1>4, <1>5 DEF FollowInv, StreamFollowed
<1>8. ReportFollowsStream'
  BY <1>7 DEF ReportFollowsStream, NoiseOnly, Texts, Tokens
<1> QED
  BY <1>6, <1>8 DEF FollowInv

LEMMA NextFollows == IInv /\ FollowInv /\ [Next]_vars => FollowInv'
<1> SUFFICES ASSUME IInv, FollowInv, [Next]_vars PROVE FollowInv'
  OBVIOUS
<1>1. CASE \E l \in Lines(cli) : ReadLine(l)
  BY <1>1, ReadLineFollows
<1>2. CASE ScanEnds \/ ScanFails
  BY <1>2, ScanFollows
<1>3. CASE Report
  BY <1>3, ReportFollows
<1>4. CASE ~((\E l \in Lines(cli) : ReadLine(l)) \/ ScanEnds \/ ScanFails \/ Report)
  <2>1. UNCHANGED <<cli, seen, ended, heard, result>>
    BY <1>4 DEF Next, Execute, WriteMcpConfig, StartProcess, StartFails, startLeaves,
      WritePrompt, WriteFails, writerLeaves, AnswerControl, ControlFails, controlLeaves,
      Finish, WaitReturns, CloseResult, CloseMessages, CancelOnReturn, finishLeaves,
      CloseOnDone, ContextEnds, ProcessStops, HelperLives, Killed, processLeaves, Terminated,
      vars, sessionVars
  <2> QED
    BY <2>1, FollowStays
<1> QED
  BY <1>1, <1>2, <1>3, <1>4

\* The answer and the token count of each of the six adapters are those of the last
\* result line and of what came after it, for every stream of lines: the switch in
\* the scan of claude.go and its siblings, processOutput of openclaw.go.
THEOREM ReportsFollowTheStream == Spec => []ReportFollowsStream
<1>1. FollowInv => ReportFollowsStream
  BY DEF FollowInv
<1> QED
  BY <1>1, InitIInv, NextIInv, InitFollows, NextFollows, PTL DEF Spec

-----------------------------------------------------------------------------
LEMMA SessionInit == Init => Session!Init
BY DEF Init, Session!Init

\* A step reports the one Result, closes one of the two channels, or touches neither.
LEMMA SessionStep == IInv /\ IInv' /\ [Next]_vars => [Session!Next]_(Session!vars)
<1> SUFFICES ASSUME IInv, IInv', [Next]_vars PROVE [Session!Next]_(Session!vars)
  OBVIOUS
<1>1. CASE Report
  <2>1. pc = "report" /\ result = <<>> /\ resultOpen
    BY <1>1 DEF Report, IInv, Channels
  <2>2. result' \in Seq(Results) /\ result' # <<>>
    BY <1>1 DEF IInv, TypeInv, TypeOK, Report, Channels
  <2>3. PICK r : result' = <<r>>
    BY <1>1, <2>1 DEF Report
  <2>4. r \in Results
    BY <2>2, <2>3
  <2> QED
    BY <1>1, <2>1, <2>3, <2>4 DEF Report, Session!Next, Session!Report
<1>2. CASE CloseResult
  BY <1>2 DEF CloseResult, Session!Next, Session!CloseResult, IInv, Channels
<1>3. CASE CloseMessages
  BY <1>3 DEF CloseMessages, Session!Next, Session!CloseMessages, IInv, Channels
<1>4. CASE ~(Report \/ CloseResult \/ CloseMessages)
  <2>1. UNCHANGED sessionVars
    BY <1>4 DEF Next, Execute, WriteMcpConfig, StartProcess, StartFails, startLeaves,
      WritePrompt, WriteFails, writerLeaves, AnswerControl, ControlFails, controlLeaves,
      ReadLine, ScanEnds, ScanFails, readLeaves, Finish, WaitReturns, CancelOnReturn,
      CloseOnDone, ContextEnds, ProcessStops, HelperLives, Killed, processLeaves, Terminated,
      vars, sessionVars
  <2> QED
    BY <2>1 DEF sessionVars, Session!vars
<1> QED
  BY <1>1, <1>2, <1>3, <1>4

\* Each of the six adapters keeps the contract of adapter.Session: exactly one
\* Result, then the close of its channel, and one close of Messages.
THEOREM SessionContract == Spec => KeepsSessionContract
BY SessionInit, SessionStep, Invariant, PTL DEF Spec, KeepsSessionContract, Session!Spec
=============================================================================
