----------------------------- MODULE StreamJson -----------------------------
(***************************************************************************)
(* The adapters that read one line of JSON per event from a CLI's stdout:  *)
(* claude, qwen, codebuddy, gemini, opencode and openclaw                  *)
(* (internal/adapter/<cli>.go). Execute starts the process and returns a   *)
(* session; a goroutine reads stdout to its end, waits for the process and *)
(* reports one Result; a second one writes the prompt; a third, of some of *)
(* them, closes the pipes when the context is done.                        *)
(*                                                                         *)
(* cli says which of the six a behaviour is about. They differ in the      *)
(* record Traits(cli) and in what a line does, Heard(cli, s, l, n).        *)
(***************************************************************************)
EXTENDS Integers, Sequences

CONSTANTS
  MaxLines,  \* bound: lines one process writes
  Resume,    \* the caller set ResumeSessionID
  GivesMcp   \* the caller set McpConfig

ASSUME StreamAssumption == MaxLines \in Nat /\ Resume \in BOOLEAN /\ GivesMcp \in BOOLEAN

Clis == {"claude", "qwen", "codebuddy", "gemini", "opencode", "openclaw"}

VARIABLES
  cli,        \* the agent type of this session
  mcp,        \* the MCP config file: "none", "requested", "temp", "removed"
  pc,         \* where Execute, then the reading goroutine, is
  seen,       \* what the lines read so far amount to
  ended,      \* how the scan ended: "no", "eof", "error"
  waitErr,    \* cmd.Wait returned an error
  writer,     \* the prompt writer: "none", "writing", "ok", "failed"
  stdin,      \* our end of the stdin pipe: "open" or "closed"
  stdout,     \* our end of the stdout pipe
  process,    \* the CLI: "none", "running", "mute" (stdout closed), "exited"
  exit,       \* its exit status: "none", "zero", "error"
  helper,     \* a descendant that inherited the pipes: "none", "alive", "gone"
  ctx,        \* runCtx: "live", "cancelled" or "expired"
  messages, result, resultOpen,  \* as in AdapterSession
  heard       \* history: the lines read

sessionVars == <<messages, result, resultOpen>>
pipeVars    == <<stdin, stdout>>
processVars == <<process, exit, helper>>
vars == <<cli, mcp, pc, seen, ended, waitErr, writer, pipeVars, processVars, ctx,
          sessionVars, heard>>

\* cancel() of runContext: a context that is done stays as it is.
CancelContext == ctx' = IF ctx = "live" THEN "cancelled" ELSE ctx

-----------------------------------------------------------------------------
(* What differs between the adapters: is the prompt a frame on stdin, is     *)
(* stdin then kept for control responses, are the pipes closed when the      *)
(* context is done, is the MCP config a file, does a broken stdout fail the  *)
(* run, is stdin closed at the end of the scan, is a resume checked.         *)

Claude    == [frame |-> TRUE,  keepStdin |-> TRUE,  unblocks |-> TRUE,  mcpFile |-> TRUE,
              scanErr |-> FALSE, closesAtEnd |-> TRUE,  checksResume |-> TRUE]
Qwen      == [frame |-> TRUE,  keepStdin |-> TRUE,  unblocks |-> FALSE, mcpFile |-> TRUE,
              scanErr |-> TRUE,  closesAtEnd |-> FALSE, checksResume |-> TRUE]
Codebuddy == [frame |-> TRUE,  keepStdin |-> TRUE,  unblocks |-> FALSE, mcpFile |-> TRUE,
              scanErr |-> TRUE,  closesAtEnd |-> FALSE, checksResume |-> TRUE]
Gemini    == [frame |-> TRUE,  keepStdin |-> FALSE, unblocks |-> TRUE,  mcpFile |-> TRUE,
              scanErr |-> TRUE,  closesAtEnd |-> FALSE, checksResume |-> FALSE]
Opencode  == [frame |-> FALSE, keepStdin |-> FALSE, unblocks |-> FALSE, mcpFile |-> FALSE,
              scanErr |-> TRUE,  closesAtEnd |-> FALSE, checksResume |-> FALSE]
Openclaw  == [frame |-> FALSE, keepStdin |-> FALSE, unblocks |-> TRUE,  mcpFile |-> FALSE,
              scanErr |-> TRUE,  closesAtEnd |-> FALSE, checksResume |-> FALSE]

Traits(c) == CASE c = "claude"    -> Claude
               [] c = "qwen"      -> Qwen
               [] c = "codebuddy" -> Codebuddy
               [] c = "gemini"    -> Gemini
               [] c = "opencode"  -> Opencode
               [] c = "openclaw"  -> Openclaw

-----------------------------------------------------------------------------
(* The lines. A result line is the CLI's own verdict on the run; "result"    *)
(* carries a text and a usage, "emptyResult" neither. An id is that of the   *)
(* session the caller asked to resume, or a fresh one.                       *)

ResultKinds == {"result", "emptyResult", "errorResult"}
ErrorKinds  == {"errorResult", "error"}

ClaudeKinds    == ResultKinds \cup {"text", "async", "status", "control", "noise"}
QwenKinds      == ResultKinds \cup {"text", "status", "control", "noise"}
CodebuddyKinds == ResultKinds \cup {"text", "status", "control", "noise"}
GeminiKinds    == {"text", "usage", "status", "error", "noise"}
OpencodeKinds  == {"text", "usage", "status", "error", "noise"}
OpenclawKinds  == {"text", "usage", "status", "error", "result", "noise"}

Kinds(c) == CASE c = "claude"    -> ClaudeKinds
              [] c = "qwen"      -> QwenKinds
              [] c = "codebuddy" -> CodebuddyKinds
              [] c = "gemini"    -> GeminiKinds
              [] c = "opencode"  -> OpencodeKinds
              [] c = "openclaw"  -> OpenclawKinds

SessionIds == {"none", "asked", "fresh"}

Lines(c) == {l \in [kind : Kinds(c), session : SessionIds] :
               /\ l.kind = "noise" => l.session = "none"
               /\ l.session = "asked" => Resume}

\* The local variables of the scan. Output and usage are the sets of the lines
\* they were taken from.
Nothing == [status |-> "completed", session |-> "none", output |-> {}, usage |-> {},
            async |-> FALSE, events |-> FALSE, raw |-> {}]

WithSession(s, l) == IF l.session = "none" THEN s ELSE [s EXCEPT !.session = l.session]
WithText(s, n)    == [s EXCEPT !.output = @ \cup {n}]
WithUsage(s, n)   == [s EXCEPT !.usage = @ \cup {n}]
\* A tool result that tells of a task in the background.
WithAsyncLaunch(s) == [s EXCEPT !.async = TRUE]
Failed(s) == [s EXCEPT !.status = "failed"]

\* Mutant: the usage of a result line is added to that of the assistant lines.
ResultUsageAdds(s, l, n) == IF l.kind = "emptyResult" THEN s.usage ELSE s.usage \cup {n}

\* claudeResultUsage and its copies: the usage of a result line replaces what the
\* assistant lines added up to, unless it has none.
ResultUsage(s, l, n) == IF l.kind = "emptyResult" THEN s.usage ELSE {n}

\* The case "result": its id is taken even when empty, its text is authoritative.
TakeResult(s, l, n) ==
  [s EXCEPT !.session = l.session,
            !.output = IF l.kind = "emptyResult" THEN @ ELSE {n},
            !.usage  = ResultUsage(s, l, n),
            !.status = IF l.kind = "errorResult" THEN "failed" ELSE @]

ClaudeLine(s, l, n) ==
  CASE l.kind = "text"   -> WithUsage(WithText(s, n), n)
    [] l.kind = "async"  -> WithAsyncLaunch(s)
    [] l.kind = "status" -> WithSession(s, l)
    [] l.kind \in ResultKinds -> TakeResult(s, l, n)
    [] OTHER -> s

\* qwen takes the session id from any line that has one.
QwenLine(s, l, n) ==
  LET t == WithSession(s, l)
  IN CASE l.kind = "text" -> WithUsage(WithText(t, n), n)
       [] l.kind \in ResultKinds -> TakeResult(t, l, n)
       [] OTHER -> t

CodebuddyLine(s, l, n) == QwenLine(s, l, n)

OpencodeLine(s, l, n) ==
  LET t == WithSession(s, l)
  IN CASE l.kind = "text"  -> WithText(t, n)
       [] l.kind = "usage" -> WithUsage(t, n)
       [] l.kind = "error" -> Failed(t)
       [] OTHER -> t

GeminiLine(s, l, n) == OpencodeLine(s, l, n)

\* buildOpenclawEventResult: a result blob adds its text, its usage replaces.
OpenclawBlob(s, l, n) == [WithText(WithSession(s, l), n) EXCEPT !.usage = {n}]

OpenclawLine(s, l, n) ==
  IF l.kind = "noise" THEN [s EXCEPT !.raw = @ \cup {n}]
  ELSE [(IF l.kind = "result" THEN OpenclawBlob(s, l, n) ELSE OpencodeLine(s, l, n))
          EXCEPT !.events = TRUE]

Heard(c, s, l, n) == CASE c = "claude"    -> ClaudeLine(s, l, n)
                       [] c = "qwen"      -> QwenLine(s, l, n)
                       [] c = "codebuddy" -> CodebuddyLine(s, l, n)
                       [] c = "gemini"    -> GeminiLine(s, l, n)
                       [] c = "opencode"  -> OpencodeLine(s, l, n)
                       [] c = "openclaw"  -> OpenclawLine(s, l, n)

\* processOutput without a single event: log lines become the answer.
OpenclawEnd(s) ==
  IF s.events THEN s
  ELSE IF s.raw # {} THEN [s EXCEPT !.output = s.raw]
  ELSE Failed(s)

AtEnd(c, s) == IF c = "openclaw" THEN OpenclawEnd(s) ELSE s

\* A read error fails a run not failed already, except for claude, which does not
\* look; openclaw then has nothing to parse.
AtError(c, s) ==
  CASE c = "openclaw"     -> Failed(Nothing)
    [] Traits(c).scanErr  -> Failed(s)
    [] OTHER -> s

-----------------------------------------------------------------------------
(* Execute *)

startLeaves == <<cli, seen, ended, waitErr, stdout, exit, helper, sessionVars, heard>>

\* writeMcpConfigToTemp
WriteMcpConfig ==
  /\ pc = "prepare"
  /\ \/ pc' = "start" /\ mcp' = "temp" /\ UNCHANGED ctx
     \/ pc' = "refused" /\ mcp' = "removed" /\ CancelContext
  /\ UNCHANGED <<writer, stdin, process, startLeaves>>

StartProcess ==
  /\ pc = "start" /\ ctx = "live"
  /\ pc' = "scan" /\ process' = "running"
  /\ writer' = IF Traits(cli).frame THEN "writing" ELSE "none"
  /\ stdin' = IF Traits(cli).frame THEN "open" ELSE "closed"
  /\ UNCHANGED <<mcp, ctx, startLeaves>>

\* Mutant: the early return leaves the file behind.
StartFailsWithoutCleanup ==
  /\ pc = "start"
  /\ pc' = "refused" /\ CancelContext
  /\ UNCHANGED <<mcp, writer, stdin, process, startLeaves>>

\* A pipe cannot be made or the process not started: nothing is left behind.
StartFails ==
  /\ pc = "start"
  /\ pc' = "refused" /\ CancelContext
  /\ mcp' = IF mcp = "temp" THEN "removed" ELSE mcp
  /\ UNCHANGED <<writer, stdin, process, startLeaves>>

Execute == WriteMcpConfig \/ StartProcess \/ StartFails

-----------------------------------------------------------------------------
(* The writer of the prompt, and the responses to control requests. os.File   *)
(* serialises writes, and a write blocks while the pipe is full.              *)

StdinBroken == stdin = "closed" \/ (process = "exited" /\ helper # "alive")

writerLeaves == <<cli, mcp, pc, seen, ended, waitErr, stdout, processVars, ctx,
                  sessionVars, heard>>

\* gemini closes stdin after its prompt, the others keep it for responses.
WritePrompt ==
  /\ writer = "writing" /\ ~StdinBroken
  /\ writer' = "ok"
  /\ stdin' = IF Traits(cli).keepStdin THEN stdin ELSE "closed"
  /\ UNCHANGED writerLeaves

WriteFails ==
  /\ writer = "writing" /\ StdinBroken
  /\ writer' = "failed" /\ stdin' = "closed"
  /\ UNCHANGED writerLeaves

controlLeaves == <<cli, mcp, seen, ended, waitErr, writer, pipeVars, processVars, ctx,
                   sessionVars, heard>>

AnswerControl ==
  /\ pc = "control" /\ writer # "writing" /\ ~StdinBroken
  /\ pc' = "scan"
  /\ UNCHANGED controlLeaves

ControlFails ==
  /\ pc = "control" /\ StdinBroken
  /\ pc' = "scan"
  /\ UNCHANGED controlLeaves

-----------------------------------------------------------------------------
(* The reading goroutine *)

readLeaves == <<cli, mcp, waitErr, writer, processVars, ctx, sessionVars>>

\* What is still in the pipe may be read after the end of the process.
ReadLine(l) ==
  /\ pc = "scan" /\ stdout = "open" /\ Len(heard) < MaxLines
  /\ heard' = Append(heard, l)
  /\ seen' = Heard(cli, seen, l, Len(heard) + 1)
  /\ stdin' = IF Traits(cli).keepStdin /\ l.kind \in ResultKinds THEN "closed" ELSE stdin
  /\ pc' = IF l.kind = "control" THEN "control" ELSE pc
  /\ UNCHANGED <<ended, stdout, readLeaves>>

EndOfStdout == process \in {"mute", "exited"} /\ helper # "alive"

\* After the scan claude closes stdin; the others leave that to cmd.Wait.
ScanEnds ==
  /\ pc = "scan" /\ stdout = "open" /\ EndOfStdout
  /\ seen' = AtEnd(cli, seen) /\ ended' = "eof"
  /\ stdin' = IF Traits(cli).closesAtEnd THEN "closed" ELSE stdin
  /\ pc' = "wait"
  /\ UNCHANGED <<stdout, heard, readLeaves>>

\* Our end is closed under the reader, or a line is longer than the scanner's
\* buffer (which openclaw fills only when it has read everything).
ScanFails ==
  /\ pc = "scan"
  /\ \/ stdout = "closed"
     \/ Len(heard) < MaxLines /\ (cli = "openclaw" => EndOfStdout)
  /\ seen' = AtError(cli, seen) /\ ended' = "error"
  /\ stdin' = IF Traits(cli).closesAtEnd THEN "closed" ELSE stdin
  /\ pc' = "wait"
  /\ UNCHANGED <<stdout, heard, readLeaves>>

finishLeaves == <<cli, seen, ended, writer, processVars, heard>>

\* cmd.Wait: an exit status, or ErrWaitDelay when a descendant kept the pipe of
\* stderr; it closes our ends of the others.
WaitReturns ==
  /\ pc = "wait" /\ process = "exited"
  /\ waitErr' \in {exit = "error"} \cup (IF helper = "alive" THEN {TRUE} ELSE {})
  /\ stdin' = "closed" /\ stdout' = "closed"
  /\ pc' = "report"
  /\ UNCHANGED <<mcp, ctx, sessionVars, finishLeaves>>

\* Mutant: the exit status of the process is not looked at.
VerdictIgnoresExit ==
  CASE ctx = "expired"   -> "timeout"
    [] ctx = "cancelled" -> "aborted"
    [] OTHER -> seen.status

\* The switch on the context, the error of the prompt's writer and the exit status.
Verdict ==
  CASE ctx = "expired"   -> "timeout"
    [] ctx = "cancelled" -> "aborted"
    [] ctx = "live" /\ (waitErr \/ seen.async) -> "failed"
    [] ctx = "live" /\ writer = "failed" /\ seen.session = "none" -> "failed"
    [] OTHER -> seen.status

\* resolveSessionID: no fresh id for a resumed session that failed.
ReportedId(status) ==
  IF Traits(cli).checksResume /\ status = "failed" /\ Resume /\ seen.session = "fresh"
  THEN "none" ELSE seen.session

\* Mutant: nobody is told of a run whose context is done.
ReportUnlessDone ==
  /\ pc = "report" /\ writer # "writing"
  /\ result' = IF ctx # "live" THEN result
               ELSE Append(result, [status |-> Verdict, session |-> ReportedId(Verdict),
                                    output |-> seen.output, usage |-> seen.usage])
  /\ pc' = "closeResult"
  /\ UNCHANGED <<mcp, waitErr, pipeVars, ctx, messages, resultOpen, finishLeaves>>

\* <-writeDone, the verdict and the one Result.
Report ==
  /\ pc = "report" /\ writer # "writing"
  /\ result' = Append(result, [status |-> Verdict, session |-> ReportedId(Verdict),
                               output |-> seen.output, usage |-> seen.usage])
  /\ pc' = "closeResult"
  /\ UNCHANGED <<mcp, waitErr, pipeVars, ctx, messages, resultOpen, finishLeaves>>

\* The deferred calls: os.Remove of the MCP config, the channels, cancel.
CloseResult ==
  /\ pc = "closeResult"
  /\ mcp' = IF mcp = "temp" THEN "removed" ELSE mcp
  /\ resultOpen' = FALSE
  /\ pc' = "closeMessages"
  /\ UNCHANGED <<waitErr, pipeVars, ctx, messages, result, finishLeaves>>

CloseMessages ==
  /\ pc = "closeMessages"
  /\ messages' = "closed"
  /\ pc' = "cancel"
  /\ UNCHANGED <<mcp, waitErr, pipeVars, ctx, result, resultOpen, finishLeaves>>

CancelOnReturn ==
  /\ pc = "cancel"
  /\ CancelContext
  /\ pc' = "done"
  /\ UNCHANGED <<mcp, waitErr, pipeVars, sessionVars, finishLeaves>>

Finish == WaitReturns \/ Report \/ CloseResult \/ CloseMessages \/ CancelOnReturn

-----------------------------------------------------------------------------
(* The context, and the goroutine waiting for its end *)

InSession == pc \notin {"prepare", "start", "refused"}

\* Mutant: the reader is left to the end of the process.
CloseStdinOnDone ==
  /\ InSession /\ ctx # "live" /\ Traits(cli).unblocks
  /\ stdin = "open" /\ stdin' = "closed"
  /\ UNCHANGED <<cli, mcp, pc, seen, ended, waitErr, writer, stdout, processVars, ctx,
                 sessionVars, heard>>

CloseOnDone ==
  /\ InSession /\ ctx # "live" /\ Traits(cli).unblocks
  /\ stdout = "open" \/ stdin = "open"
  /\ stdout' = "closed" /\ stdin' = "closed"
  /\ UNCHANGED <<cli, mcp, pc, seen, ended, waitErr, writer, processVars, ctx,
                 sessionVars, heard>>

\* The caller cancels, or the deadline of the run passes.
ContextEnds ==
  /\ ctx = "live"
  /\ ctx' \in {"cancelled", "expired"}
  /\ UNCHANGED <<cli, mcp, pc, seen, ended, waitErr, writer, pipeVars, processVars,
                 sessionVars, heard>>

(* The CLI: it may close its stdout, start a process that outlives it and     *)
(* shares its pipes, or exit, at any moment.                                  *)

processLeaves == <<cli, mcp, pc, seen, ended, waitErr, writer, pipeVars, ctx,
                   sessionVars, heard>>

ProcessStops ==
  /\ \/ process = "running" /\ process' = "mute" /\ UNCHANGED exit
     \/ process \in {"running", "mute"} /\ process' = "exited" /\ exit' \in {"zero", "error"}
  /\ UNCHANGED <<helper, processLeaves>>

HelperLives ==
  /\ \/ process = "running" /\ helper = "none" /\ helper' = "alive"
     \/ helper = "alive" /\ helper' = "gone"
  /\ UNCHANGED <<process, exit, processLeaves>>

\* exec.CommandContext kills the process it started, and no other.
Killed ==
  /\ ctx # "live" /\ process \in {"running", "mute"}
  /\ process' = "exited" /\ exit' = "error"
  /\ UNCHANGED <<helper, processLeaves>>

-----------------------------------------------------------------------------

Init ==
  /\ cli \in Clis
  /\ mcp = IF GivesMcp /\ Traits(cli).mcpFile THEN "requested" ELSE "none"
  /\ pc = IF mcp = "requested" THEN "prepare" ELSE "start"
  /\ seen = Nothing /\ ended = "no" /\ waitErr = FALSE
  /\ writer = "none" /\ stdin = "closed" /\ stdout = "open"
  /\ process = "none" /\ exit = "none" /\ helper = "none"
  /\ ctx = "live"
  /\ messages = "open" /\ result = <<>> /\ resultOpen = TRUE
  /\ heard = <<>>

Terminated == pc \in {"done", "refused"} /\ UNCHANGED vars

Next ==
  \/ Execute \/ WritePrompt \/ WriteFails \/ AnswerControl \/ ControlFails
  \/ \E l \in Lines(cli) : ReadLine(l)
  \/ ScanEnds \/ ScanFails \/ Finish
  \/ CloseOnDone \/ ContextEnds \/ ProcessStops \/ HelperLives \/ Killed
  \/ Terminated

\* The goroutines are scheduled, a write to a broken pipe and a read from a closed
\* one return, a process whose context is done is killed. Nothing makes a CLI
\* read, write or exit, nor a descendant of it end.
Fairness ==
  /\ WF_vars(Execute) /\ WF_vars(WriteFails) /\ WF_vars(ControlFails)
  /\ WF_vars(ScanEnds) /\ WF_vars(stdout = "closed" /\ ScanFails) /\ WF_vars(Finish)
  /\ WF_vars(CloseOnDone) /\ WF_vars(Killed)

Spec     == Init /\ [][Next]_vars
FairSpec == Spec /\ Fairness

-----------------------------------------------------------------------------
(* Properties *)

Statuses == {"completed", "failed", "aborted", "timeout"}
LineSets == SUBSET (1..MaxLines)
Results  == [status : Statuses, session : SessionIds, output : LineSets, usage : LineSets]

\* Every variable has the type of its Go counterpart.
TypeOK ==
  /\ cli \in Clis
  /\ mcp \in {"none", "requested", "temp", "removed"}
  /\ pc \in {"prepare", "start", "refused", "scan", "control", "wait", "report", "closeResult",
            "closeMessages", "cancel", "done"}
  /\ seen \in [status : {"completed", "failed"}, session : SessionIds, output : LineSets,
               usage : LineSets, async : BOOLEAN, events : BOOLEAN, raw : LineSets]
  /\ ended \in {"no", "eof", "error"} /\ waitErr \in BOOLEAN
  /\ writer \in {"none", "writing", "ok", "failed"}
  /\ stdin \in {"open", "closed"} /\ stdout \in {"open", "closed"}
  /\ process \in {"none", "running", "mute", "exited"}
  /\ exit \in {"none", "zero", "error"} /\ helper \in {"none", "alive", "gone"}
  /\ ctx \in {"live", "cancelled", "expired"}
  /\ messages \in {"open", "closed"} /\ result \in Seq(Results) /\ resultOpen \in BOOLEAN
  /\ heard \in Seq([kind : UNION {Kinds(c) : c \in Clis}, session : SessionIds])
  /\ Len(heard) <= MaxLines

HeardKinds == {heard[n].kind : n \in DOMAIN heard}

\* What went wrong, as far as the CLI told, and its stream showed, it.
Told   == \E kind \in HeardKinds : kind \in ErrorKinds \cup {"async"}
Broken == ended = "error" /\ Traits(cli).scanErr
Silent == cli = "openclaw" /\ heard = <<>>

Justified(status) ==
  CASE status = "completed" -> exit = "zero" /\ ~Told /\ ~Broken /\ ~Silent
    [] status = "failed"    -> Told \/ Broken \/ Silent \/ waitErr \/ writer = "failed"
    [] status = "aborted"   -> ctx = "cancelled"
    [] status = "timeout"   -> ctx = "expired"

\* A run is reported as completed only if the CLI reported no failure in any line,
\* exited with status zero, and (claude excepted, which does not look) its output
\* was read to the end; and as failed only if one of these went wrong or the
\* prompt could not be written. Nobody's cancellation is blamed on the CLI.
VerdictIsJustified == \A i \in DOMAIN result : Justified(result[i].status)

\* The lines a completed run should report the text of, and those whose tokens it
\* should bill: the last authoritative result line and what came after it.
Authoritative(n) ==
  \A m \in n + 1..Len(heard) : heard[m].kind \notin {"result", "errorResult"}
Expected(kinds, replaced) ==
  {n \in DOMAIN heard : heard[n].kind \in kinds /\ (replaced => Authoritative(n))}

\* The answer is neither lost nor doubled when the CLI repeats it in its result
\* line, and no token is billed twice: what is reported is the last result line and
\* what came after it. openclaw repeats no text, so there nothing is replaced; and
\* a completed run keeps every log line if there was nothing else.
ReportFollowsStream ==
  \A i \in DOMAIN result : result[i].status = "completed" =>
    IF HeardKinds = {"noise"} /\ cli = "openclaw"
    THEN result[i].output = DOMAIN heard
    ELSE /\ result[i].output = Expected({"text", "result", "errorResult"}, cli # "openclaw")
         /\ result[i].usage  =
              IF cli \in {"gemini", "opencode", "openclaw"}
              THEN Expected({"usage", "result"}, TRUE)
              ELSE Expected({"text", "result", "errorResult"}, TRUE)

\* Whatever path Execute or its goroutine takes, the file with the MCP config is
\* gone and the context released at its end, the process reaped and the pipes
\* closed before anybody sees the Result.
NothingLeaks ==
  /\ pc \in {"done", "refused"} => mcp # "temp" /\ ctx # "live"
  /\ result # <<>> => process = "exited" /\ stdin = "closed" /\ stdout = "closed"
                      /\ writer # "writing"

StuckBehindHelper == helper = "alive" /\ ~Traits(cli).unblocks

\* A session whose context is done ends, even when the CLI is blocked on its pipes;
\* unless a process the CLI left behind keeps the stdout of an adapter that does
\* not close its own end.
DoneContextEndsSession == ctx # "live" ~> pc \in {"done", "refused"} \/ StuckBehindHelper

=============================================================================
