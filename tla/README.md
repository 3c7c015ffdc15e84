# A verification project for aiclibridge

aiclibridge is a daemon that runs coding-agent CLIs (claude, codex, gemini and others) behind one HTTP
API. A request becomes a *run*: an adapter starts the CLI, turns its output into messages, and the
facade numbers these, stores them in SQLite and streams them to the client. The modules in this
directory model the parts of that program where goroutines, processes and the database interact,
check them with TLC on small instances, and prove some of their properties with TLAPS for every
value of the constants. All source paths below are relative to `src/`.

    tlc -config MCFacadeTimeline.cfg MCFacade      # model-check one configuration
    tlapm FacadeProofs.tla                         # check the proofs of one module

## The system

| component | state it keeps | operations | modules |
|---|---|---|---|
| **facade** `internal/facade` | semaphore, `activeCount`, `queuedCount`, the `runs` map of live handles; per run a context, an Events channel, a done channel | StartRun, forwardEvents, CancelRun, GetRun, Close | `Facade`, `RunLifecycle`, `FacadeProofs`, `FacadeTimelineProofs`, `FacadeAnswerProofs`; routing in `Request` |
| **store** `internal/store` | SQLite tables runs, events, sessions, schema version | CreateRun, AppendEvent, FinishRun, SaveSession, GetRun, migrations, statistics | in `Facade` (rows of a run) |
| **HTTP API** `internal/api` | none beyond the request | native, OpenAI and Anthropic endpoints: start, collect or stream, get, cancel; authentication, recovery of panics | `Request`, `RequestProofs`; in `Facade` (as reader and canceller of a run) |
| **adapter contract** `internal/adapter/backend.go` | Messages and Result channels of a session | trySend, close, one Result | `AdapterSession`, `Facade` |
| **codex adapter** | pending requests, turn and error flags, two timers, the app server process | JSON-RPC handshake, resume, turn, watchdogs, shutdown | `Codex`, `CodexProofs` |
| **ACP adapter** `acp.go` | handshake step, session id, stdin lock, temporary MCP file, process | JSON-RPC handshake, notifications, cancel watcher | `Acp`, `AcpProofs` |
| **stream-json adapters** claude, codebuddy, qwen, gemini, opencode, openclaw | output, session id, usage, status, two pipes, temporary MCP file, process | write the prompt, read lines until end of file, answer control requests, map the exit to a status | `StreamJson`, `StreamJsonProofs`; arguments in `Launch`, `RequestProofs` |
| **daemon** `cmd/aiclibridge/daemon*.go` | pid file, the background process, the listen address | start, foreground, stop, restart, upgrade | `Daemon`, `DaemonProofs` |
| **uninstall** | the binary | stop, kill strays, delete | in `Daemon` |
| **cli** `cmd/aiclibridge/cli.go` | HTTP server, signal context | serve (with shutdown), run, agents, models, get, cancel | shutdown in `Facade`, boot in `Daemon`, start in `Request` |
| **config** | the configuration record | defaults, file, environment, validation | `Launch`, `Request`, `RequestProofs` |
| **detect** | catalogue of CLIs | route model names; look up on PATH, probe version and models | routing in `Launch`, `RequestProofs` |
| **self-update** | the installed binary | version comparison, download, replacement | not modelled |
| **pricing, statistics** | price table | cost of a usage, totals | not modelled |

How they interact: an HTTP handler calls `StartRun`, which writes the pending row, waits for a slot
of the semaphore, calls the adapter's `Execute`, registers the handle in the `runs` map and starts
`forwardEvents`. From then on four actors work at once: the adapter's goroutines fill Messages and
put one value on Result; `forwardEvents` drains them into the store and the Events channel; the handler
reads Events; and anybody may cancel the run's context (client disconnection, deadline, CancelRun,
Close). On SIGTERM `serveStack` stops the HTTP server, calls `Facade.Close` and closes the store.

What is hard in it, and what makes each part correct:

- **facade**: a select with three ready cases (slot, timeout, cancellation); a slot freed on two
  paths; nine deferred calls whose order matters; buffers that drop when full and one send that
  must not; `Close` against calls still in `StartRun`. Correct when slots are neither leaked nor
  freed twice, what is streamed is stored, a final status is final and justified by a stored
  result at every instant (hence also after a crash), and every cancelled run and every shutdown
  ends once the adapters have closed Messages.
- **store**: two queries per GetRun without a transaction; writes whose failure is swallowed;
  migrations that record a version apart from the change itself. Correct when a reader never sees a
  final status without its result, and when re-opening after an interrupted migration converges.
- **HTTP API**: three wire formats over one stream, which may lose events. Correct when the outcome
  a client is told is the one recorded.
- **codex**: two goroutines share a request table, two signal channels and a thread id; a
  response, an exit and a cancellation race; other threads are multiplexed on the same pipe. Correct
  when neither goroutine can block or panic the other, the verdict is that of the turn as the protocol delimits it, exactly one
  Result is sent, and a session that is cancelled or falls silent ends.
- **ACP**: requests have fixed ids and any line with an id is a response; the cancel watcher shares
  stdin with the handshake; end of file with exit code 0 counts as success. Correct when the handshake
  is written once and in order as long as nothing is answered twice or unasked, a completed run has nothing wrong with it, and neither goroutine outlives a
  cancelled session.
- **stream-json adapters**: result line, exit status, write error, context and scanner error may each decide the
  status; a result line repeats text and tokens already counted; either pipe may block. Correct when the verdict
  and the answer are those of the stream, nothing is left behind, and a cancelled session ends.
- **daemon**: pid files written before the port is bound and removed without a check, pids of dead
  processes handed out again, zombies that look alive. Correct when the file names the daemon that serves, stop leaves
  none and restart brings one up.
- **request, config, detect**: three layers of configuration, three wire formats, arguments that user and daemon
  both contribute to. Correct when a CLI runs only if it was asked for and is enabled, with the arguments the daemon
  depends on intact, and the answer is the one of the run.

## Modules

### Facade: the orchestration layer

One set of actions per actor. Each access to something two goroutines share is one step; a
goroutine's private work is merged into the neighbouring step.

| actor | code | actions |
|---|---|---|
| `StartRun` of a request, `pc[r]` | facade.go:310-416 | Submit, EnterQueue, Acquire / QueueTimeout / CancelledWhileQueued, Dequeue, CountActive, ExecuteStarts / ExecuteFails, ReleaseAfterFailure, UncountAfterFailure, Refuse, Register, Spawn |
| `forwardEvents`, `fw[r]` | facade.go:662-789 | ReceiveMessage, PersistEvent, OfferEvent, MessagesClosed, AwaitResult, PersistResult, SendResult, Finalise, SaveSessionId, RecoverPanic, and one action per deferred call: CloseEvents, CloseDone, Unregister, CancelOnExit, ReleaseSlot, UncountActive |
| the adapter | backend.go:83-102 | AdapterEmits, AdapterReports, AdapterFinishes |
| the reader of Events | native.go:328-362, server.go:294-311 | Receive, SeeClosed |
| callers | | Disconnect, Expire, CancelRun |
| `GetRun` | facade.go:418-466 | GetRunRow, GetRunEvents, GetRunAgain |
| `serveStack` | cli.go:333-361, facade.go:524-541 | Shutdown, DrainEnds, CloseCancels, CloseReturns |

State: `sem`, `active`, `queued`, `live`, `cancelled` are the semaphore, the two counters, the map and the
done contexts. `inbox`, `result`, `events` are the contents of the channels Messages, Result and
Events; `closed` and `done` say which are closed. `row`, `log`, `sessions` are the rows of a run.
`lost` is a history variable, the runs of which a write has failed: properties of the store
except these. An event is its sequence number, its kind and, for a result, the status and
whether a session id came with it.

Timeouts are not measured: the queue timeout, `resultWaitTimeout` and `terminalSendTimeout` may
fire whenever what they wait for is not there yet, which covers every relation of their lengths. A crash has no action: nothing is done at start-up to
the rows of an earlier process, so what a crash at any instant leaves behind is exactly the stored
part of a reachable state, which SettledHasResult and TimelineIsWellFormed speak about (after a power cut, SQLite with
`synchronous=NORMAL` may fall back to an earlier one, by whole transactions in their order). For the same reason
the model need not let the process exit after `CloseReturns`: the store is closed, nothing durable changes.

### RunLifecycle: what the API promises

The abstract specification of a run: a status, a stored timeline and a live stream showing part of
it. `MCFacade` gives the refinement mapping (`status <- row`, `timeline <- log`, `stream <-` what the
reader has received and what waits for it, `over <- closed`) and TLC checks
`KeepsRunLifecycle`: each step of the facade creates, refuses, records, shows, settles or closes a run as
the API allows, or changes nothing the API shows. It holds when the store does not fail; with a
failing store the documented degradation (a run without history) is allowed. `IntactRunsKeepLifecycle`
(`FacadeTimelineProofs`) says which runs that concerns: with a store that may fail at every write and a shutdown
at any time, every run none of whose own writes has failed still keeps the life cycle, step by step.

### AdapterSession: the contract of an adapter

Messages until it is closed, exactly one value on Result, then its close. `Facade` assumes no more than
that of its adapters (it even allows a Result channel closed without a value), and `MCCodex` checks
that the codex session keeps it (`KeepsSessionContract`).

The comment of `Session` (backend.go:97-98) adds that Messages is closed *before* Result is sent; the codex
adapter does it the other way round, and emits while it drains. The contract therefore leaves the two channels
independent, and so does `Facade`.

### Codex: a session of the codex app server

| actor | code (`internal/adapter/codex.go`) | actions |
|---|---|---|
| lifecycle goroutine, `pc` | request 1058-1127, startOrResumeThread 867-915 | RefusedAtOnce, RegisterPending, WriteRequest, WriteFails, TakeReply, AwaitSeesExit, AwaitCancelled |
| | wait loop 738-824 | SeeTurnDone, SeeActivity, FirstTurnNoProgress, SemanticInactivity, SeeContextDone, SeeProcessDone |
| | deferred calls 665-668, drainAndWait 579-614 | Report, DrainReader, DrainForced, JoinReader, Reap, ReapForced, CloseResult, CloseMessages, CancelOnReturn |
| reader goroutine, `reader`, `todo` | handleLine 1198-1574, markProcessExited 1164-1180 | ReadLine, ApplyEffect, ReadResponse, SendReply, MarkProcessExited, ReaderReturns |
| context and process | 461, 485-491 | ContextEnds, ProcessStops, Killed |

A notification is its kind and whether it is about our thread. Only the raw dialect has the check of
codex.go:1421-1426: a legacy line (`codex/event`, 1327-1338, 1354-1418) is taken whichever thread it is about, and `Lines` has those of
other threads in both dialects. `Effects` says what its handler does to
the shared state, in order; each effect is one step. The app server is external: it answers each
request once or never, sends up to `MaxLines` notifications or requests (those of the turn only after turn/start),
in the legacy or the raw dialect or both, and may close stdout or die at any moment. Lines still in the pipe
may be read after its death. Approvals, which the client answers without changing its own state,
are left out, and so are token usage, the scan of the session logs and the MCP block of `config.toml` (for the
arguments see `Launch`). A write to stdin that blocks is not modelled: the kill unblocks it.

The history variables `ended` and `spoken` remember how the app server first ended a turn the client counts and how
much of its answer it had sent by then, `stray` whether that line was about another thread. `outcome.cause` names the case of the code that chose the
status (for a request, the kind of error it returned).

### StreamJson: the six line-oriented adapters

One module for all of them: `cli` says which one a behaviour is about, `Traits(cli)` where their goroutines differ
(does stdin stay open for control responses, are the pipes closed when the context is done, does a broken
stdout fail the run, ...), and `ClaudeLine` to `OpenclawLine` what each makes of a line.

| actor | code (claude.go as the example) | actions |
|---|---|---|
| `Execute`, then the reading goroutine, `pc` | 19-100 | WriteMcpConfig, StartProcess, StartFails |
| | 120-197 | ReadLine, AnswerControl, ControlFails, ScanEnds, ScanFails |
| | 199-251 and the deferred calls | WaitReturns, Report, CloseResult, CloseMessages, CancelOnReturn |
| prompt writer, `writer` | 112-119 | WritePrompt, WriteFails |
| context and its watcher | 136-141 | ContextEnds, CloseOnDone |
| the CLI | | ProcessStops, HelperLives, Killed |

A line is its kind and the session id it has. `seen` are the local variables of the scan; output and usage are
the sets of the lines they were taken from, which is enough to see a text lost or counted twice. `heard` is a history
variable. A CLI may close its stdout, stop reading, leave a descendant that keeps its pipes, and exit at any
moment. Messages sent while scanning are covered by `AdapterSession` (the channel is open until it is closed).

### Acp: the eight ACP CLIs

The driving goroutine is `pc`, the request it writes next `step`; `lock` is `acpStdin.mu`, taken, held during the
write and released in separate steps, since a write may block. `WatcherWakes`, `WatcherLocks`, `WatcherWrites` are
the goroutine that sends session/cancel. A server answers a request, in any order, announces whatever it
likes, and may send a *stray* response: a second one to the same request, one to a request not made yet, or a request of
its own, which the code takes for a response. `sent`, `unanswered`, `strays` and `told`
are history variables. Nothing bounds the number of lines but that of stray ones, `MaxStrays`, since each of them may make the
driver write; the state stays finite because only the kind of what was read is kept.

### Daemon: the pid file and those who use it

Processes by pid (`table`), the pid file, the listen address, and commands run from terminals. Every access to
one of them is a step, so two commands may interleave anywhere. `start` is check, fork, poll; `stop` is read, probe,
term, await, kill, unlink; restart, upgrade and uninstall continue after it. A daemon passes
check, writePid, boot, serve, drain, remove, and may crash in each. `platform` chooses daemon_unix.go or
daemon_windows.go: on unix an ended child is a zombie until its parent ends, and kill(pid, 0) finds it; on
windows CTRL+BREAK may not arrive. A pid a daemon left may be handed to another process, of the same user (`"foreign"`) or of
another one (`"alien"`): kill(pid, 0) fails with EPERM for the latter, which isRunning takes for not running
(daemon_unix.go:50-53).

`rushed` remembers that a command was begun while another, or a boot, was under way; `trouble` that a daemon
crashed or failed or a foreign process took a pid. The properties about the file are for commands given one after the
other: the code does not promise more (see the observations below).

### Launch and Request: one request from configuration to answer

`Launch` has no state: it is the configuration (defaults, file, environment), routing (catalogue, bare
names, defaults) and the argument builders of the adapters with their blocked flags, as functions. `Request` puts them in
the order of the code: the daemon starts, a request arrives, is authenticated, decoded, resolved, queued, launched;
the run emits messages into a bounded channel; the handler of one of the three APIs streams or collects it; the
client may leave at any time. `Facade` has the concurrency of a run; here it is one forwarder and one handler.

### How the modules compose

`MCFacade`, `MCStreamJson`, `MCAcp` and `MCCodex` instantiate an abstract specification with a refinement mapping:
the adapters implement `AdapterSession`, which is what the adapter's actions of `Facade` allow, and `Facade` implements
`RunLifecycle`. `Request` EXTENDS `Launch`.

## Runs

| run | question | instance | result |
|---|---|---|---|
| `timeline` | Are slots, stored timeline, stream and status consistent at every instant? Does the facade implement RunLifecycle? | 2 runs, 1 slot, buffers of 1, up to 2 messages each | holds |
| `live` | Does every request get an answer, and every cancelled run end once its adapter is done? | 2 runs, 1 slot, buffers of 1, no messages, fairness | holds |
| `answers` | Do answers and shutdown hold up with a failing store, a concurrent GetRun and SIGTERM at any time? | 1 uncapped run, buffers of 4 and 2, 2 messages | holds |
| `drop` | Is a message dropped by trySend missing from the stream only? | 1 run, Messages of 1 | violated |
| `exit` | Does Close leave no forwarder at work? | 2 runs, 1 slot, shutdown | violated |
| `codex` | Can the two goroutines of a codex session block, panic or mislead each other? | 3 notifications, activity channel of 1 | holds |
| `codex_cancel` | Is a cancelled run reported as cancelled? | 1 notification | violated |
| `codex_silent` | Does a session whose app server falls silent end? | 1 notification | violated |
| `stream` | Does each of the six line adapters report what its CLI wrote, clean up, and end when cancelled? | any 2 lines, resumed, MCP file, fairness | holds |
| `acp` | Is the ACP handshake in order and the verdict justified, and do driver and watcher end? | any number of lines, 1 stray response, resumed, MCP file, fairness | holds |
| `daemon` | Does the pid file name the daemon that serves, does stop leave none, does restart serve? | 2 terminals, 2 pids, all 5 verbs, both platforms, fairness | holds |
| `request` | Is a request refused or run as configured, launched with the right arguments, answered faithfully? | 8 files, 5 environments, 3 APIs, 9 models, 3 messages, channel and cap of 2 | holds |

What the properties say is stated beside each of them. The ones a reader should know:

- `SlotAccounting`, `CapRespected`, `NothingLeaks`: the semaphore holds one token per run that owns a slot,
  never more sessions than the cap are in progress, and at the end everything is back to zero and every
  run's context cancelled.
  `active` itself may exceed the cap for an instant, because the token is taken out before the counter
  is decremented (facade.go:641-646) and a woken request counts itself in between; the
  comment on ConcurrencyStatus ("runs currently holding a slot") is that much too strong.
- `SettledHasResult`, `FinalStatusIsFinal`, `ClosedMeansFinalised`, `FinalAnswerIsComplete`: a final status
  is written once, after the stored result that announces it, before the stream closes, and GetRun
  never shows it without that result although it reads two tables.
- `ReaderGetsResult` holds where the buffer has room for the whole run. With a reader that
  stalls longer than `terminalSendTimeout` the stream closes without a result (and buildRunResult
  then says "completed"); that is documented as a fallback and the property is checked on an instance where
  the buffer cannot fill.
- `CancelledRunEnds`: the forwarder of a cancelled run exits, or its adapter never closes Messages. Nothing else can hold it, neither
  a reader that stalls nor a store that fails; what an adapter owes here is its own module's business (see Fairness).
- `CloseFinalises`, `ShutdownEnds`: the runs Close knew of have made their last write when the store closes, and
  the shutdown ends, unless the adapter of a cancelled run never closes Messages: Close itself has no bound.
- `VerdictFollowsTurn`, `AnswerIsReported`: what codex reports is the first end of the turn, no success if that was a failure,
  with the whole text sent before it. In the raw protocol that end is our own thread's. In the legacy one
  the code does not look, and the property only says that a subagent's line can end our turn there and nowhere else.
- `MessagesOutliveReader`, `ReaderNeverBlocks`: no send on a closed channel, no send that blocks under the
  client's lock.

- `VerdictIsJustified` (line adapters and ACP): "completed" needs exit status zero and no failure told or seen,
  "failed" needs one, and a cancellation is never blamed on the CLI nor the reverse.
- `ReportFollowsStream`: text and tokens that a result line repeats count once, and an empty result line
  loses neither.
- `HandshakeInOrder`: initialize, the session request and the prompt are written once and in this order, whichever
  responses come when, up to the first stray one. Each stray response accounts for two more requests at most.
- `PidFileNamesServer`, `StoppedMeansGone`, `RestartServes`: what the three commands are for, with stale files,
  reused pids, crashes and daemons that ignore SIGTERM.
- `OwnedFlagsAreOurs`, `RunsAsConfigured`, `AnswersAreFaithful`: arguments, routing and refusals, and the three wire
  formats, each against a definition written from what they are for and not from the code's order of steps.
  `OwnedFlagsAreOurs`: no reserved flag of the user's reaches a CLI, whatever the options look like; that the others
  arrive in order and with their values is said of lists whose reserved options have the value they take (`WellFormed`), since
  filterCustomArgs drops the neighbour of one that lacks it. Which agents read `extra_args` is left open where code and
  documents differ. `RunsAsConfigured` leaves open, for the same reason, whether a compatible API answers a
  queue timeout with 502 or 503, and whether the native API refuses a bare model name. `AnswersAreFaithful` demands
  the whole text of a run without output up to the cap of collectEvents, and at least the text of the first `CollectCap` events
  beyond it. Each of these differences is listed below.

### Disagreements found

1. `drop`: backend.go:83-85 says of a message dropped on a full channel that "only streaming
   consumers are affected". The forwarder feeds the store from that very channel, so the message is
   missing from the replay timeline as well.
2. `exit`: facade.go:524-526 says Close waits for all forwarders. A request still in StartRun when Close
   collects the live map (its slot may even be freed by Close's own cancellations) starts its run
   afterwards, un-cancelled and un-awaited, against a closed store.
3. `codex_cancel`: docs/cli.md:161 says that SIGINT ends a run as `cancelled`. During the codex handshake the
   cancellation takes an early failure path that reports `failed`; a deadline there is `failed` too,
   not `timeout`.
4. `codex_silent`: codex.go:55-57 says the inactivity timeout bounds a run without progress, and
   backend.go:72-73 leaves a run without a deadline to that watchdog alone. It is armed only after turn/start has
   been answered: an app server silent before that is waited for without end, with its slot.

### Observations without a run

Met while modelling; the modules follow the code in each case.

Configuration and requests:

- config.go:60-66, config.go:257-260, facade.go:275 and README.md:16 say that an omitted
  `max_concurrent_runs` becomes 8 because Defaults sets -1. Defaults leaves it 0, which Validate keeps: the default is no
  cap. `Normalised` has it as the code does.
- `queue_timeout_ms: 0` becomes 60000, although config.go:68 first says that 0 waits without limit.
- An agent block in the file that leaves out `enabled` disables the agent, since the backfill adds only
  agents that are missing altogether.
- A bare model name resolves to the first CLI of the catalogue that lists it, enabled or not; the request then fails
  although another enabled CLI has the model.
- Model ids with a further "/" are listed for opencode, but ParseModelName rejects their four segments.
- The OpenAI and Anthropic APIs answer a queue timeout with 502 (openai.go:134-153, anthropic.go:92-111); README.md:16 and
  README.md:39 promise 503 with Retry-After.
- The native API refuses a bare model name with 502: only the compatible APIs call resolveModel, and ParseModelName wants three
  segments. docs/api.md:62 and docs/api.md:449 say it is accepted there.
- `extra_args` is read by qwen (qwen.go:660), gemini (gemini.go:388), codebuddy (codebuddy.go:706) and the ACP agents (acp.go:1021)
  besides claude and codex, and ignored by opencode and openclaw; backend.go:41 and docs/configuration.md:48 name claude and codex
  only.
- Custom arguments of the configuration that end in a blocked flag without its value swallow the first argument of the request,
  because both lists are filtered as one (facade.go:610-612, helpers.go:118-135), although the comment at facade.go:594 lets the
  request win.
- collectEvents keeps 10000 events and the result (native.go:346-356). A longer run without output is therefore answered
  with a text cut off there, while docs/api.md:280, openai.go:332-335 and anthropic.go:249-252 say that all text
  events are concatenated.
- Messages without a user role start a run with an empty prompt.

Adapters:

- ACP: any line with an id is taken for the response with that number (acp.go:650-681), also a request of the server, which the
  comment at acp.go:196-197 calls tolerated. A second line with id 2 sends session/prompt again, an early one sends
  it before there is a session, one with id 1 repeats the session request. End of file before the prompt with exit status 0 is
  "completed". What session/load replays counts as the answer.
- A descendant that keeps stdout keeps the readers of qwen, codebuddy, opencode and ACP after a cancellation: on
  unix only the process itself is killed (proc_other.go). `DoneContextEndsSession` names this exception. The run then keeps its slot
  after the cancellation, and `Facade.Close`, which waits for every live run without a bound (facade.go:524-541), does not
  return: `CancelledRunEnds` and `ShutdownEnds` name it in turn. One
  that keeps stderr makes a run with exit status 0 "failed".
- Codex: the check that only our thread drives the turn, which codex.go:1421-1424 explains with subagents that share the
  pipe, is in handleRawNotification alone. A legacy event of a subagent (codex.go:1327-1338, 1354-1418) ends our turn with its
  task_complete or turn_aborted, and its agent_message goes into our output.

Daemon:

- isRunning takes a process of another user for none (EPERM, daemon_unix.go:50-53), so a stale pid file whose pid was handed to one
  is overwritten by start, while one of the same user makes start report a daemon that is not there.
- The daemon that loses a race between two starts removes the winner's pid file when it exits (daemon.go:240); after that stop
  finds nothing to stop.
- daemon.go:207: on unix a child that has exited is a zombie of start, and looks alive, so "bail out early" never
  happens. A stale pid file makes start report the dead pid.
- stop waits as long as serveStack lets the HTTP server drain (10 s), then uses SIGKILL: a shutdown that also
  has runs to finalise is cut off in the middle of it, which SettledHasResult covers.
- upgrade and uninstall call runStop without the `--config` they were given. The `pkill -f aiclibridge` of uninstall ends
  the uninstaller itself before it removes anything.

### Bounds, and why they are enough

Two runs and one slot are the smallest instance with competition: a queued request, a release
that wakes it, both error paths. More runs only repeat pairs of them, and the slot theorems hold for any number.
Buffers of one make every full and every empty case happen at once. Two messages distinguish order,
loss and repetition. `answers` has one run because its properties are about a run on its own, and no cap so that
the path without a semaphore is exercised; store failures, shutdown and polling are
switched on only there (`StoreFaults`, `MayShutDown`, `MayPoll`), as they multiply the states. Runs are
interchangeable, hence the symmetry of `timeline`; runs with liveness use none. For codex three
notifications are what it takes to start a turn, end it, and contradict that end; the activity
channel of one makes drops happen.

`stream`: two lines are what repetition, replacement and contradiction need (a text, then a result with or without
text; an error, then a result), and each adapter meets every pair of them with every end of process, pipe and
context. `Resume` and `GivesMcp` are TRUE since the other values only remove steps. `acp` has no bound on the lines but
one: a single stray response (`MaxStrays`), which is enough to repeat any step of the handshake. `daemon`: two terminals suffice for every overlap of two
commands and two pids for a stop and a start at once or a reused pid; after the first overlap no further command is begun
(`rushed`), which only cuts states the properties do not speak about. `request`: `MCFiles` and `MCEnvironments` have one
case for each branch of Load, Validate and the overrides; `copilot` stands for the eight ACP agents and `droid` for the four
stubs, which the code treats alike; a request sets all options of the agent or none (`full`); openclaw uses its
gateway exactly in the first case; the cap on collected events is 2 with 3 messages, so that runs end below, at and beyond it; options are one
reserved with and one without a value and a free one, in every spelling, also with the value missing, given by configuration and
request. A key matters to authentication alone, so that only some requests are also sent without one.

### Fairness

Go schedules every runnable goroutine and fires every armed timer, and a process whose
context is done gets SIGKILL (exec.CommandContext, cmd.Cancel) and so closes its pipes: weak fairness of
`StartRun`, `ForwardEvents`, the server's shutdown, the lifecycle and the reader's internal steps, and of the
end of a killed process. Nothing is assumed of a live CLI (it may be silent for ever), of the reader of
the stream (it may stall), of callers (they need not cancel), nor of the arrival of SIGTERM.
`Facade` assumes nothing of its adapter, not even that a cancelled one closes Messages, because not every adapter can promise it:
codex kills its process group (codex.go:485-491) and claude, gemini and openclaw close their ends of the pipes when the context is
done, but the readers of qwen, codebuddy, opencode and ACP wait for the end of a pipe that a descendant of the CLI may hold. So CancelledRunEnds and
ShutdownEnds have the adapter that stays at work for ever as their other outcome, and CancelledSessionEnds (`Codex`) and
DoneContextEndsSession (`StreamJson`, `Acp`) say when that outcome is ruled out.
The same fairness is assumed of the line adapters and ACP, where a write to a broken pipe and a read from a closed one return as well; nothing makes
a CLI read, write or exit before its context is done, nor a descendant of it end. Commands and daemons
make progress, the waits of the commands are bounded by clocks, and init reaps; nobody has to begin a command.
With `MaxLines` notifications an app server falls silent eventually, which is the case StartedTurnEnds is about.

## Proofs

Eight modules, each about every value of the constants. None assumes more than the named ASSUME of its module, except
where said.

`FacadeProofs`, from `FacadeAssumption` (finitely many runs, natural capacities, results of the declared type):

- `TypeCorrect`: Spec => []TypeOK. TypeOK is not inductive: the status written to the row is that
  of the event in hand, so `ResultInHand` adds that this event has a final status whenever the forwarder
  is about to use it. `TypeInv` is the conjunction.
- `SlotsAccounted`: Spec => []SlotAccounting. The semaphore is an integer and the holders are a set, so a step that
  moves one run into or out of `Holders` must change the cardinality by exactly one, and nobody
  else may be affected. `Ownership` therefore adds `ForwarderStarted` (a forwarder is at work only once
  StartRun has returned), `ReleasedIsPast` (a run whose slotOnce has fired is past its holding steps, so
  that it cannot take or free a second slot), `SessionInProgress` (a running session belongs to a run
  between Execute and the end of its forwarder's receive loop) and `PanicHasNoSession`.
- `CapHolds`: Spec => []CapRespected, from SlotAccounting, SessionInProgress and the capacity of the semaphore:
  the running sessions are a subset of the holders.

`FacadeTimelineProofs`, first six theorems: StreamedIsStored, TimelineIsWellFormed, SettledHasResult,
ClosedMeansFinalised, SlotOutlivesRun and FinalStatusIsFinal. `TimelineInv` says of each run which event its
forwarder has in hand (`InHand`: its number and kind), how many events have gone through the store and through the stream at
this position (`Stored`, `Offered`), that log, stream and what was received are numbered below that, and
which of row, session and channels are final from which position on. The theorems are then readings of it at the
positions they speak about; a step changes one run's share only, which one lemma says for all the others.

Then the refinement of RunLifecycle. `LifecycleInv` adds to TimelineInv the counting that bounds the sequence numbers (`Counted`:
what a run has numbered, and what waits in its channel, its CLI has emitted), and each action is mapped to the abstract step of
the run it moves, or to a stutter of it; `NotItsStep` says of every other run that nothing of it changes.

- `IntactRunsKept`: Spec => IntactRunsKeepLifecycle, without a hypothesis. The exemption of a run begins with the step in
  which a write of its own fails, hence `Runs \ lost'`.
- `LifecycleIsKept`: if the store does not fail and nobody shuts the daemon down (`~StoreFaults`, `~MayShutDown`, as in the
  run), Spec => KeepsRunLifecycle. It follows, since `lost` then stays empty.

`FacadeAnswerProofs`: `NothingIsLeft`, `AnswersAreComplete`, `CloseWaits`. `AnswerInv` adds that the context of a run that is over has been
cancelled (`ContextOver`: each way out of StartRun and of the forwarder passes a cancel), that the counters are the
cardinalities of the sets of requests they count (`Counters`), that a status GetRun has read is still the run's (`Seen`, by
FinalStatusIsFinal) and what the server has waited for (`Waited`). `ReadersGetTheResult` is ReaderGetsResult under
`EventsBuffer >= MaxMessages + 2`, the room a whole run can need: its messages, one error and its result. `RoomInv` bounds what
is in the buffer by what the CLI has emitted, so that the offer of the result never finds it full. Without the
hypothesis the property is false (see above), so it cannot be dropped.

`CodexProofs`, for any number of notifications:

- `ReaderIsNeverBlocked`: Spec => []ReaderNeverBlocks. `RequestInv` adds that only the current request is pending
  (`OnePending`), that requests not made yet have left no trace (`NotYetMade`, which covers the fallback from
  thread/resume to thread/start) and that an answer in hand is the only one its request gets
  (`AnsweredOnce`).
- `ReaderNeverPanics`: Spec => []MessagesOutliveReader, from the positions of the lifecycle past the two joins of
  drainAndWait (`JoinInv`).
- `TypeCorrect`, `VerdictsFollowTurns`, `AnswersAreReported`. `TurnInv` lists the plans of effects a line may leave the
  reader with (`Plans`) and relates what is left of one to the signal in turnDone, to what the app server said first and
  to how many texts were read: a text is always applied before the signal of the same line, which is the fact
  AnswerIsReported stands on. Whose line ended the turn is `stray`; that it is another thread's only if the protocol is
  legacy is an invariant of its own (`StrayIsLegacy`), since `Ours` lets no raw line of another thread through.
- `SessionContract`: Spec => KeepsSessionContract, with `Channels` (which of the three calls on the channels have been made).

`StreamJsonProofs` and `AcpProofs`: `TypeCorrect`, `VerdictsAreJustified`, `SessionContract`, and `NothingIsLeaked` and
`HandshakeIsOrdered` respectively. `SeenExplained` ties the status held while scanning to what was heard, `Progress` the
position to process, exit status and pipes, `Channels` as above. For the order of the handshake `Ordered` says, until the first stray response, that what was
sent is a prefix of the three requests that the next step continues, and that unanswered ids are those of
requests sent. `Bounded` holds whatever is read: it weighs what was sent with what the requests still unanswered can bring
about (`Weigh`, `ToCome`), a sum that only a stray response increases, by two at most.

`ReportsFollowTheStream` (`StreamJsonProofs`), for streams of any length: `StreamFollowed` says while scanning what the theorem says of the
Result, that output and usage are those of the last result line and of the lines after it, adapter by adapter
(`openclaw` adds up, and its log lines are the output only if nothing else came). Each line extends the history by one, and the last result line of
the longer history is either that line or the one before.

`DaemonProofs`: `TypeCorrect`, `ServerIsNamed`, `StopLeavesNone`, for any number of pids and terminals. `Calm` holds as
long as nothing was rushed: one command at a time (`OneCommand`), one daemon alive (`OneDaemon`), which is named by the file
from writePid on (`Named`), and a command meets a daemon only at the stages where it may (`Meets`). When a second command
begins, `rushed` becomes true and Calm says nothing more.

`RequestProofs`, from `RequestAssumption` (there is one configuration file or none and its `enabled` flags are booleans, as the
YAML decoder makes sure; requests have the declared types; the cap on collected events is natural) and `OptionsAssumption`, which only types the options: any name, any
spelling, with a value or without one:

- `AnswersFaithful`: Spec => []AnswersAreFaithful, for runs of any length, channels and caps of any size. `ChannelInv` says that what was
  sent is what the handler has taken followed by what is in the channel, that a result is the last, and that nothing is sent before
  the CLI runs; `AnswerSoFar` that a stream consists of the opening frames and the frames of what was taken, and a collection of what was
  taken, cut at the cap but for the result. For a collected answer `CollectedIsEnough` adds that its status and output can be read
  off the collection, and its text too if no more than `CollectCap` events were sent; beyond that the collection has the text of
  the first `CollectCap` of them.
- `OnlyAsConfigured`: Spec => []RunsAsConfigured, for any file, environment and request. `RouteInv` ties the configuration of the
  process to file and environment (`ConfigHeld`) and the position of the handler to the checks it has passed (`Progress`). The
  catalogue of CLIs is the constant of the code; that the search for a bare name or for the default ends at the first
  agent listed is proved with the least element of a set (`LeastOf`, `FirstPlace`).
- `FlagsStayOurs`: Spec => []OwnedFlagsAreOurs, for every list of options in every spelling. `LaunchInv` is short (the
  command line is the builder's, of options of that CLI). The work is in the lemmas: filterCustomArgs, whatever it is
  given, leaves no reserved flag (`FilterLeaves`, `FilteredLeaves`), and passes a well-formed list's
  options that are not reserved, in their order, with their values (`FilteredOnce`, `FilteredTwice`, from one option:
  `ReadOption`); each builder lays them between flags of its own, none of which occurs twice (`UsualArgs`, `CodexArgs`,
  `OpencodeArgs`, `OpenclawArgs`, together `ArgsOwned`).

The library's induction theorems take a predicate as a parameter and cannot be used; `NatSetInduction` and `SeqSetInduction` state induction
for a *set* of numbers or sequences, which is enough for every property of a definable set and is proved from the library's
theorem on finite sets. `Recursion` and `FlattenAppend` derive from it what the folds and recursive functions
of the model compute.

Two slips of the model came to light when a step of these proofs failed: `Wanted` accepted a model name with an empty segment, which
ParseModelName rejects, and the condition on texts looked beyond the end of what was sent. Both are corrected.

Only model-checked: the liveness properties (StartRunReturns, CancelledRunEnds, ShutdownEnds, CancelledSessionEnds, StartedTurnEnds,
DoneContextEndsSession of both adapters, RestartServes), which are outside the prover's reach. Every invariant and every action
property of a passing run is a theorem. `IntactRunsKeepLifecycle` is the reverse: it is proved and is not a property of a run of its own.

## Not modelled

- **Store**: migrations and their re-run after an interruption, usage columns and statistics. There is one migration, applied and
  recorded in one transaction (store.go:231-243), and a shortcut that records it for a database that has its column; usage
  totals are sums.
- **HTTP API, cli**: endpoints and commands that only read and print.
- **Codex**: approvals (answered without a change of state), token usage, the scan of the session logs, the MCP block of
  `config.toml`: data and file I/O.
- **Detect**: the look-up on PATH and probing of versions and models; the catalogue is taken as built in.
- **Pricing and statistics**: floating-point sums over a table, read-only.
- **Self-update**: one process comparing versions, downloading and renaming; it shares no state with the daemon except
  the binary, whose absence `Daemon` has (`installed`).
- **Everywhere**: wording, formatting, logging; the lengths of timeouts (any may fire while what it waits for is not
  there).

## What could come next

The steps of uninstall that remove data while a daemon may still run; overlapping commands of `Daemon`, once the pid file is guarded by the code.
