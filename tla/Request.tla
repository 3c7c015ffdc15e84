------------------------------ MODULE Request ------------------------------
(***************************************************************************)
(* One request on its way through the daemon: the configuration it was     *)
(* started with, authentication, decoding, routing, the queue, the launch  *)
(* of the CLI, and the answer the handler of the native, the OpenAI or the *)
(* Anthropic API makes of the run's events (internal/api, and of           *)
(* internal/facade what Facade leaves out). What is decided on the way is  *)
(* computed by the operators of Launch.                                    *)
(***************************************************************************)
EXTENDS Launch, FiniteSets

CONSTANTS
  Files,          \* config files, as sets of at most one
  Environments,   \* the AICLIBRIDGE_ variables
  Asks,           \* the requests a client may make
  OptionsOf(_),   \* the options config and client may pass to a CLI
  MaxMessages,    \* bound: messages of one run
  EventsBuffer,   \* eventsChanBuffer
  CollectCap      \* maxCollectEvents

\* There is one file or none, and what it says of an agent is yes or no.
ASSUME RequestAssumption ==
  /\ \A files \in Files :
       /\ \A f, g \in files : f = g
       /\ \A f \in files : \A m \in f.agents : m \in [DOMAIN m -> BOOLEAN]
  /\ \A a \in Asks : /\ a.api \in {"native", "openai", "anthropic"} /\ a.stream \in BOOLEAN
                     /\ a.model \in Seq(STRING)
  /\ CollectCap \in Nat

\* Whether an option needs a value or not, it may come with one or without.
ASSUME OptionsAssumption ==
  \A cli \in Known :
    OptionsOf(cli) \subseteq
      [name : STRING, style : {"separate", "inline", "alone"}, quoted : BOOLEAN]

VARIABLES
  given,    \* what the daemon was started with: [files, env]
  cfg,      \* the Config it made of that
  ask,      \* the request
  pc,       \* where the handler is
  target,   \* the agent and model it is routed to, a set of at most one
  opts,     \* ExecOptions, until Execute returns
  argv,     \* the arguments of the CLI, until Execute returns
  hitch,    \* why StartRun gave up, if it did after routing
  run,      \* the forwarder: "none", "running", "ended", "closed"
  ctx,      \* the run's context: "live" or "done"
  emitted,  \* messages the run has emitted
  chan,     \* RunHandle.Events
  sent,     \* history: every event that went into it
  got,      \* the slice of collectEvents
  status,   \* the status line of the answer, 0 before it is written
  wire,     \* what the client has received
  client    \* "here" or "gone"

startVars  == <<given, cfg, ask>>
routeVars  == <<target, hitch>>
launchVars == <<opts, argv>>
runVars    == <<run, emitted, sent>>
answerVars == <<got, status, wire>>
vars == <<startVars, pc, routeVars, launchVars, runVars, ctx, chan, answerVars, client>>

-----------------------------------------------------------------------------
(* The daemon starts and the request arrives. *)

\* loadConfig and Validate: without a valid configuration there is no daemon.
StartDaemon(files, env) ==
  /\ pc = "load"
  /\ given' = [files |-> files, env |-> env]
  /\ LET c == Load(files, env)
     IN /\ pc' = IF Valid(c) THEN "serve" ELSE "exited"
        /\ cfg' = IF Valid(c) THEN Normalised(c) ELSE c
  /\ UNCHANGED <<ask, routeVars, launchVars, runVars, ctx, chan, answerVars, client>>

Arrive(a) ==
  /\ pc = "serve"
  /\ ask' = a /\ pc' = "auth"
  /\ UNCHANGED <<given, cfg, routeVars, launchVars, runVars, ctx, chan, answerVars, client>>

requestLeaves == <<startVars, launchVars, runVars, ctx, chan, got, client>>

\* writeError: what a client that is gone gets does not matter.
Refuse(code) ==
  /\ pc' = "refused" /\ status' = code
  /\ wire' = Append(wire, [frame |-> "error"])

Proceed(next) == pc' = next /\ UNCHANGED <<status, wire>>

\* authMiddleware: without a configured key everybody may pass.
Authenticate ==
  /\ pc = "auth"
  /\ IF cfg.key \in {"", ask.key} THEN Proceed("decode") ELSE Refuse(401)
  /\ UNCHANGED <<routeVars, requestLeaves>>

Malformed  == ask.body = "malformed"
InvalidCwd == ask.api = "native" /\ ask.body = "badCwd"
NoMessages == ask.api # "native" /\ ask.body = "noMessages"

\* decodeJSON, then for the native API validateCwd, for the others the messages.
Decode ==
  /\ pc = "decode"
  /\ IF Malformed \/ InvalidCwd \/ NoMessages THEN Refuse(400) ELSE Proceed("resolve")
  /\ UNCHANGED <<routeVars, requestLeaves>>

\* resolveModel is for the compatible APIs only.
Resolve ==
  /\ pc = "resolve"
  /\ LET names == IF ask.api = "native" THEN {ask.model} ELSE ResolveModel(ask.model)
     IN IF names = {} THEN Refuse(404) /\ UNCHANGED target
        ELSE target' = ResolveRoute(Or(names, <<>>), Adapters(cfg)) /\ Proceed("route")
  /\ UNCHANGED <<hitch, requestLeaves>>

-----------------------------------------------------------------------------
(* StartRun *)

Route == CHOOSE r \in target : TRUE

FindAdapter ==
  /\ pc = "route"
  /\ IF target # {} /\ Route.cli \in Adapters(cfg) THEN Proceed("queue") ELSE Refuse(502)
  /\ UNCHANGED <<routeVars, requestLeaves>>

Acquire ==
  /\ pc = "queue"
  /\ Proceed("options")
  /\ UNCHANGED <<routeVars, requestLeaves>>

\* Only the native API tells a full queue from the other failures.
QueueTimeout ==
  /\ pc = "queue" /\ cfg.max > 0
  /\ hitch' = "queue"
  /\ Refuse(IF ask.api = "native" THEN 503 ELSE 502)
  /\ UNCHANGED <<target, requestLeaves>>

CancelledWhileQueued ==
  /\ pc = "queue" /\ cfg.max > 0 /\ client = "gone"
  /\ hitch' = "cancelled"
  /\ Refuse(502)
  /\ UNCHANGED <<target, requestLeaves>>

executeLeaves == <<startVars, target, runVars, ctx, chan, got, client>>

\* An option as the tokens of a command line.
Tokens(o) ==
  CASE o.style = "separate" ->
         <<[text |-> o.name, role |-> "flag", quoted |-> o.quoted],
           [text |-> "a value", role |-> "value", quoted |-> o.quoted]>>
    [] o.style = "inline" -> <<[text |-> o.name, role |-> "pair", quoted |-> o.quoted]>>
    [] o.style = "alone"  -> <<[text |-> o.name, role |-> "flag", quoted |-> o.quoted]>>

UpToOne(S) == {<<>>} \cup {<<x>> : x \in S}

\* buildExecOptions: the agent's own custom args, then those of the request, which
\* only the native API takes.
BuildExecOptions ==
  /\ pc = "options"
  /\ \E extra, base, custom \in UpToOne(OptionsOf(Route.cli)), full \in BOOLEAN :
       /\ custom # <<>> => ask.api = "native"
       /\ opts' = [extra |-> extra, custom |-> base \o custom, full |-> full]
  /\ Proceed("execute")
  /\ UNCHANGED <<hitch, argv, executeLeaves>>

StubFails ==
  /\ pc = "execute" /\ Route.cli = "droid"
  /\ hitch' = "stub" /\ opts' = <<>>
  /\ Refuse(502)
  /\ UNCHANGED <<argv, executeLeaves>>

\* The CLI is started with its arguments.
Launch ==
  /\ pc = "execute" /\ Route.cli # "droid"
  /\ argv' = Args(Route.cli, opts.full, FlattenSeq([i \in DOMAIN opts.extra |-> Tokens(opts.extra[i])]),
                  FlattenSeq([i \in DOMAIN opts.custom |-> Tokens(opts.custom[i])]))
  /\ Proceed("launched")
  /\ UNCHANGED <<hitch, opts, executeLeaves>>

ExecuteFails ==
  /\ pc = "launched"
  /\ hitch' = "execute" /\ opts' = <<>> /\ argv' = <<>>
  /\ Refuse(502)
  /\ UNCHANGED executeLeaves

ExecuteReturns ==
  /\ pc = "launched"
  /\ opts' = <<>> /\ argv' = <<>>
  /\ run' = "running"
  /\ pc' = IF ask.stream THEN "lead" ELSE "collect"
  /\ UNCHANGED <<startVars, routeVars, emitted, sent, ctx, chan, answerVars, client>>

-----------------------------------------------------------------------------
(* The run as its handler sees it: events on a bounded channel. Kinds of      *)
(* message the APIs treat alike are left out.                                 *)

Kinds == {"text", "thinking", "log"}

Emission(kind) == [kind |-> kind, n |-> emitted + 1]
ResultEvent(s, output) == [kind |-> "result", status |-> s, output |-> output]

forwarderLeaves == <<startVars, pc, routeVars, launchVars, ctx, answerVars, client>>

\* trySendEvent: dropped when the buffer is full.
Emit(kind) ==
  /\ run = "running" /\ emitted < MaxMessages
  /\ emitted' = emitted + 1
  /\ IF Len(chan) < EventsBuffer
     THEN chan' = Append(chan, Emission(kind)) /\ sent' = Append(sent, Emission(kind))
     ELSE UNCHANGED <<chan, sent>>
  /\ UNCHANGED <<run, forwarderLeaves>>

\* The result is sent when there is room for it, or given up after a timeout.
SendResult(s, output) ==
  /\ run = "running" /\ (s = "cancelled" => ctx = "done")
  /\ IF Len(chan) < EventsBuffer
     THEN /\ chan' = Append(chan, ResultEvent(s, output))
          /\ sent' = Append(sent, ResultEvent(s, output))
     ELSE UNCHANGED <<chan, sent>>
  /\ run' = "ended"
  /\ UNCHANGED <<emitted, forwarderLeaves>>

CloseEvents ==
  /\ run = "ended"
  /\ run' = "closed"
  /\ UNCHANGED <<emitted, sent, chan, forwarderLeaves>>

-----------------------------------------------------------------------------
(* Answers in frames, one write each *)

NativeFrames(ev) == <<[frame |-> "event", of |-> ev]>>

\* openAIChunkFromEvent
OpenAIFrames(ev) ==
  IF ev.kind \in {"text", "thinking"} THEN <<[frame |-> "chunk", of |-> ev]>> ELSE <<>>

AnthropicFrames(ev) == IF ev.kind = "text" THEN <<[frame |-> "delta", of |-> ev]>> ELSE <<>>

Frames(api, ev) == CASE api = "native"    -> NativeFrames(ev)
                     [] api = "openai"    -> OpenAIFrames(ev)
                     [] api = "anthropic" -> AnthropicFrames(ev)

Marks(names) == [i \in DOMAIN names |-> [frame |-> names[i]]]

LeadFrames(api) ==
  CASE api = "native"    -> <<>>
    [] api = "openai"    -> Marks(<<"role">>)
    [] api = "anthropic" -> Marks(<<"message_start", "content_block_start">>)

\* Written when the channel is closed, whatever became of the run.
LastFrames(api) ==
  CASE api = "native"    -> <<>>
    [] api = "openai"    -> Marks(<<"stop", "[DONE]">>)
    [] api = "anthropic" -> Marks(<<"content_block_stop", "message_delta", "message_stop">>)

handlerLeaves == <<startVars, routeVars, launchVars, runVars, client>>

\* A write to a client that is gone is lost, and may be seen to fail.
Write(frames) == wire' = IF client = "here" THEN wire \o frames ELSE wire

\* The headers and what comes before the first event.
Lead ==
  /\ pc = "lead"
  /\ status' = 200 /\ Write(LeadFrames(ask.api))
  /\ pc' = "stream"
  /\ UNCHANGED <<ctx, chan, got, handlerLeaves>>

StreamEvent ==
  /\ pc = "stream" /\ chan # <<>>
  /\ Write(Frames(ask.api, Head(chan)))
  /\ chan' = Tail(chan)
  /\ UNCHANGED <<pc, ctx, got, status, handlerLeaves>>

StreamEnds ==
  /\ pc = "stream" /\ chan = <<>> /\ run = "closed"
  /\ Write(LastFrames(ask.api))
  /\ pc' = "answered"
  /\ UNCHANGED <<ctx, chan, got, status, handlerLeaves>>

\* A failed write, or r.Context().Done() in the select of any of the loops: no
\* answer, and the run is cancelled. The event taken from the channel is lost.
SeeClientGone ==
  /\ pc \in {"lead", "stream", "collect"} /\ client = "gone"
  /\ chan' \in {chan} \cup (IF chan = <<>> THEN {} ELSE {Tail(chan)})
  /\ pc' = "left" /\ ctx' = "done"
  /\ UNCHANGED <<answerVars, handlerLeaves>>

-----------------------------------------------------------------------------
(* Answers in one piece *)

\* Mutant: at the cap everything is dropped, the result with it.
KeptUpToCap(ev) == Len(got) < CollectCap

Kept(ev) == Len(got) < CollectCap \/ ev.kind = "result"

\* collectEvents
Collect ==
  /\ pc = "collect" /\ chan # <<>>
  /\ got' = IF Kept(Head(chan)) THEN Append(got, Head(chan)) ELSE got
  /\ chan' = Tail(chan)
  /\ UNCHANGED <<pc, ctx, status, wire, handlerLeaves>>

IsResult(ev) == ev.kind = "result"

\* The result among the collected events; without one the zero values, and
\* "completed".
ResultOf(events) ==
  IF \E i \in DOMAIN events : IsResult(events[i])
  THEN events[SelectLastInSeq(events, IsResult)] ELSE ResultEvent("completed", FALSE)

OfKinds(events, kinds) ==
  FlattenSeq([i \in DOMAIN events |-> If(events[i].kind \in kinds, <<events[i]>>)])

aggregateText(events) == OfKinds(events, {"text"})

\* The events whose text the client gets: the result, if it has an output.
ContentOf(events) == IF ResultOf(events).output THEN <<ResultOf(events)>> ELSE aggregateText(events)

buildRunResult(events) ==
  [frame |-> "run", status |-> ResultOf(events).status, output |-> ResultOf(events).output,
   events |-> events]

buildOpenAICompletion(events) ==
  [frame |-> "completion", content |-> ContentOf(events),
   finish |-> IF ResultOf(events).status = "completed" THEN "stop" ELSE ResultOf(events).status]

buildAnthropicMessage(events) ==
  [frame |-> "message", content |-> ContentOf(events), finish |-> "end_turn"]

Piece(api, events) == CASE api = "native"    -> buildRunResult(events)
                        [] api = "openai"    -> buildOpenAICompletion(events)
                        [] api = "anthropic" -> buildAnthropicMessage(events)

CollectEnds ==
  /\ pc = "collect" /\ chan = <<>> /\ run = "closed"
  /\ status' = 200
  /\ Write(<<Piece(ask.api, got)>>)
  /\ pc' = "answered"
  /\ UNCHANGED <<ctx, chan, got, handlerLeaves>>

-----------------------------------------------------------------------------

ClientLeaves ==
  /\ pc \in {"queue", "options", "execute", "launched", "lead", "stream", "collect"}
  /\ client = "here"
  /\ client' = "gone"
  /\ UNCHANGED <<startVars, pc, routeVars, launchVars, runVars, ctx, chan, answerVars>>

NoEnv == [listen |-> {}, key |-> {}, level |-> {}, enabled |-> null]

Init ==
  /\ given = [files |-> {}, env |-> NoEnv] /\ cfg = Defaults /\ ask = [api |-> "none"]
  /\ pc = "load" /\ target = {} /\ hitch = "none" /\ opts = <<>> /\ argv = <<>>
  /\ run = "none" /\ ctx = "live" /\ emitted = 0 /\ chan = <<>> /\ sent = <<>>
  /\ got = <<>> /\ status = 0 /\ wire = <<>> /\ client = "here"

Terminated ==
  /\ pc \in {"exited", "refused", "answered", "left"} /\ run \in {"none", "closed"}
  /\ UNCHANGED vars

Next ==
  \/ \E files \in Files, env \in Environments : StartDaemon(files, env)
  \/ \E a \in Asks : Arrive(a)
  \/ Authenticate \/ Decode \/ Resolve \/ FindAdapter
  \/ Acquire \/ QueueTimeout \/ CancelledWhileQueued
  \/ BuildExecOptions \/ StubFails \/ Launch \/ ExecuteFails \/ ExecuteReturns
  \/ \E kind \in Kinds : Emit(kind)
  \/ \E s \in {"completed", "failed", "cancelled"}, output \in BOOLEAN : SendResult(s, output)
  \/ CloseEvents
  \/ Lead \/ StreamEvent \/ StreamEnds \/ Collect \/ CollectEnds
  \/ SeeClientGone \/ ClientLeaves
  \/ Terminated

Spec == Init /\ [][Next]_vars

-----------------------------------------------------------------------------
(* Properties *)

\* The options the daemon keeps to itself.
OwnedFlags ==
  DOMAIN Blocked[Route.cli] \cup (IF Route.cli = "codex" /\ opts.full THEN {mcpOverride} ELSE {})

\* Every other option of the user's, with its value and without its shell quotes.
Passed(options) ==
  FlattenSeq([i \in DOMAIN options |->
                If(options[i].name \notin OwnedFlags, Tokens([options[i] EXCEPT !.quoted = FALSE]))])

\* Each option the daemon may drop comes with a value if and only if it takes one;
\* flag=value will do for either.
WellFormed(options) ==
  \A i \in DOMAIN options :
    LET o == options[i]
    IN /\ o.name \in DOMAIN Blocked[Route.cli] =>
            o.style # (IF Blocked[Route.cli][o.name] = "withValue" THEN "alone" ELSE "separate")
       /\ o.name = mcpOverride => o.style # "alone"

Ends(s, t) == Len(t) <= Len(s) /\ SubSeq(s, Len(s) - Len(t) + 1, Len(s)) = t

\* Nothing of what config and client pass to a CLI, however it is written, can take
\* the place of an argument the daemon depends on: the format and the transport of
\* the conversation, the permissions, the session. What is not reserved reaches the
\* CLI as it was meant, unless a reserved flag of the same list lacks its value: then
\* filterCustomArgs drops the argument that follows, so a custom_args of the config
\* that ends in such a flag eats the first argument of the request. A bad extra_args
\* does no harm to custom_args. Whether the CLIs besides claude and codex read
\* extra_args, as some do, or ignore them, as backend.go:41 says, is left open.
OwnedFlagsAreOurs ==
  pc = "launched" =>
    LET theirs  == FlattenSeq([i \in DOMAIN argv |-> If(argv[i].role # "ours", <<argv[i]>>)])
        ours(f) == {i \in DOMAIN argv : argv[i].text = f /\ argv[i].role = "ours"}
        others(f) == {i \in DOMAIN argv : argv[i].text = f /\ argv[i].role \in {"flag", "pair"}}
    IN /\ \A f \in OwnedFlags : Cardinality(ours(f)) <= 1 /\ others(f) = {}
       /\ ours("--agent") = {} \/ others("--agent") = {}
       /\ WellFormed(opts.custom) =>
            /\ Ends(theirs, Passed(opts.custom))
            /\ WellFormed(opts.extra) =>
                 \/ theirs = Passed(opts.extra \o opts.custom)
                 \/ Route.cli \notin {"claude", "codex"} /\ theirs = Passed(opts.custom)

EnabledByConfig(a) ==
  LET file == {f \in given.files : f.agents # {}}
      says(f) == LET named == Or(f.agents, null) IN a \in DOMAIN named => named[a]
  IN /\ a \in Known
     /\ IF a \in DOMAIN given.env.enabled /\ given.env.enabled[a] # "junk"
        THEN given.env.enabled[a] = "true" ELSE \A f \in file : says(f)

KeyByConfig == Or(given.env.key, Or(UNION {f.key : f \in given.files}, ""))

MayCall == KeyByConfig \in {"", ask.key}

Unlisted == ask.api # "native" /\ Len(ask.model) = 1 /\ ResolveModel(ask.model) = {}

\* The agents that could serve the request.
Wanted ==
  CASE ask.model = <<>> -> Known
    [] Len(ask.model) = 1 -> {a \in Known : ServesAt(a, ask.model[1]) # 0}
    [] Len(ask.model) = 3 /\ "" \notin ToSet(ask.model) -> {Lower(ask.model[1])}
    [] OTHER -> {}

BadRequest == Malformed \/ InvalidCwd \/ NoMessages

\* resolveRoute refuses a bare name of the native API, which docs/api.md:62,449 allow.
BareToNative == ask.api = "native" /\ Len(ask.model) = 1

\* What a refused client may be told. Only the native API tells a full queue from
\* other failures, but README.md:16,39 promise the 503 of all three.
Told ==
  CASE ~MayCall -> {401}
    [] MayCall /\ BadRequest -> {400}
    [] MayCall /\ ~BadRequest /\ Unlisted -> {404}
    [] OTHER -> IF hitch # "queue" THEN {502}
                ELSE {503} \cup (IF ask.api = "native" THEN {} ELSE {502})

\* A CLI runs only for a client with the right key, and it is one the client asked
\* for that the environment, or else the file, or else the default enables; with no
\* model named it is the first of those. A client that is refused is told why; of a
\* bare model name and the native API, where code and documents differ, this says
\* only who may not call and what runs if anything does.
RunsAsConfigured ==
  /\ pc \in {"launched", "lead", "stream", "collect", "answered", "left"} =>
       /\ MayCall /\ ~BadRequest /\ ~Unlisted
       /\ Route.cli \in Wanted /\ EnabledByConfig(Route.cli)
       /\ ask.model = <<>> =>
            \A i \in DOMAIN KnownAgents : EnabledByConfig(KnownAgents[i]) =>
              i >= First(KnownAgents, LAMBDA a : a = Route.cli)
       /\ ask.model # <<>> => Route.model = Last(ask.model)
  /\ pc = "refused" => run = "none"
  /\ pc = "refused" /\ (BareToNative => ~MayCall \/ BadRequest) =>
       /\ status \in Told
       /\ status = 502 /\ hitch = "none" =>
            IF ask.model = <<>> THEN \A a \in Known : ~EnabledByConfig(a)
            ELSE Wanted = {} \/ \E a \in Wanted : ~EnabledByConfig(a)

Shows(api) == CASE api = "native"    -> Kinds \cup {"result"}
                [] api = "openai"    -> {"text", "thinking"}
                [] api = "anthropic" -> {"text"}

\* What a client that stayed has got: in a stream every event its API has a frame
\* for, in the order they went into the channel, between the frames that open and
\* close it; in one piece the status and the output of the run however many events
\* it had, or if it had no output its text. collectEvents keeps the text of the first
\* CollectCap events; of a longer run that is what the client has to get at least.
AnswersAreFaithful ==
  pc = "answered" /\ client = "here" =>
    LET shown == OfKinds(sent, Shows(ask.api))
        lead  == LeadFrames(ask.api)
        close == LastFrames(ask.api)
        body  == IF ask.stream THEN SubSeq(wire, Len(lead) + 1, Len(wire) - Len(close)) ELSE <<>>
        last  == IF sent # <<>> /\ IsResult(Last(sent)) THEN Last(sent)
                 ELSE ResultEvent("completed", FALSE)
        texts == {aggregateText(sent)}
                 \cup (IF Len(sent) <= CollectCap THEN {} ELSE {aggregateText(SubSeq(sent, 1, CollectCap))})
    IN IF ask.stream
       THEN /\ [i \in DOMAIN body |-> body[i].of] = shown
            /\ wire = lead \o body \o close
       ELSE /\ Len(wire) = 1
            /\ ask.api = "native" => wire[1].status = last.status /\ wire[1].output = last.output
            /\ ask.api # "native" => wire[1].content \in (IF last.output THEN {<<last>>} ELSE texts)
            /\ ask.api = "openai" => wire[1].finish = (IF last.status = "completed" THEN "stop" ELSE last.status)

=============================================================================
