------------------------------- MODULE Launch -------------------------------
(***************************************************************************)
(* What is decided before a CLI is started: the configuration the daemon   *)
(* runs with (internal/config), the agent a model name is routed to        *)
(* (internal/detect, resolveModel and resolveRoute) and the arguments the  *)
(* CLI gets (facade.buildExecOptions, the adapters' build...Args and       *)
(* filterCustomArgs). Operators only; module Request puts them in order.   *)
(***************************************************************************)
EXTENDS Integers, Sequences, SequencesExt

\* KnownAgents, in its order. Bound: copilot stands for the eight ACP agents, droid
\* for the four stubs.
KnownAgents == <<"claude", "codex", "opencode", "openclaw", "qwen", "gemini", "codebuddy",
                 "copilot", "droid">>
Known == ToSet(KnownAgents)

-----------------------------------------------------------------------------
(* The configuration. What a file or the environment may leave out is a set *)
(* of at most one value; null is the empty map of "agents:" without a value. *)

Or(given, default) == IF given = {} THEN default ELSE CHOOSE v \in given : TRUE

null == [a \in {} |-> TRUE]

\* What m leaves out, default fills in.
Over(m, default) ==
  [a \in DOMAIN m \cup DOMAIN default |-> IF a \in DOMAIN m THEN m[a] ELSE default[a]]

Defaults == [listen |-> "loopback", key |-> "", level |-> "info", max |-> 0, queueMs |-> 0,
             agents |-> [a \in Known |-> TRUE]]

\* yaml.Unmarshal into the defaults: maps are merged, but null empties one.
Unmarshal(file) ==
  [listen |-> Or(file.listen, Defaults.listen), key |-> Or(file.key, Defaults.key),
   level |-> Or(file.level, Defaults.level), max |-> Or(file.max, Defaults.max),
   queueMs |-> Or(file.queueMs, Defaults.queueMs),
   agents |-> IF file.agents = {null} THEN null ELSE Over(Or(file.agents, null), Defaults.agents)]

\* Mutant: only what the file names is there.
NoBackfill(c) == c

Backfill(c) == [c EXCEPT !.agents = Over(@, Defaults.agents)]

\* Env wins, but a value that is no boolean ("junk") is ignored.
ApplyEnv(c, env) ==
  [c EXCEPT !.listen = Or(env.listen, @), !.key = Or(env.key, @), !.level = Or(env.level, @),
            !.agents = [a \in DOMAIN c.agents \cup Known |->
                          IF a \in DOMAIN env.enabled /\ env.enabled[a] # "junk"
                          THEN env.enabled[a] = "true"
                          ELSE a \in DOMAIN c.agents /\ c.agents[a]]]

\* A missing file is no error.
Load(files, env) ==
  ApplyEnv(IF files = {} THEN Defaults ELSE Backfill(Unmarshal(Or(files, {}))), env)

Valid(c) ==
  /\ c.listen # "" /\ c.level \in {"debug", "info", "warn", "error"}
  /\ c.queueMs >= 0 /\ DOMAIN c.agents \subseteq Known

\* Validate also fills in what it takes for unset.
Normalised(c) == [c EXCEPT !.max = IF @ < 0 THEN 8 ELSE @,
                           !.queueMs = IF @ = 0 THEN 60000 ELSE @]

\* NewWithBackends: an adapter for every agent that is enabled.
Adapters(c) == {a \in Known : c.agents[a]}

-----------------------------------------------------------------------------
(* Routing. A model name is the sequence of its segments: <<>> is "", a bare *)
(* name has one, CLI/provider/model three.                                   *)

\* hardcodedCatalog, one model of each family.
Catalog == [
  claude    |-> <<<<"anthropic", "sonnet">>>>,
  codex     |-> <<<<"openai", "gpt">>, <<"anthropic", "sonnet">>>>,
  opencode  |-> <<<<"anthropic", "sonnet">>, <<"openai", "gpt">>, <<"google", "gemini">>>>,
  openclaw  |-> <<<<"bytedance", "doubao">>>>,
  qwen      |-> <<<<"alibaba", "qwen3">>>>,
  gemini    |-> <<<<"google", "gemini">>>>,
  codebuddy |-> <<<<"tencent", "glm">>>>,
  copilot   |-> <<<<"github", "gpt">>, <<"github", "sonnet">>, <<"github", "gemini">>>>,
  droid     |-> <<>>]

\* normalizeCLIName, as far as the names here need it.
Lower(name) == IF name = "Claude" THEN "claude" ELSE name

\* The first index of s with P, or 0.
First(s, P(_)) == SelectInSeq(s, P)

ServesAt(cli, name) == First(Catalog[cli], LAMBDA m : m[2] = name)

\* resolveModel of the compatible APIs: the answer is a set of at most one name. The
\* first CLI of the catalogue that lists a bare name is taken, enabled or not.
ResolveModel(model) ==
  IF Len(model) # 1 THEN {model}
  ELSE LET at == First(KnownAgents, LAMBDA a : ServesAt(a, model[1]) # 0)
       IN IF at = 0 THEN {}
          ELSE LET cli == KnownAgents[at]
               IN {<<cli, Catalog[cli][ServesAt(cli, model[1])][1], model[1]>>}

\* ParseModelName
Parse(model) ==
  IF Len(model) # 3 \/ "" \in ToSet(model) THEN {}
  ELSE {[cli |-> Lower(model[1]), model |-> model[3]]}

\* resolveDefault; a CLI without models uses its own default.
ResolveDefault(adapters) ==
  LET at == First(KnownAgents, LAMBDA a : a \in adapters)
  IN IF at = 0 THEN {}
     ELSE LET cli == KnownAgents[at]
          IN {[cli |-> cli, model |-> IF Catalog[cli] = <<>> THEN "" ELSE Catalog[cli][1][2]]}

ResolveRoute(model, adapters) ==
  IF model = <<>> THEN ResolveDefault(adapters) ELSE Parse(model)

-----------------------------------------------------------------------------
(* Arguments. A token is a flag, a "pair" (flag=value), the value of the flag *)
(* before it, or "ours", one the daemon itself puts there with its value.     *)
(* Bound: the value of an option does not look like a flag.                   *)

Blocking(standalone, withValue) ==
  [f \in standalone \cup withValue |-> IF f \in standalone THEN "standalone" ELSE "withValue"]

claudeBlockedArgs ==
  Blocking({"-p"},
           {"--output-format", "--input-format", "--permission-mode", "--mcp-config", "--effort"})

codexBlockedArgs == Blocking({}, {"--listen"})

opencodeBlockedArgs == Blocking({"--dangerously-skip-permissions"}, {"--format", "--variant"})

openclawBlockedArgs ==
  Blocking({"--local", "--json"}, {"--session-id", "--message", "--model", "--system-prompt"})

qwenBlockedArgs ==
  Blocking({"--bare", "--yolo"},
           {"-p", "--prompt", "--output-format", "--input-format", "--approval-mode", "--mcp-config",
            "--session-id", "-m", "--model", "--system-prompt", "--append-system-prompt"})

geminiBlockedArgs ==
  Blocking({"--bare", "--yolo", "-p"},
           {"--output-format", "--input-format", "--approval-mode", "--mcp-config", "--session-id",
            "--resume", "--prompt", "--model", "--system-prompt", "--append-system-prompt",
            "--max-turns"})

codebuddyBlockedArgs ==
  Blocking({"--print", "-p", "-y", "--dangerously-skip-permissions", "--bare", "--yolo"},
           {"--output-format", "--input-format", "--permission-mode", "--mcp-config", "--session-id",
            "--model", "--max-turns", "--system-prompt", "--prompt", "--approval-mode", "-m",
            "--max-session-turns", "--append-system-prompt"})

acpBlockedArgs == Blocking({"--acp"}, {"--mcp-config", "--additional-mcp-config"})

Blocked == [claude |-> claudeBlockedArgs, codex |-> codexBlockedArgs, opencode |-> opencodeBlockedArgs,
            openclaw |-> openclawBlockedArgs, qwen |-> qwenBlockedArgs, gemini |-> geminiBlockedArgs,
            codebuddy |-> codebuddyBlockedArgs, copilot |-> acpBlockedArgs, droid |-> null]

unshellQuoteArg(token) == [token EXCEPT !.quoted = FALSE]

\* Mutant: the value of a flag that is dropped stays behind.
FilterKeepsValue(blocked, soFar, raw) ==
  LET token == unshellQuoteArg(raw)
  IN IF token.role # "value" /\ token.text \in DOMAIN blocked THEN soFar
     ELSE [soFar EXCEPT !.kept = Append(@, token)]

FilterArg(blocked, soFar, raw) ==
  LET token == unshellQuoteArg(raw)
  IN IF soFar.skip THEN [soFar EXCEPT !.skip = FALSE]
     ELSE IF token.role # "value" /\ token.text \in DOMAIN blocked
     THEN [soFar EXCEPT !.skip = blocked[token.text] = "withValue" /\ token.role # "pair"]
     ELSE [soFar EXCEPT !.kept = Append(@, token)]

ReadArgs(args, blocked) ==
  LET read[n \in 0..Len(args)] ==
        IF n = 0 THEN [kept |-> <<>>, skip |-> FALSE] ELSE FilterArg(blocked, read[n - 1], args[n])
  IN read[Len(args)]

filterCustomArgs(args, blocked) == ReadArgs(args, blocked).kept

\* The -c mcp_servers... of a user, which counts as one flag here.
mcpOverride == "-c mcp_servers"

filterCodexCustomConfigOverrides(args) == filterCustomArgs(args, Blocking({}, {mcpOverride}))

Ours(flags) == [i \in DOMAIN flags |-> [text |-> flags[i], role |-> "ours", quoted |-> FALSE]]
If(condition, s) == IF condition THEN s ELSE <<>>

\* full: the request and the agent's config set every option there is (model,
\* system prompt, resume, MCP servers, ...), or none of them.

buildClaudeArgs(full, extra, custom) ==
  Ours(<<"-p", "--output-format", "--input-format", "--verbose", "--strict-mcp-config",
         "--permission-mode", "--disallowedTools">>
       \o If(full, <<"--model", "--effort", "--max-turns", "--append-system-prompt", "--resume">>))
  \o filterCustomArgs(extra, claudeBlockedArgs) \o filterCustomArgs(custom, claudeBlockedArgs)
  \o If(full, Ours(<<"--mcp-config">>))

buildCodexArgs(full, extra, custom) ==
  LET theirs(args) == IF full THEN filterCodexCustomConfigOverrides(filterCustomArgs(args, codexBlockedArgs))
                              ELSE filterCustomArgs(args, codexBlockedArgs)
  IN Ours(<<"app-server", "--listen">>) \o theirs(extra) \o theirs(custom)

\* opencode and openclaw take no extra args.
buildOpencodeArgs(full, custom) ==
  Ours(<<"run", "--format", "--dangerously-skip-permissions">>
       \o If(full, <<"--dir", "--model", "--variant", "--prompt", "--session">>))
  \o filterCustomArgs(custom, opencodeBlockedArgs) \o Ours(<<"prompt">>)

buildOpenclawArgs(full, custom) ==
  LET theirs == filterCustomArgs(custom, openclawBlockedArgs)
      named  == \E i \in DOMAIN theirs : theirs[i].text = "--agent" /\ theirs[i].role # "value"
  IN Ours(<<"agent">> \o If(~full, <<"--local">>) \o <<"--json", "--session-id">>
          \o If(full, <<"--timeout">>) \o If(full /\ ~named, <<"--agent">>))
     \o theirs \o Ours(<<"--message">>)

buildQwenArgs(full, extra, custom) ==
  Ours(<<"--bare", "--output-format", "--input-format", "--yolo">>
       \o If(full, <<"-m", "--max-session-turns", "--append-system-prompt", "--resume">>))
  \o filterCustomArgs(extra, qwenBlockedArgs) \o filterCustomArgs(custom, qwenBlockedArgs)
  \o If(full, Ours(<<"--mcp-config">>))

buildGeminiArgs(full, extra, custom) ==
  Ours(<<"--bare", "--output-format", "--input-format", "--yolo">>
       \o If(full, <<"--model", "--append-system-prompt", "--max-turns", "--resume">>))
  \o filterCustomArgs(extra, geminiBlockedArgs) \o filterCustomArgs(custom, geminiBlockedArgs)
  \o If(full, Ours(<<"--mcp-config">>))

buildCodebuddyArgs(full, extra, custom) ==
  Ours(<<"--print", "--output-format", "--input-format", "--dangerously-skip-permissions">>
       \o If(full, <<"--model", "--max-turns", "--system-prompt", "--resume">>))
  \o filterCustomArgs(extra, codebuddyBlockedArgs) \o filterCustomArgs(custom, codebuddyBlockedArgs)
  \o If(full, Ours(<<"--mcp-config">>))

buildAcpArgs(full, extra, custom) ==
  Ours(<<"--acp">>) \o filterCustomArgs(extra, acpBlockedArgs) \o filterCustomArgs(custom, acpBlockedArgs)
  \o If(full, Ours(<<"--additional-mcp-config">>))

Args(cli, full, extra, custom) ==
  CASE cli = "claude"    -> buildClaudeArgs(full, extra, custom)
    [] cli = "codex"     -> buildCodexArgs(full, extra, custom)
    [] cli = "opencode"  -> buildOpencodeArgs(full, custom)
    [] cli = "openclaw"  -> buildOpenclawArgs(full, custom)
    [] cli = "qwen"      -> buildQwenArgs(full, extra, custom)
    [] cli = "gemini"    -> buildGeminiArgs(full, extra, custom)
    [] cli = "codebuddy" -> buildCodebuddyArgs(full, extra, custom)
    [] cli = "copilot"   -> buildAcpArgs(full, extra, custom)

=============================================================================
