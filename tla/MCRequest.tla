----------------------------- MODULE MCRequest -----------------------------
(* A small instance of Request for TLC. *)
EXTENDS Request, TLC

\* A config file that leaves everything out, except what changes says.
File(changes) ==
  changes @@ [listen |-> {}, key |-> {}, level |-> {}, max |-> {}, queueMs |-> {}, agents |-> {}]

MCFiles == {
  {},
  {File([key |-> {"secret"}])},
  {File([max |-> {1}])},
  {File([agents |-> {null}])},
  {File([agents |-> {"claude" :> FALSE}])},
  {File([agents |-> {[a \in Known |-> FALSE]}])},
  {File([agents |-> {"cursor" :> TRUE}])},
  {File([listen |-> {""}])}}

Env(changes) == changes @@ NoEnv

MCEnvironments == {
  NoEnv,
  Env([key |-> {"secret"}]),
  Env([level |-> {"loud"}]),
  Env([enabled |-> "claude" :> "false" @@ "codex" :> "junk"]),
  Env([enabled |-> "droid" :> "true" @@ "claude" :> "true"])}

MCModels == {
  <<>>, <<"sonnet">>, <<"nobody">>, <<"claude", "sonnet">>,
  <<"Claude", "anthropic", "sonnet">>, <<"copilot", "github", "gpt">>, <<"droid", "x", "y">>,
  <<"cursor", "x", "y">>, <<"claude", "", "sonnet">>}

MCAsks ==
  [api : {"native", "openai", "anthropic"}, stream : BOOLEAN, key : {"secret"},
   model : MCModels, body : {"ok"}]
  \cup [api : {"native", "openai", "anthropic"}, stream : {TRUE}, key : {""},
        model : {<<"sonnet">>, <<"Claude", "anthropic", "sonnet">>}, body : {"ok"}]
  \cup [api : {"native", "openai", "anthropic"}, stream : {TRUE}, key : {"", "secret"},
        model : {<<"sonnet">>}, body : {"malformed", "badCwd", "noMessages"}]
  \cup [api : {"native"}, stream : {TRUE}, key : {""}, body : {"ok"},
        model : {<<cli, "any", "model">> : cli \in Known}]

\* Of each CLI: a reserved option that takes a value, in its two spellings and without
\* the value, one that takes none where there is one, and a free one.
Option(name, style, quoted) == [name |-> name, style |-> style, quoted |-> quoted]

Reserved(cli, arity) == {f \in DOMAIN Blocked[cli] : Blocked[cli][f] = arity}

SomeOf(S) == IF S = {} THEN {} ELSE {CHOOSE f \in S : TRUE}

MCOptionsOf(cli) ==
  {Option(f, style, style = "inline") :
     f \in SomeOf(Reserved(cli, "withValue")), style \in {"separate", "inline", "alone"}}
  \cup {Option(f, "alone", TRUE) : f \in SomeOf(Reserved(cli, "standalone"))}
  \cup (IF cli = "codex" THEN {Option(mcpOverride, "separate", FALSE)} ELSE {})
  \cup {Option(IF cli = "openclaw" THEN "--agent" ELSE "--free", "separate", TRUE)}
=============================================================================
