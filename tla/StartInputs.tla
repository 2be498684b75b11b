----------------------------- MODULE StartInputs -----------------------------
(***************************************************************************)
(* What a session starts with (SessionStart), against what its host has set:  *)
(* a line of Inputs is read as the settings of a host, in the order in which *)
(* it makes them.                                                            *)
(***************************************************************************)
EXTENDS Inputs, SessionStart

Laid(table, base) ==
    FoldLeft(LAMBDA r, u : IF u \in DOMAIN table THEN table[u] @@ r ELSE r, base, line)
MetaOf == FoldLeft(LAMBDA r, u : IF u \in DOMAIN HostMeta THEN Merge(r, HostMeta[u]) ELSE r, NoKeys, line)
ConfigOf == Laid(HostConfig, NoConfig)
AgentOf(type) == Laid(HostAgent, [type |-> type, args |-> <<"run">>, codex |-> [absent |-> 1]])

\* The system prompts a provider acts on: <<mode, text>>.
AsKey(m, key, mode) == IF key \in DOMAIN m THEN {<<mode, m[key].val>>} ELSE {}
InArgs(args) == {<<"flag", <<args[i]>> >> : i \in {i \in DOMAIN args : args[i] \in PromptFlags \cup JoinedFlags}}
Seen(agent, meta) ==
    CASE agent.type = "codex" ->
            AsKey(Config(agent), "instructions", "replace")
            \cup AsKey(Config(agent), "developer_instructions", "append")
      [] agent.type = "claude" ->
            InArgs(agent.args)
            \cup (IF "systemPrompt" \notin DOMAIN meta THEN {}
                  ELSE IF IsObj(meta["systemPrompt"]) THEN AsKey(meta["systemPrompt"].obj, "append", "append")
                  ELSE AsKey(meta, "systemPrompt", "replace"))
      [] agent.type = "claude-native" ->
            InArgs(agent.args)
            \cup {<<IF f[1] = "--system-prompt" THEN "replace" ELSE "append", f[2]>> :
                    f \in {f \in BuildArgs(Proc("new", meta, <<>>)) : f[1] \in PromptFlags}}
      [] OTHER -> AsKey(meta, "systemPrompt", "replace") \cup AsKey(meta, "appendSystemPrompt", "append")

\* What it should act on: the prompt of the host, and in codex's configuration
\* the one it adds to.
Wanted(agent, prompt) ==
    IF prompt = NoPrompt THEN Seen(agent, NoKeys)
    ELSE IF agent.type # "codex" THEN {<<prompt.mode, prompt.text>>}
    ELSE LET before == Seen(agent, NoKeys)
             same == {x \in before : x[1] = prompt.mode}
         IN  (before \ same)
             \cup {<<prompt.mode, IF prompt.mode = "append" /\ same # {}
                                  THEN (CHOOSE x \in same : TRUE)[2] \o prompt.text ELSE prompt.text>>}

(* From WithSystemPrompt or WithAppendSystemPrompt to the provider: every       *)
(* agent sees the host's prompt exactly once and in its mode, beside nothing *)
(* left over in its arguments, and a session that asks for two, or for a      *)
(* prompt that is no text, does not start.                                   *)
PromptOnce ==
    kind = "start" =>
        \A type \in Types :
            LET r == Prepare(AgentOf(type), MetaOf, ConfigOf)
                two == {"replace", "append"} \subseteq ToSet(line)
            IN  /\ r.error = "none" => Seen(r.agent, r.meta) = Wanted(AgentOf(type), ExtractPrompt(MetaOf))
                /\ "number" \in ToSet(line) /\ MetaOf["appendSystemPrompt"] = [num |-> 1] => r.error # "none"
                /\ two /\ MetaOf["systemPrompt"] = Val(<<"p">>) => r.error # "none"

-----------------------------------------------------------------------------
\* The leaves of a tree, with their paths, and whether a path is in it.
RECURSIVE Leaves(_)
Leaves(m) ==
    UNION {IF IsObj(m[k]) THEN {<<(<<k>> \o l[1]), l[2]>> : l \in Leaves(m[k].obj)} ELSE {<< <<k>>, m[k]>>}
             : k \in DOMAIN m}
Crosses(p, q) == IsPrefix(p, q) \/ IsPrefix(q, p)

(* Nothing a host has set is lost on the way to the agent: its metadata wins   *)
(* over AgentConfig at every level and beside it, AgentConfig stays where     *)
(* they do not meet, and CODEX_CONFIG keeps what neither of them sets.      *)
HostSettingsKept ==
    kind = "start" =>
        \A type \in Types :
            LET agent == AgentOf(type)
                r == Prepare(agent, MetaOf, ConfigOf)
                host == Leaves(Remaining(MetaOf))
                config == IF ConfigOf.set THEN Leaves(ApplyConfig(agent, ConfigOf).meta) ELSE {}
            IN  r.error = "none" =>
                /\ host \subseteq Leaves(r.meta)
                /\ \A c \in config : (\A h \in host : ~Crosses(h[1], c[1])) => c \in Leaves(r.meta)
                /\ \A l \in Leaves(r.meta) : l \in host \cup config \/ l[1][1] \in Reserved
                /\ type = "codex" /\ IsObj(agent.codex) =>
                     /\ Config(r.agent)["provider"] = Val("env")
                     /\ Config(r.agent)["model"] = Val(IF ConfigOf.model # "" THEN ConfigOf.model ELSE "env")

(* A session starts with what its host has asked for.                         *)
StartKeepsIntent == PromptOnce /\ HostSettingsKept
=============================================================================
