----------------------------- MODULE SessionStart -----------------------------
(***************************************************************************)
(* How a session is configured before it is opened: prepareAgentSessionStart  *)
(* (session_service.go) takes the system prompt out of the host's metadata,   *)
(* lets the agent's profile (profiles.go) project it, applies the unified     *)
(* AgentConfig, and merges what is left.                                     *)
(***************************************************************************)
EXTENDS Metadata, Naturals, Sequences, SequencesExt, FiniteSets

\* mergeSessionMeta: extra wins at every level.
RECURSIVE Merge(_, _)
\* Mutation: an object of extra replaces one of base.
Shallow(base, extra) ==
    [k \in DOMAIN base \cup DOMAIN extra |-> IF k \in DOMAIN extra THEN extra[k] ELSE base[k]]
Merge(base, extra) ==
    [k \in DOMAIN base \cup DOMAIN extra |->
        IF k \notin DOMAIN extra THEN base[k]
        ELSE IF k \in DOMAIN base /\ IsObj(base[k]) /\ IsObj(extra[k])
             THEN Obj(Merge(base[k].obj, extra[k].obj))
             ELSE extra[k]]

-----------------------------------------------------------------------------
(* The system prompt.                                                        *)

\* systemPromptText: the text, no paragraph if there is none, or "error".
PromptText(meta, key) ==
    IF key \notin DOMAIN meta THEN Val(<<>>)
    ELSE IF IsVal(meta[key]) THEN meta[key] ELSE [error |-> key]

NoPrompt == [mode |-> "none", text |-> <<>>]

\* extractSystemPrompt
Remaining(meta) == [k \in DOMAIN meta \ Reserved |-> meta[k]]
PromptError(meta) ==
    LET replace == PromptText(meta, "systemPrompt")
        append == PromptText(meta, "appendSystemPrompt")
    IN  ~IsVal(replace) \/ ~IsVal(append) \/ (replace.val # <<>> /\ append.val # <<>>)
ExtractPrompt(meta) ==
    IF PromptText(meta, "systemPrompt").val # <<>>
    THEN [mode |-> "replace", text |-> meta["systemPrompt"].val]
    ELSE IF PromptText(meta, "appendSystemPrompt").val # <<>>
    THEN [mode |-> "append", text |-> meta["appendSystemPrompt"].val]
    ELSE NoPrompt

-----------------------------------------------------------------------------
(* Profiles.  An agent has a type, launch arguments, and the CODEX_CONFIG of   *)
(* its environment, which is absent, corrupt or an object.                  *)

Types == {"codex", "claude", "claude-native", "opencode", "other"}

\* removeClaudeSystemPromptArgs
PromptFlags == {"--system-prompt", "--append-system-prompt"}
JoinedFlags == {"--system-prompt=text"}
RemovePromptArgs(args) ==
    LET n == Len(args) + 2
        keep[i \in 1..n] ==
          IF i > Len(args) THEN <<>>
          ELSE IF args[i] \in PromptFlags THEN keep[i + 2]
          ELSE IF args[i] \in JoinedFlags THEN keep[i + 1]
          ELSE <<args[i]>> \o keep[i + 1]
    IN  keep[1]

\* A corrupt CODEX_CONFIG is started afresh.
Config(agent) == IF IsObj(agent.codex) THEN agent.codex.obj ELSE NoKeys

\* injectCodexSystemPromptConfig
InjectPrompt(config, prompt) ==
    LET key == IF prompt.mode = "append" THEN "developer_instructions" ELSE "instructions"
        earlier == IF prompt.mode = "append" /\ key \in DOMAIN config /\ IsVal(config[key])
                   THEN config[key].val ELSE <<>>
    IN  Put(config, key, Val(earlier \o prompt.text))

DefaultPrompt(prompt) ==
    Put(NoKeys, IF prompt.mode = "append" THEN "appendSystemPrompt" ELSE "systemPrompt", Val(prompt.text))

\* The preset of claude-agent-acp with the prompt appended to it.
PresetPrompt(prompt) ==
    Put(NoKeys, "systemPrompt",
        IF prompt.mode = "append"
        THEN Obj([type |-> Val(<<"preset">>), preset |-> Val(<<"claude_code">>), append |-> Val(prompt.text)])
        ELSE Val(prompt.text))

\* ProjectSystemPrompt of the agent's profile: [agent, meta].
\* Mutation: the flags of the host's own arguments stay.
KeepArgs(agent, prompt) ==
    CASE agent.type = "codex" ->
            [agent |-> [agent EXCEPT !.codex = Obj(InjectPrompt(Config(agent), prompt))], meta |-> NoKeys]
      [] agent.type = "claude" -> [agent |-> agent, meta |-> PresetPrompt(prompt)]
      [] OTHER -> [agent |-> agent, meta |-> DefaultPrompt(prompt)]
ProjectPrompt(agent, prompt) ==
    CASE agent.type = "codex" ->
            [agent |-> [agent EXCEPT !.codex = Obj(InjectPrompt(Config(agent), prompt))], meta |-> NoKeys]
      [] agent.type = "claude" ->
            [agent |-> [agent EXCEPT !.args = RemovePromptArgs(@)], meta |-> PresetPrompt(prompt)]
      [] agent.type = "claude-native" ->
            [agent |-> [agent EXCEPT !.args = RemovePromptArgs(@)], meta |-> DefaultPrompt(prompt)]
      [] OTHER -> [agent |-> agent, meta |-> DefaultPrompt(prompt)]

-----------------------------------------------------------------------------
(* AgentConfig: model and sandbox ("" when not set), disallowedTools, deny     *)
(* rules, and extra native fields.                                          *)

NoConfig == [set |-> FALSE, model |-> "", sandbox |-> "", disallowed |-> <<>>, deny |-> <<>>,
             extra |-> NoKeys]

Sandboxes == [read |-> "read-only", full |-> "danger-full-access"]
Policies == [read |-> "on-request", full |-> "never"]

\* applyCodexAgentConfig over buildCodexEnv: what it sets replaces what was there.
CodexSets(cfg) ==
    Merge(Merge(When(cfg.model # "", "model", Val(cfg.model)),
                When(cfg.sandbox # "", "sandbox_mode", Val(Sandboxes[cfg.sandbox]))),
          Merge(When(cfg.sandbox # "", "approval_policy", Val(Policies[cfg.sandbox])),
                When(cfg.deny # <<>>, "writable_roots", Val(cfg.deny))))
ApplyCodex(config, cfg) ==
    [k \in DOMAIN config \cup DOMAIN CodexSets(cfg) |->
        IF k \in DOMAIN CodexSets(cfg) THEN CodexSets(cfg)[k] ELSE config[k]]

\* applyClaudeAgentConfig: extra replaces the options it names.
ClaudeOptions(cfg) ==
    LET options == Merge(When(cfg.disallowed # <<>>, "disallowedTools", Val(cfg.disallowed)),
                         When(cfg.deny # <<>>, "settings",
                              Obj(Put(NoKeys, "permissions", Obj(Put(NoKeys, "deny", Val(cfg.deny)))))))
    IN  [k \in DOMAIN options \cup DOMAIN cfg.extra |->
            IF k \in DOMAIN cfg.extra THEN cfg.extra[k] ELSE options[k]]
ClaudeMeta(cfg) ==
    Put(NoKeys, "claudeCode", Obj(Put(NoKeys, "options", Obj(ClaudeOptions(cfg)))))

\* applyOpenCodeAgentConfig
OpenCodeMeta(cfg) ==
    LET m == When(cfg.model # "", "model", Val(cfg.model)) IN
    [k \in DOMAIN m \cup DOMAIN cfg.extra |-> IF k \in DOMAIN cfg.extra THEN cfg.extra[k] ELSE m[k]]

\* ApplyAgentConfig of the agent's profile.
ApplyConfig(agent, cfg) ==
    CASE agent.type = "codex" ->
            [agent |-> [agent EXCEPT !.codex = Obj(ApplyCodex(Config(agent), cfg))], meta |-> NoKeys]
      [] agent.type = "claude" -> [agent |-> agent, meta |-> ClaudeMeta(cfg)]
      [] agent.type = "claude-native" ->
            [agent |-> agent,
             meta |-> Merge(ClaudeMeta(cfg), When(cfg.model # "", "model", Val(cfg.model)))]
      [] agent.type = "opencode" ->
            [agent |-> agent, meta |-> OpenCodeMeta(cfg)]
      [] OTHER -> [agent |-> agent, meta |-> NoKeys]

-----------------------------------------------------------------------------
(* prepareAgentSessionStart: the agent to launch and the metadata to send.     *)

\* Mutation: the metadata of AgentConfig wins over the host's.
ConfigWins(prompt, config, host) == Merge(prompt, Merge(host, config))
Layered(prompt, config, host) == Merge(Merge(prompt, config), host)

Prepare(agent, meta, cfg) ==
    IF PromptError(meta) THEN [error |-> "system_prompt"]
    ELSE LET prompt == ExtractPrompt(meta)
             p == IF prompt = NoPrompt THEN [agent |-> agent, meta |-> NoKeys]
                  ELSE ProjectPrompt(agent, prompt)
             c == IF cfg.set THEN ApplyConfig(p.agent, cfg) ELSE [agent |-> p.agent, meta |-> NoKeys]
         IN  IF DOMAIN c.meta \cap Reserved # {} THEN [error |-> "system_prompt"]
             ELSE [error |-> "none", agent |-> c.agent,
                   meta |-> Layered(p.meta, c.meta, Remaining(meta))]
=============================================================================
