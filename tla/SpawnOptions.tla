----------------------------- MODULE SpawnOptions -----------------------------
(***************************************************************************)
(* The options of a native claude session (native_claude.go, native_bridge.go, *)
(* native_session_state.go): they are flags of a process that is launched by   *)
(* the first prompt, so the host may set them until then, while the launch    *)
(* itself reads them and marks the process spawned in two steps.            *)
(***************************************************************************)
EXTENDS Metadata, Naturals, Sequences

\* A claudeProc: made by session/new, session/load or session/fork.
Proc(how, meta, servers) ==
    [how |-> how, meta |-> meta, servers |-> servers, model |-> "", mode |-> "",
     phase |-> "idle", argv |-> {}]

MetaString(meta, key) == IF key \in DOMAIN meta /\ IsVal(meta[key]) THEN meta[key].val ELSE ""

Flag(name, v) == {<<name, v>>}
IfSet(v, flags) == IF v = "" THEN {} ELSE flags

\* The value a session asks for: an option set on it, or else its metadata's.
Model(p) == IF p.model # "" THEN p.model ELSE MetaString(p.meta, "model")
Mode(p) == IF p.mode # "" THEN p.mode ELSE MetaString(p.meta, "mode")

PromptArgs(meta) ==
    UNION {IF key \in DOMAIN meta /\ IsVal(meta[key]) /\ meta[key].val # <<>>
           THEN Flag(IF key = "systemPrompt" THEN "--system-prompt" ELSE "--append-system-prompt",
                     meta[key].val)
           ELSE {} : key \in Reserved}

\* _meta.claudeCode.options, of which the others are passed on alike.
OptionArgs(meta) ==
    LET o == Under(Under(meta, "claudeCode"), "options") IN
    (IF "disallowedTools" \in DOMAIN o /\ IsVal(o["disallowedTools"])
     THEN Flag("--disallowedTools", o["disallowedTools"].val) ELSE {})
    \cup (IF Under(o, "settings") # NoKeys THEN Flag("--settings", Under(o, "settings")) ELSE {})

\* Which conversation it runs: its own, a previous one, or a branch of one.
SessionArgs(p) ==
    (IF p.how # "load" THEN Flag("--session-id", "own") ELSE {})
    \cup (IF p.how # "new" THEN Flag("--resume", "previous") ELSE {})
    \cup (IF p.how = "fork" THEN Flag("--fork-session", "") ELSE {})

\* writeMCPConfig: a stdio server or an http one, by name; the last of a name stays.
Supported(servers) == SelectSeq(servers, LAMBDA s : s.via \in {"command", "url"})
MCPConfig(servers) ==
    LET s == Supported(servers) IN
    {s[i] : i \in {i \in DOMAIN s : \A j \in DOMAIN s : j > i => s[j].name # s[i].name}}
MCPError(p) == p.servers # <<>> /\ Supported(p.servers) = <<>>

\* buildArgs
\* Mutation: the metadata of session/new wins over an option set since.
MetaFirst(p) ==
    LET model == IF MetaString(p.meta, "model") # "" THEN MetaString(p.meta, "model") ELSE p.model IN
    IfSet(model, Flag("--model", model)) \cup IfSet(Mode(p), Flag("--permission-mode", Mode(p)))
OptionFlags(p) ==
    IfSet(Model(p), Flag("--model", Model(p))) \cup IfSet(Mode(p), Flag("--permission-mode", Mode(p)))

BuildArgs(p) ==
    OptionFlags(p)
    \cup (IF Mode(p) = "bypassPermissions" THEN Flag("--allow-dangerously-skip-permissions", "") ELSE {})
    \cup SessionArgs(p) \cup PromptArgs(p.meta) \cup OptionArgs(p.meta)
    \cup (IF p.servers # <<>> THEN Flag("--mcp-config", MCPConfig(p.servers)) ELSE {})

\* setSpawnOption: refused once the process is marked spawned.
\* Mutation: an option is taken after the launch too.
AnyTime(p) == TRUE
MaySet(p) == p.phase # "up"
SetSpawnOption(p, key, v) ==
    CASE ~MaySet(p) -> p
      [] MaySet(p) /\ key = "model" -> [p EXCEPT !.model = v]
      [] MaySet(p) /\ key \in {"mode", "permissionMode"} -> [p EXCEPT !.mode = v]
      [] OTHER -> p
Acknowledged(p, key) == MaySet(p) /\ key \in {"model", "mode", "permissionMode"}

\* ensureSpawned: the flags are built, the process is started, then marked.
Build(p) == IF p.phase # "idle" \/ MCPError(p) THEN p
            ELSE [p EXCEPT !.argv = BuildArgs(p), !.phase = "building"]
Spawned(p) == IF p.phase = "building" THEN [p EXCEPT !.phase = "up"] ELSE p
SpawnFails(p) == IF p.phase = "building" THEN [p EXCEPT !.argv = {}, !.phase = "idle"] ELSE p

\* SessionState: what session/new, load and fork report of it; env is ANTHROPIC_MODEL.
SessionState(p, env) ==
    [model |-> IF Model(p) # "" THEN Model(p) ELSE env,
     mode |-> IF Mode(p) # "" THEN Mode(p) ELSE "default"]
=============================================================================
