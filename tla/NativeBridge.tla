---------------------------- MODULE NativeBridge ----------------------------
(***************************************************************************)
(* The native transport: the loopback bridge over one engine, with its host, *)
(* its CLI processes and its teardown interleaved.                          *)
(***************************************************************************)
EXTENDS CodexEngine, ClaudeEngine

RequestStep ==
    \/ \E s \in Sessions : CodexSessionStep(s) \/ ClaudeSessionStep(s)
    \/ \E p \in Prompts : CodexPrompt(p) \/ ClaudePrompt(p)
    \/ \E p \in Prompts : CodexPromptStep(p) \/ ClaudePromptStep(p) \/ CancelPrompt(p)

LoopStep == \E k \in Sessions :
    \/ CodexLine(k) \/ ClaudeLine(k) \/ LoopEnds(k)
    \/ \E d \in {"allow", "deny", "error"} : Decide(k, d)

Next == RequestStep \/ LoopStep \/ CLIStep \/ DisposeBegin \/ DisposeRetries \/ DisposeStep

Spec == Init /\ [][Next]_nvars

\* Goroutines that can run do; the CLI, the host and its decisions owe nothing, nor
\* does the end of a stdout, which a descendant may hold open.
FairSpec ==
    /\ Spec
    /\ \A p \in Prompts : WF_nvars(CodexPromptStep(p) \/ ClaudePromptStep(p))
    /\ \A s \in Sessions : WF_nvars(LoadSpawned(s))
    /\ \A s \in Sessions : WF_nvars(dpc # "idle" /\ Handshake(s, FALSE))
    /\ \A k \in Sessions : WF_nvars(CodexLine(k) \/ ClaudeLine(k))
    /\ \A k \in Sessions : WF_nvars(dpc # "idle" /\ Decide(k, "error"))
    /\ WF_nvars(DisposeStep)

-----------------------------------------------------------------------------
TypeOKN ==
    /\ engine \in Engines /\ closed \in BOOLEAN
    /\ mu \in Sessions \cup Prompts \cup {None} /\ pooled \subseteq Sessions
    /\ sess \in [Sessions -> {"none", "spawning", "calling", "open", "failed", "dropped"}]
    /\ pc \in [Prompts -> {"idle", "call", "started", "startfailed", "spawned", "turn",
                           "write", "wait", "done"}]
    /\ res \in [Prompts -> {"none", "refused", "nospawn", "startfailed", "ok", "failed",
                            "closed", "ctx"}]
    /\ ctxDone \subseteq Prompts
    /\ turn \in [Sessions -> Prompts \cup {None}]
    /\ fin \in [Prompts -> {"no", "ok", "err"}]
    /\ waitOn \in [Prompts -> Prompts \cup {None}]
    /\ proc \in [Sessions -> {"none", "up", "exited"}]
    /\ loop \in [Sessions -> {"off", "read", "perm", "done"}] /\ gone \subseteq Sessions
    /\ asked \in [Sessions -> {"no", "asked", "allowed", "denied"}]
    /\ verdict \in [Sessions -> {"none", "pending", "allow", "deny", "error"}]
    /\ dpc \in {"idle", "peers", "kill", "retry", "done"}
    /\ todo \subseteq Sessions /\ fails \in 0..MaxFails

\* A claude process is given a user message only when it has answered every
\* earlier one and the answer was read: a cancelled prompt does not make room
\* for the next before its turn's result (prompt, handleLine).
InCLI(s) == {p \in Prompts : p \in {inq[s][i] : i \in DOMAIN inq[s]} \/ running[s] = p}
Unread(s) == {i \in DOMAIN out[s] : out[s][i].type = "end"}

OneTurnInCLI ==
    Claude => \A s \in Sessions : Cardinality(InCLI(s)) + Cardinality(Unread(s)) <= 1

\* A claude prompt reports the end of its own turn, and the end the CLI gave it.
OwnResult ==
    Claude => \A p \in Prompts :
        /\ res[p] = "ok" => told[p] = "ok"
        /\ res[p] = "failed" => told[p] = "failed"

\* claude's prompts and results keep in step: its stream carries no id that
\* would say whose a result is.
PromptsInStep == OneTurnInCLI /\ OwnResult

\* Once Close has succeeded no process of the engine is left, whatever requests
\* were opening sessions or spawning as it ran (ensureDaemon, ensureSpawned).
ClosedLeavesNoProcess ==
    dpc = "done" => \A k \in Sessions : proc[k] # "up"

\* A session stays busy after its prompt returned only if that prompt was
\* cancelled or the process stream closed: no other ending leaves a turn that
\* refuses the next prompt.
BusyOnlyAfterCancel ==
    \A s \in Sessions : Unfinished(s) /\ pc[turn[s]] = "done" =>
        res[turn[s]] = "ctx" \/ Host(s) \in gone

\* A prompt ends once its turn did, its process's stream closed or it is
\* cancelled, except while a claude loop waits for the host to decide.
PromptsReturn ==
    \A p \in Prompts :
        \/ pc[p] \in {"call", "started", "wait"} /\ (p \in ctxDone \/ Host(Of[p]) \in gone)
        \/ pc[p] = "wait" /\ (fin[p] # "no" \/ (Claude /\ told[p] # "none"))
        ~> (pc[p] = "done" \/ loop[Host(Of[p])] = "perm")

\* dispose returns, though it needs the engine's mutex while a daemon may be
\* starting under it: the bridge's context ends the handshake first.
DisposeReturnsAtLast == dpc \in {"peers", "kill"} ~> dpc \in {"retry", "done"}

\* Neither a prompt nor the teardown hangs, whatever the CLIs do.
NothingHangs == PromptsReturn /\ DisposeReturnsAtLast

\* native_codex.go:451-452 of settleTurn: "A non-nil err marks it failed;
\* calling twice (error then turn/completed) is a no-op": a prompt reports
\* success only for a turn of its own that the CLI completed.
SuccessMeansCompleted ==
    \A p \in Prompts : res[p] = "ok" => told[p] = "ok"
=============================================================================
