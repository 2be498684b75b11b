# A verification project for acp-runtime-go

`acp-runtime-go` is a Go library that lets a host program drive coding agents that speak the
Agent Client Protocol: JSON-RPC, one message per line, over the standard input and output of a
child process. A host starts a `Session`, starts turns on it, reads events, cancels, closes. An
HTTP gateway and in-process bridges for two command-line agents sit on top.

These modules model the parts where goroutines meet (the JSON-RPC peer, the turns above it, the life of a
session and of its process, the read model, the native bridges, the session pool of the gateway) and
the pure algorithms where many cases meet (line codec, translations, configuration, routing). TLC checks
them on small instances, TLAPS proves the central facts for every instance. Paths below are relative to the repository (`src/`).

## The system

| part | files | state | operations | what is hard |
|---|---|---|---|---|
| JSON-RPC peer | `rpc.go` | pending calls by id, their channels, the read loop, `readIdle`/`idleFns`, the cancel functions of inbound requests, `closed` | `Call`, `Start`, `AfterIdle`, `handleRequest`, `$/cancel_request`, `Close` | answers, cancellations and the close sweep race for one channel; each inbound request has a goroutine of its own; functions deferred to the read loop |
| line codec | `rpc.go` | none | `appendRPCMessage`, `parseRPCMessage` and the scanners | hand-written JSON escapes |
| session driver, turns | `session_driver.go`, `session.go` | current turn, status, thread, each turn's text, timer and channels | `StartTurn`, `runPrompt`, settle, `finishTurn`, `CancelTurn`, `Close`, `Delete`, `handleSessionUpdate` | four finishers for one turn; updates emitted after the lock is released |
| session driver, read model | `session_driver.go` | orphan generation, tool calls, operations, permissions, configuration and whether it is current | the rest of `handleSessionUpdate`, `SetAgentMode`, `SetAgentConfigOption`, `Snapshot` | stale responses, bounded channels, pruning |
| runtime registry | `runtime.go` | live drivers by session id | `register`, `unregister`, `Close` | drivers with one id; closing while another starts |
| session bootstrap | `session_service.go` | a connection under construction | `Create`, `Load`, `Resume`, `Fork`, initial configuration | a step fails after the process is up |
| connection | `connection.go` | handlers | typed wrappers of peer calls, permission defaults | |
| stdio transport | `stdio.go`, `stdio_proctree_unix.go` | child process, teardown once | start, `dispose`: stdin close, SIGTERM, SIGKILL | timers against a process that exits by itself |
| native bridges | `native_*.go` | sessions and child processes of `claude` and `codex` | prompt, cancel, permission, settle | line order of two protocols, blocking on the reading goroutine |
| OpenAI gateway | `openai/server.go` | session pool, busy flags, response aliases, model inventory | chat and responses handlers, expiry, drain, delete, routing | HTTP requests against a cleanup ticker; public ids that stand for several models |
| profiles, registry, paths | `profiles.go`, `registry.go`, `agents.go`, `exec_path.go` | caches on disk | projection of prompts and configuration, lookups | four layers of configuration for one agent |
| simulator, harness, commands | `simulator/`, `harness/`, `cmd/` | scripted sessions | test drivers and entry points | |

How they interact: a session's driver prompts through `Connection`, which calls `Peer.Call`; the
peer's read loop calls back into the driver (`handleSessionUpdate`, and the settle function given
to `AfterIdle`); `Session` guards the driver with a read-write lock; `Runtime.Close` calls the
driver without it; `dispose` tears the transport down, which closes the peer.

What makes each part correct:

* peer: an answer reaches the call it answers and no other; a send on a call's channel neither
  panics nor blocks; every call ends when the peer closes; `$/cancel_request` ends the right request;
  a deferred function runs.
* turns: one at a time; finished once, by one of its finishers; its output holds what the agent wrote
  before answering; a closed session stays closed; cancel and close end a turn the agent ignores.
* read model: updates between turns come in generations that end once; cached configuration is used
  only when it is current; pruning keeps what is live.
* registry, bootstrap, transport: whatever was started is disposed exactly once.
* native bridges: a turn ends with the outcome the agent reported, and the right prompt gets it; what
  was spawned ends with the bridge; neither a prompt nor the teardown waits for ever.
* gateway: one turn per session, none forgotten, none used by a request it does not match, none swept during
  a turn; a listed model can be asked for.
* codec, translations, configuration: what goes in comes out, once, on every path.

`PROJECT.json` lists the places in the code where these are at risk ("hazards").

## Modules

    CallContract          TurnContract            abstract specifications
         ^                     ^
         | implemented by      | implemented by
       Peer <---- EXTENDS ---- SessionTurns       the peer, and the turns on top of it
         ^  \                       ^
         |   PeerInbound            |
    PeerProofs                 SessionTurnsProofs (also uses PeerProofs)
         ^
    PeerInboundProofs (also uses PeerInbound)

    Gateway <- GatewayProofs                      the gateway's session pool
    Stdio <- Lifecycle <- LifecycleProofs         process trees; opening and ending sessions
    ReadModel <- ReadModelProofs                  what a driver keeps beside turns
    NativeCLI <- CodexEngine, ClaudeEngine <- NativeBridge <- NativeBridgeProofs

    Metadata <- SpawnOptions, SessionStart                    pure algorithms
    Codec, Translation, SpawnOptions, InitialConfig, Routing <- Inputs <- InputsProofs
    Codec <- CodecTerms <- InputsProofs
    Inputs, SessionStart <- StartInputs

    MCPeer, MCPeerInbound, MCSessionTurns, MCGateway,         instances for TLC
    MCLifecycle, MCReadModel, MCNative, MCInputs

The state machines are composed where the code shares state: turns with the peer, both engines with
the bridge that owns them, requests for sessions with the transport and the registry. Where it
only calls, the callee's promise stands in: `Lifecycle` takes from the peer that a call returns if the agent answers
or goes away, `Gateway` takes from the driver that a turn may end at any moment.

### Peer

The goroutines that share a `Peer`: callers (`pc`, one place per step of `callRaw` and then
`AfterIdle`), the read loop (`loop`, one place per step of `Start`) and the closer (`closeStep`,
the steps of the once-only body of `Close`). Each action is one critical section or one
channel operation, so every interleaving the Go scheduler allows is a behaviour.

| TLA+ | Go |
|---|---|
| `pending`, `id` | `Peer.pending`; the id under which a call's channel is entered |
| `got`, `chClosed` | the one-slot channel of a call: its message, whether it is closed |
| `Register`, `WriteRequest`, `WriteFails` | `callRaw` up to the select |
| `TakeCtx`, `NotifyCancel`, `TakeClosed`, `TakeResponse`, `TakeChanClosed` | the cases of the select; several may be ready, and any is taken |
| `LoopTop` ... `MarkBusy` | `hasBufferedLine`, `markReadIdle`, `readMessageLine` |
| `inbox`, `nbuf` | lines the agent wrote; how many are already in the `bufio.Reader` (any number of those in the pipe may come with one read) |
| `ResolvePending`, `Deliver` | `resolvePending`, inside and outside `pendingMu` |
| `CloseChannel`, `SweepPending`, `SweepInbound` | `Close` |
| `AgentReply`, `AgentNote`, `AgentExit` | the agent: it answers what it received, again and again or never, in any order, and may die at any moment |

`replied` and `lines` are history and bound. Parsing and rendering are abstracted: a line is a
message. A write fails when the agent is gone, and may fail once the peer is closed. A write to a live agent that
does not read is a `WriteRequest` or `NotifyCancel` that is never taken: no fairness forces it (`WriteBlocks`).
`ReadEnds` is a read without a line: end of input, an error, a line too long; a loop that has just handled the last,
unterminated line goes there too (`AfterLine`).

### PeerInbound

Adds the goroutines of `handleRequest` (`hpc`), the map of cancel functions (`inboundCancel`), the
`$/cancel_request` handler, the sweep of `Close` and the context `Start` was given (`parentDone`,
cancelled by the teardown of `stdio.go`). The agent chooses the id of each request and may use
one twice: a request that registers takes the entry of another, one that ends deletes whatever is there (`Displaced`;
`lost` is history). A handler of the host may return anything at any time, or never; `-32800` needs a
cancelled context, its request's or, for the handlers in `Own`, one of its own making.

### SessionTurns

A member of `Calls` is one `StartTurn`; an accepted one is also the `session/prompt` call that its
`runPrompt` goroutine makes on the peer. Beside the peer's goroutines there are `runPrompt`, the
cancel timer, and the closers: `"session"` is `Session.Close` or `Delete` (after the session's write
lock), `"runtime"` is `Runtime.Close` (without it).

| TLA+ | Go |
|---|---|
| `StartTurn`, `RefuseTurn`, `EmitStarted` | `Session.StartTurn` and the driver's, up to `go runPrompt` |
| `PromptCall`, `PromptFails` | `connection.Prompt` and the error branch of `runPrompt` |
| `SettleRead`, `SettleFinish`, `SettleReturns...` | the settle closure, on `runPrompt`'s goroutine or on the read loop |
| `FinishTurn`, `CompleteTurn` | the once-only body of `finishTurn`: the section under `mu`, then the channels |
| `CancelTurn`, `TimerFires`, `TimerFinishes` | `CancelTurn` and its `AfterFunc` |
| `SessionClosed`, `BeginClose`, `FinishInFlightTurn`, `Dispose` | `Close` and `Delete` |
| `FoldUpdate`, `EmitUpdate` | `handleSessionUpdate`: under `mu`, and after it |

`panicked` is a send on a closed events channel, which ends the process. `output` and `final` are sets
of updates; `early` is history: the updates the agent wrote before its answer.

### Gateway

HTTP requests (`Reqs`), the cleanup ticker (`Janitor`) and `Server.Close` (`Main`) over the map of session
records. A step is one section under `Server.mu` or under a record's mutex; between two steps a
handler holds its record without a lock, which is where the trouble is. The agent session behind a
record is only open or closed (`acp`): its turns are the business of `SessionTurns`, and a turn may end at
any moment. The agents in `Silent` may leave a prompt or a `session/close` unanswered for ever.

| TLA+ | Go |
|---|---|
| `listed`, `alias` | keys of `Server.sessions`; `Server.responses` |
| `busy`, `stale` | `sessionRecord.busy`; whether now is after `expiresAt` |
| `AskNew`, `StartOk`, `StartFails`, `Insert` | `createPersistentSession`: first test, start without lock, second test and insertion |
| `AskTemporary` | a request without a session: one turn, then the deferred `Close` |
| `AskNamed`, `AskPrevious`, `GetSession`, `Validate` | by session id or `previous_response_id`; `validatePersistentSession` in its two parts |
| `Register`, `Begin`, `End` | `registerResponseSession`, `tryBegin`, the deferred `end` |
| `Remove` | `removeSession` (DELETE, expired on validation) |
| `AskList`, `Sweep`; `Look`, `Delete`, `SweepEnds` | `cleanupExpired` in a handler and on the ticker; for each expired record `isBusy` under the record's mutex, then the deletion, all with `Server.mu` held (`Locked`) |
| `Drain`, `CloseRuntime` | `Server.Close` |
| `todo`, `CloseOne` | the records a goroutine took out of the map and has yet to close |

Time is abstracted to `stale`, which may rise at any moment and which every refresh lowers: the
time-to-live is a setting and a turn has no limit. Owner, fingerprint and system prompt of a
request are its `Profile`; the chat and the responses handlers hash different fields, so their
fingerprints never agree (`Hash`), and a request or a session without a system prompt matches any (`Compatible`).
The expiry of every record is tested at the start of a sweep: a turn that begins and ends before its record's
turn in the loop comes does not save it in the model, while the code may still see the new `expiresAt`.

### NativeCLI, CodexEngine, ClaudeEngine, NativeBridge

The transport of the two native agents: the requests a bridge serves, one goroutine each, the engine's
mutex, the CLI processes with their stdout, and `dispose`. `NativeCLI` has the state, the CLI and the teardown,
each engine its own steps, `NativeBridge` the composition; a behaviour is of one engine.

| TLA+ | Go |
|---|---|
| `proc`, `loop`, `out` | child processes, their read loops, lines not read yet |
| `pooled`, `Host`, `Key` | codex: the daemon of a configuration; claude: the session's own process |
| `mu` | `engine.mu`, held by a spawn through its handshake (codex) or until it is marked spawned (claude) |
| `turn`, `fin`, `waitOn` | the turn a session is in, how it was settled, the turn a prompt waits for |
| `OpenThread`, `Handshake`, `ThreadOpened` | `ensureDaemon`, which spawns again after a failed handshake, and `thread/start` or `thread/resume` |
| `LoopEnds`, `TooLong` | the read loop ends with its stdout, or at a line beyond the limit while the process lives |
| `CodexPrompt` ... `CodexPromptReturns`, `CodexLine` | `Prompt` of `native_codex.go`, `handleNotification`, `settleTurn` |
| `NewSession`, `LoadSession`, `Spawn`, `ClaudePrompt` ... `ClaudeLine` | `native_claude.go`; `loop = "perm"` is `handleCanUseTool`, which waits for the host |
| `DisposeBegin`, `EngineClose`, `Kill`, `DisposeReturns`, `DisposeRetries` | `native_bridge.go`, `Close` of the engines, `stopNativeProcess` |
| `CLITakes`, `CLIRefuses`, `CLIEnds`, `CLIErrs`, `CLIAsks`, `CLIExits` | the CLI (external): one turn of a session at a time, ended as it likes or never |

`told` is history: how the CLI ended the turn of each prompt. Only claude asks for permissions here: a
codex approval is answered on a goroutine of its own and holds nothing up. A session id is loaded once on a connection
(`session_service.go` opens one session on each; a second load would replace the entry of a running process,
`native_claude.go:117`). Two assumptions about processes: a kill without
a deadline (after a failed handshake) ends the process, and a write to a CLI's stdin completes. The code is
weaker where the second fails: `writeLine` holds `p.mu`, which the kill needs (`native_claude.go:900-907`).

### Stdio, Lifecycle

`Stdio` is one process tree per connection and the teardown that `dispose` starts once. Time is left out: a timer may
fire at any moment, so every race of an exit with the escalation is a behaviour. `Lifecycle` puts on top the
requests that open sessions and what ends them.

| TLA+ | Go |
|---|---|
| `leader`, `kid` | the child, a descendant that holds its stderr (external) |
| `StartTeardown`, `TeardownSeesExit`, `TeardownTimer` | `teardownOnce`, the waits of 1.5 s, 1 s, 3 s with stdin closed, SIGTERM, SIGKILL |
| `Begin`, `BootstrapCall`, `EndCall` | `Create`, `Load`, `Resume`, `Fork`, `ListAgentSessions`: spawn, initialize, authenticate, open, initial configuration, undoing |
| `DisposeCall`, `DisposeReturns` | `runSessionCleanup`, `driver.Delete`, the context of the caller |
| `Register`, `Unregistered`, `EndSession`, `Snapshot`, `RuntimeClose` ... | the registry of `runtime.go`, `Session.Close`, `Session.Delete`, `Runtime.Close` |
| `Namesakes`, `lost` | sessions of one id share an entry of the registry; history: who lost it |
| `status`, `ended` | `RuntimeError.CleanupStatus`; what `Close` or `Delete` returned |

The agents in `Silent` may leave `session/close` unanswered while they live.

### ReadModel

What a driver keeps beside its turns. The read loop takes a line (`ReadUpdate`), binds an update with no turn in flight to a
generation (`Bind`, under `mu`) and sends it (`LoopSends`, after it). `TakeTerminal` is what `StartTurn` and `Close`
take out under `mu` and send later. A setter is `BeginConfigChange`, the call, `ApplyAnswer` or, when its context ends
first, `SetterGivesUp`, then `EndConfigChange`. `Victims` is `pruneToolCallsLocked`: map order is a choice. The agent
(external) answers setters, those that gave up too, changes options by itself, then says so, in one order of lines.
A generation is counted; `UpdateID` is the name the host sees, the agent's message id when there is one. `mover`,
`lapsed`, `ids` are history.

### Inputs and the pure modules

`Inputs` builds every input, one unit a step up to a length the configuration bounds, and its invariants compare an algorithm
with its reference in each state: an invariant is a statement about every input. `StartInputs` adds those of
`SessionStart`. `Metadata` has the trees that host and agent exchange.

| module | Go | reference |
|---|---|---|
| `Codec` | `appendRPCMessage`, `parseRPCMessage`, the scanners, `parseRPCID` | the grammar of RFC 8259 and the round trip |
| `Translation` | content blocks into each CLI's input; CLI events into `session/update` | each block once, each text once, each tool call from its start to one end |
| `SessionStart` | `prepareAgentSessionStart`, prompt projection, `AgentConfig`, merging of metadata | the agent sees the prompt the host gave, once; nothing the host set is lost |
| `SpawnOptions` | `claudeProc` options, `buildArgs`, the launch | what was acknowledged is in the flags |
| `InitialConfig` | `applyInitialConfig` against an agent that answers anything | the report is true |
| `Routing` | `modelsForList`, `publicModelIDs`, `resolveModelRoute`, `validateModelRoute` and what they call | a listed id leads to an agent that has the model |

Characters, tokens, fields and settings are classes: a string is a sequence of kinds of characters (plain, quote, escape,
hexadecimal digit ...), an id its text split at slashes. A loop of the code is a recursive function over the
positions of its input, so that it can be unfolded in a proof; only `SessionStart` and `StartInputs`, which walk trees,
have recursive operators, and nothing is proved of them.

`Codec` refuses what the code refuses beyond the grammar: a member whose value does not decode into its field (a method that
is no string, an error that is neither an object nor null; the fields of an error object, which must decode too, are not looked into) and a key whose escapes cannot be unquoted. In `Translation` a settled
codex turn stays on record until the next prompt replaces it, so late deltas are streamed; a prompt while one is in flight is
refused. The usage of a prompt is read as its turn settles: one reported between `turn/completed` and the moment the
prompt reads it is not modelled.

## Runs

`tlc -config X.cfg M`; every run finishes in minutes.

| run | module, cfg | question |
|---|---|---|
| `peer` | MCPeer, MCPeer.cfg | two calls, one cancellable: answers, cancellations and closing never confuse channels; the peer implements `CallContract`; calls end unless the agent never reads, deferred functions run |
| `inbound` | MCPeerInbound, MCPeerInbound.cfg | two requests over two ids, shared or not: the cancel map reaches every running request but those that lost their entry to another of their id; a cancel that is read then ends its request |
| `turns` | MCSessionTurns, MCTurns.cfg | two turns, a timer, `Session.Close`: single flight, output, thread order; the driver implements `TurnContract` |
| `turns_live` | MCSessionTurns, MCTurnsLive.cfg | one turn, both closers: cancel, close or a dead connection ends it, unless a write waits for ever for a live agent that does not read |
| `gateway` | MCGateway, MCGateway.cfg | two requests of two owners, the ticker and a shutdown over a pool of one: one turn per session, limit, no session lost, none used by a request it does not match; every session is closed in the end, by expiry or by shutdown, unless an agent never answers |
| `native` | MCNative, MCNative.cfg | either engine, two sessions, two prompts, the bridge's teardown: results keep to their prompts, closing leaves no process; a prompt returns once its CLI's output has ended, and so does the teardown |
| `lifecycle` | MCLifecycle, MCLifecycle.cfg | two requests for sessions of one id against `Runtime.Close`: every process is disposed, the registry holds each live session but those that lost their entry to another of their id, reports are true, `Runtime.Close` returns unless an agent never answers |
| `readmodel` | MCReadModel, MCReadModel.cfg | two setters that may give up against notifications, updates between turns: current options are the agent's unless it last applied a setting whose setter had gone, generations end once, running tool calls outlive finished ones |
| `inputs` | MCInputs, MCInputs.cfg | the pure algorithms on every bounded input |
| `turns_panic` | MCSessionTurns, MCTurnsPanic.cfg | disagreement 1: TLC finds the counterexample |
| `codex_failed` | MCNative, MCNativeFailed.cfg | disagreement 2: TLC finds the counterexample |
| `gateway_sweep` | MCGateway, MCGatewaySweep.cfg | disagreement 6: TLC finds the counterexample |

**Bounds.** No run uses a state constraint.

* `MaxLines` bounds what the agent writes: two lines let it answer twice, answer both calls,
  or put an update beside an answer; three (`inbound`) let a cancel follow two requests. Two calls are
  enough for a confusion of channels, two turns for a turn that outlives its successor's start;
  the proofs remove both bounds. `MaxChunks` is the number of updates per turn, `MaxThread` the thread's cap
  (three, below the four entries of two turns, so that pruning happens). In `SessionTurns` the
  agent answers a prompt once; duplicate answers are checked in `peer`.
* Gateway: two sessions over a limit of one make two creations collide, and one has a silent agent; `Asks` bounds
  what each request may be: between them the two are of every kind, a DELETE comes from the owner or a stranger, two
  chat requests have different system prompts, of two responses requests one has none. All are for one agent, model
  and cwd: a chat and a responses request, whose fingerprints differ, are the mismatch of those.
* Native: two sessions of one configuration share a codex daemon; both prompts are for one session, so a
  result can meet the wrong one. `Eventful` names the prompt that may be cancelled, ask, fail or
  cause a line too long; `MaxFails` lets one kill go unconfirmed, so that a teardown is retried.
* Lifecycle: two connections whose agents answer one session id, as start beside resume or fork beside list
  (`load` takes the path of `fork`); one process has a descendant, the other survives SIGKILL; one agent is silent.
* ReadModel: two setters, alike; either may give up. A channel of two slots, a cap of one tool call, and three lines, so that
  the channel overflows, a generation follows another and a prune has a choice. Symmetric in setters, snapshots, message
  ids and tools.
* Inputs: `Longest` gives the length of each kind (six tokens, characters or digits; three to five events, blocks or
  settings); `MaxDepth` 1, two hexadecimal digits, `MaxInt` 127 put each limit of the scanners
  within reach.

`CHECK_DEADLOCK FALSE`: a peer whose calls have ended and whose agent writes nothing more may
stop, a program that has panicked does, a gateway or a bridge whose requests are all answered waits, and so does
a session nobody closes. An input of full length is the end.

**Fairness.** Weak fairness of each goroutine's next step: Go runs a goroutine that can run. A
timer that is armed fires. No write is forced through while the agent lives, for it need not read (`WriteBlocks`,
`CancelBlocks`), and no read while nothing is written (`ReadBlocks`): the liveness properties of `Peer` and
`SessionTurns` allow for a write that waits for ever. A closer goes on as far as finishing the turn it captured, which it
does after it has written `session/cancel`. Nothing is assumed of the agent, of
the host (it need not cancel or close), of handlers whose context is live, or of
`session/close`, which may never be answered. The liveness properties of `SessionTurns` also allow for
`panicked` and, where it applies, for the lost settle function of disagreement 4; they say nothing
of what those two defects already break. In `Gateway` a handler gets `Server.mu` in the end although
sweeps take it again and again (strong fairness: a `sync.Mutex` passes to the one that waits), the ticker ticks until
shutdown, and time passes; a start may take for ever, and so may a turn or a close where the agent is in `Silent`;
nobody has to send a request or to shut down. In `NativeBridge` the goroutines of prompts, of
the read loops and of `dispose` run; a CLI need never answer or exit, its stdout need not end when it does (a
descendant may hold it), a host never decides a permission: it is the bridge's own context, which `dispose` cancels, that
ends a handshake under the mutex. In `Lifecycle` the teardown's timers fire and `Runtime.Close` takes its own steps, its
`session/close` returning unless a connected agent of `Silent` is asked; processes and other callers owe nothing.

## Disagreements found

1, 2 and 6 are runs that expect a violation. The others were seen in the models and are described
here; the properties say nothing of the cases they break, or say, as `CancelMapExact` and `RegistryExact`, exactly when
they happen.

1. `turns_panic` (`session_driver.go:520`). `handleSessionUpdate` captures the turn under `mu` and emits
   to it after; `finishTurn` may close the turn's events channel in between, and the send panics
   instead of being delivered or dropped. `Runtime.Close` against `StartTurn`'s own "started"
   event is the same defect.
2. `codex_failed` (`native_codex.go:400`). `turn/completed` settles its turn with success before it looks at
   `turn.status`, and settling twice is a no-op: a failed turn is reported as completed unless an
   `error` notification came first.
3. `rpc.go:190`. Between the read of a line and `markReadIdle(false)`, `readIdle` is still
   true, so `AfterIdle` runs its function while a line is unprocessed; an update in it misses `OutputText`.
4. `rpc.go:232`. `AfterIdle` promises that its function runs on the caller or on the read
   loop. If the answer to a prompt is the last line before end of input, the loop may pass its last
   `markReadIdle(true)` and then `markReadIdle(false)` before `runPrompt` calls `AfterIdle`: the settle
   function is queued, the loop ends, nobody runs it. The turn never completes and `Session.Run`
   waits forever.
5. `rpc.go:431`. `Close` means to cancel every inbound request in flight, but a
   request whose goroutine registers after the sweep keeps a live context.
6. `gateway_sweep` (`openai/server.go:1281`). "Never tear down a session mid-turn" (1276): the sweep asks `isBusy`
   (1278) under the record's mutex and deletes the record (1281) after releasing it. `tryBegin` needs that mutex only, so
   a request that holds the record begins a turn in between, or between the deletion and the close (1287), and the
   session is closed under it. `validatePersistentSession` (1003) does not ask at all: when a turn outlasts the
   time-to-live, which is one of idle sessions (README.zh-CN.md:116), the next request that names its session
   closes it under the running turn.
7. `session_driver.go:297-309`, `session_service.go:54-58`. `driver.Delete` joins the errors of `session/delete` and of
   `dispose`, so `CleanupStatus` is "failed" (`errors.go:5-11`) for a session that was deleted when only the process
   ended badly; SIGTERM alone is such an end.
8. `types.go:453-454`. A body bound before `StartTurn` takes the terminal of its generation is sent after it
   (`AtMostOneStraggler` bounds it to one); a dropped terminal leaves a generation open for its reader. The `UpdateID` is the
   agent's message id when there is one (`session_driver.go:845-851`): one that comes again after its terminal opens and
   ends the same `UpdateID` again.
9. `session_driver.go:403-405`. `SetAgentMode` may overwrite a newer `current_mode_update`. A finished tool
   call that was just updated may be pruned, and its event then carries the zero value (627, 774-779).
10. `native_codex.go:491-497`. A cancelled prompt whose `turn/start` fails late deletes the entry of the next
    prompt's turn, whose `turn/completed` then settles nothing. A dead daemon stays pooled.
11. `native_claude.go:401-425`. An option acknowledged between `buildArgs` and `spawned = true` is in no
    flag (46-48 says that spawn options are refused after the launch); `SpawnCarriesOptions` leaves this window out. `buildArgs`
    reads the model without `p.mu`.
12. `native_claude.go:721-734`. A `TodoWrite` whose input does not decode is not remembered, so that its result is
    an update of a tool call nobody started. A codex item that straddles two prompts repeats its text, and
    deltas without a turn are dropped (`native_codex.go:288-306`, 353-365).
13. `profiles.go:278-280`, 323-333. Paths under `AgentConfig.Permissions.Deny` (`types.go:740`) become writable roots of
    codex; `Extra` is dropped for codex; what two comments call a deep merge (`profiles.go:335`, `agents.go:119`)
    replaces whole values. `CODEX_CONFIG=null` decodes to a nil map, which the next assignment panics on (not modelled).
14. `stdio.go:112`, `native_process.go:44`. With stderr inherited, a graceful exit of the process leaves its
    descendants without a signal (`CleanEndLeavesNoTree` is about captured stderr).
15. `rpc.go:564-567`, 741-746, 982-992. `strconv` writes `\x01`, `\a`, `\v` escapes that the scanner refuses, and refuses `\/`
    and surrogate pairs, which JSON has, in methods and in escaped keys, also keys that no one reads: such a line is
    dropped. So is an answer whose `error` is not an object or null (762-767), and its call is left waiting.
16. `openai/server.go:730-736`, 802-818. README.md:98 says that listed ids are routable; a listed public id that has a slash of its own
    is taken for an agent and refused, and so is a bracketed bare model beside an `agent/model` id.
17. `rpc.go:200`. A `$/cancel_request` that the loop reads before the goroutine of its request has registered the
    cancel function finds nothing, and is lost.
18. `rpc.go:435-438`. Of two requests under way with one id the first to end deletes the other's cancel function. The
    comment says that the entry "will be re-added, which is harmless"; nothing adds it again, and the other
    request can no longer be cancelled.
19. `session_driver.go:329-331`. The comment says that `finishTurn` still unblocks the host when the agent ignores
    `session/cancel`. It runs after the write of that notification, which waits when a live agent does not read; a
    prompt stuck in a full pipe holds the write lock too.
20. `session_driver.go:413-416`. A setter whose context ends leaves without the answer, while the agent may apply the setting
    later: a notification folded after the setter has left makes options current that are then stale (62-63 says that
    only authoritative snapshots are).
21. `runtime.go:136`, 154-158. Two sessions of one id share an entry of the registry: registering one replaces the other,
    closing one removes whichever is there, and `Runtime.Close` misses the other. (`Load` and `Resume` of an id that is
    open are two such.)
22. `session_driver.go:284`. `Close` waits for the answer to `session/close` as long as its context lives, and the gateway gives
    it `context.Background()` on expiry and shutdown (`openai/server.go:1005`, 1287, `cmd/acp-openai-server/main.go:92`). An
    agent that does not answer stops the ticker, or the shutdown before it comes to the other sessions, against
    README.md:128 ("closes every registered managed ACP session"); `Runtime.Close` likewise.
23. `openai/server.go:1011`. README.md:126 says that sessions are isolated by system prompt hash; a request without a system
    prompt is let in to a session with any, and the reverse.
24. `openai/server.go:565-573`, 656-665. README.md:126 says that concurrent requests return `session_busy`. Only the stream
    paths do, with 409; otherwise the answer is 502 `acp_turn_error`.

## Proofs

For any sets of calls, turns, closers, messages, connections, requests, sessions and prompts and any number of lines:

* `PeerProofs`: `TypeCorrect`, `BookkeepingCorrect`, `OwnAnswerHolds`, `DeliverSafeHolds`,
  `CancelOnlyUnansweredHolds`. The last three are not inductive: that a delivered answer is the
  caller's own needs to know that ids are never shared, that every answer on its way carries the id of
  the call it names, that an entry of the pending map is an empty, open channel, and that the
  call that gave up is in no map. That is `Bookkeeping` (four named parts). Each part reads few variables,
  so a step either leaves them alone (the frame lemmas) or is argued part by part.
  `PeerImplementsContract`, `Spec => CallPromise!Spec`, needs two more
  invariants (a call has a result exactly when it has returned; a closed empty channel means a closed
  peer).
* `SessionTurnsProofs`: `TurnsUsePeer`, `SpecT => Spec`: the composition adds no step to the peer, so
  what is proved of `Peer` holds under the driver too (`TurnsKeepAnswers`). `OneTurnAtATime`, `StatusIsRight`,
  `TimersAreOfTheCurrentTurn` follow from one inductive invariant, `SingleFlight`: besides the
  three, whoever may enter `finishTurn` (a settle function, a timer, a closer) holds a turn that was
  accepted. The other two results need the peer and the driver together. `TurnsImplementContract`,
  `SpecT => ImplementsTurns`, maps every step to one of `TurnContract` or a stutter: a turn may be settled as
  completed because a settle function belongs to a call that returned successfully (`SettlesAnswered`, an
  invariant of the peer), whose answer the agent wrote (`OwnAnswer`), and as closed because a closer has
  closed the driver first (`ClosersSeeClosed`). `Classified` sorts the steps once for all these arguments.
  `OutputIsInPlace` is two arguments. Of the thread: while a turn is current, the last entry is its user message, which the cap
  cannot take (`ThreadInv`). Of the text: an update written before the answer is ahead of it on the wire, so
  the loop has taken it when it takes the answer (`WireInv`), and until a settle function has read the text an
  update taken is folded or in the loop's hand (`EarlyKept`). That covers a settle function that runs on the caller
  while a line is unprocessed (disagreement 3): such a line came after the answer.
* `GatewayProofs`: `OneTurnHolds`, `SessionsAccountedHolds`, `IsolationHolds`, all from `PoolInvariant`.
  `Isolation` is of the match the code makes, with absent system prompts matching any (disagreement 23).
  One turn per session does not follow from the busy flag alone: a temporary session has no
  record and no flag. The invariant (`GatewayInv`) separates published records, which the map has offered
  at some time and handlers may hold, from private ones, which only their creator knows; the
  phases of a request say which it can hold. Whoever is past `getSession` has had its owner tested (`OwnerChecked`), and
  one sweep at a time holds `Server.mu`, with listed records before it (`SweepHolds`). `LimitHoldsAlways` is an argument about the size of the map
  alone: only `Insert` adds to it, and tests first. The action property `UnlistingDropsAliasesAlways` (a response
  id never stands for a session taken out in the same step) is proved only, no run checks it.
* `LifecycleProofs`: `LifecycleTypes`, `FailureDisposesHolds`, `StatusIsTrueHolds`, `RegistryExactHolds`,
  `CleanEndHolds`, all from `LifeInv`. That no listed session has lost its process needs `Phases`: nobody
  but the request itself touches the process of a session still being opened, and a host ends a session only
  after the request returned it. `Listing` adds that what `Runtime.Close` took out of the registry is not in it.
  `OpenIsListed` is a part of the invariant, with the sessions that one of the same id took out of the registry in `lost`, and
  `LostAreSessions` (only a session that its host was given is there) keeps failed openings out of it.
  `Deletions` follows a `session/delete` from its answer to the report of it; `Trees` follows the teardown's
  error from `cmd.Wait` to what `Close` returns.
* `PeerInboundProofs`: `InboundUsesPeer`, `SpecI => Spec`, `InboundTypesHold`, `CancelMapHolds`,
  `CancelCodeHolds`. The loop starts a goroutine for the request in its hand, so the invariant follows a request
  from the wire: it is there once and before its goroutine is (`OnWire`), a cancel there is one the
  agent sent (`CancelsKnown`). `CancellableUnlessLost` is exact, so it has to say who is out of reach: `lost` holds the
  requests whose entry another one of their id took over or deleted, all of them under way (`LostUnderWay`). A cancelled
  context has a cancel of the agent, or `Close`, behind it (`Traced`).
* `ReadModelProofs`: `CurrentHolds`, `RunningKept`, `GenerationsEnd`. Current options are not inductive:
  an answer is trusted when its setter found nobody under way and nothing began or was read since, so the invariant
  (`ConfigInv`) says that such a setter is alone (`Alone`), that its answer is the agent's state unless a
  notification is on the wire or a setter that had given up changed it since (`AnswersFresh`), that so is the last notification
  if no answer follows it (`LastIsAgents`), that an answer with no notification after it is followed by that of whoever moved the
  agent last (`MoverIsOnWire`), and that nothing counts as current while an answer is awaited (`AwaitedIsStale`). A generation ends once because who takes a terminal closes the generation under `mu` in the same
  step (`GenInv`: `EndsOnce`, `OlderAreClosed`); the one update after it is the one the read loop had bound before,
  and the loop holds one at a time (`Straggle`).

* `NativeBridgeProofs`: `NativeTyped` and three arguments over it. `NoProcessIsLeft`: a process that is up is pooled, or being
  started by the request that holds the engine's mutex (`SpawnsUnderMu`); `Close` needs the mutex, so afterwards every
  such process is in the pool that it empties. `BusyOnlyAfterCancelHolds`: the turn of a session is that of a prompt for
  that session which has registered it, and a codex prompt that waits for anything but its own turn has lost its
  entry (`TurnsOwned`); a codex thread is on a pooled daemon until the engine closes (`ThreadsPooled`), so a daemon that
  replaces one whose handshake failed serves no turn yet. `PromptsStayInStep`, on claude: a session's message is in one place at a time (`Stage`: to be
  written, in the CLI's queue, being run, answered by a result not read yet), its turn stays unfinished until
  that result is read, also if the prompt gave up, and an unfinished turn refuses the next prompt.

* `InputsProofs`: the pure algorithms, on inputs of any length. They are recursive functions over positions, so the proofs
  are inductions: `Induction` (over naturals, from the library's well-founded induction), `FoldExists` and `BackwardExists`
  (a function defined from its value one position before, or at a later one, exists and unfolds), and
  `FoldKeeps` (what every step keeps, the result has). On these rest
  `ReportTrue`: between two calls the driver's read model is the agent's state where it is marked current (`Honest`), so an item
  skipped as equal is held (`Held`), and one that was sent was accepted.
  `ListedRoutes`: for any inventories and ids, which part of the list a public id comes from decides where it routes.
  `SpawnCarriesOptionsHolds`: an option set is in the session's state and, once no launch is under way, in the flags of the
  process (`Carries`). `TranslationFaithfulHolds`: claude's tools are told before they are updated (`ToldInOrder`), a codex
  item is streamed once, also one that comes after its turn was settled, and
  a prompt returns the usage of its own turn.
  `CodecExactHolds`, from its five parts, for any nesting limit, any number of hexadecimal digits, any largest integer and lines
  of any length. The two on nested values speak of a line by its tokens (`CodecTerms`: position `i` is after `p[i]` of them), as
  white space may be anywhere. What the scanner takes is a part of the grammar (`ScannerSound`), and a part of the grammar up to
  a delimiter is what the scanner takes (`ScannerComplete`), both by induction from the end of the line; the grammar splits a list at
  any comma, so `Linear` first shows that it splits at its first one. A message is taken when every member of its first level decodes
  (`MembersDecode`), and its methods are those of that level, which needs `Nested`: a value closes the brackets it opens, and all in it is deeper. `ParsedFrom` then
  follows the members of a message from the last to the first.

Assumptions: those named in the modules (`None` is no message, call, session, prompt or connection, "error" is no snapshot, notes are not responses,
`MaxLines` is a natural number, in `SessionTurns` the shape of the updates, in `NativeCLI` that no request for a session is one for a
prompt: both may hold the engine's mutex,
in `Gateway` that the ticker and the closer are no requests, and that what may
go unanswered or share an id (`Silent`, `Own`) is a set of sessions, connections or requests). TLC evaluates each.

Only model-checked: liveness (fairness is out of the prover's reach), and `StartKeepsIntent`, as `SessionStart` is recursive. Every
other invariant and action property that a passing run checks, and both refinements, are proved.

## Not modelled

* The clock of the gateway's model cache (a discovery cut short by a disconnect is cached, `openai/server.go:353`), and the
  rendering of HTTP requests, answers and event streams: text layout, with no state beside the pool.
* Codex approvals, their allow list, and process logs of the native bridges; cancel and interrupt beyond their effect,
  that the CLI ends its turn.
* Permissions, operations and usage in the read model: each is an assignment or an append under `mu`.
* `Connection` (typed wrappers of peer calls), protocol types, the simulator (one of the agents the models leave free to do
  anything), harness and commands, registry caches and path lookup: tables, data, input and output.
* The Windows variant of the process tree, which signals the process alone.
* A panic of the process ends every model's interest (`panicked`); there is no persistence, so no recovery, to model.
