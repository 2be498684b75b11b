------------------------------ MODULE NativeCLI ------------------------------
(***************************************************************************)
(* What the two native engines share (native_bridge.go, native_process.go): *)
(* the requests the bridge serves, each on its own goroutine, the engine's   *)
(* mutex, the CLI processes with their stdout, and the bridge's dispose.     *)
(*                                                                         *)
(* A session is served by the process Host(s): its own for claude, the       *)
(* daemon of its configuration for codex.  The CLI itself is external: it    *)
(* runs one turn of a session at a time, says how it ended, may ask for a     *)
(* permission, and may exit at any moment.                                  *)
(***************************************************************************)
EXTENDS Naturals, Sequences, FiniteSets

CONSTANTS
    Sessions,   \* session/new or session/load requests, and their sessions
    Prompts,    \* session/prompt requests
    Of,         \* the session a prompt is for
    Key,        \* codex: the session whose configuration names the daemon
    Engines,    \* the native transports to start with
    Eventful,   \* bound: prompts the host may cancel, whose turn may ask or fail
    MaxFails,   \* bound: kills that are not confirmed in time
    None

ASSUME NativeAssumption ==
    /\ Of \in [Prompts -> Sessions]
    /\ Key \in [Sessions -> Sessions]
    /\ Engines \subseteq {"codex", "claude"} /\ Eventful \subseteq Prompts
    /\ MaxFails \in Nat
    /\ Sessions \cap Prompts = {} /\ None \notin Sessions \cup Prompts

VARIABLES
    engine,     \* the engine the connection was made for
    closed,     \* engine.closed
    mu,         \* engine.mu: the request that spawns under it, or None
    pooled,     \* e.daemons, or the claude processes with spawned set
    sess,       \* NewSession and LoadSession of each session
    pc,         \* session/prompt of each prompt
    res,        \* its result
    ctxDone,    \* requests whose context is cancelled
    turn,       \* d.turns[thread], or p.turn: the prompt it was made for
    fin,        \* turn.finished and turn.err of each prompt's turn
    waitOn,     \* the turn whose done channel a prompt waits for
    proc,       \* the CLI processes
    loop,       \* their read loops
    gone,       \* exitDone is closed, or peer.Done
    out,        \* stdout lines not read yet
    inq,        \* prompts written to the CLI, by session
    running,    \* the turn the CLI runs, by session
    told,       \* how the CLI ended the turn of each prompt
    erred,      \* prompts whose turn the CLI reported an error for
    asked,      \* the permission a CLI asked for: no, asked, allowed, denied
    verdict,    \* what the host decided on it
    dpc,        \* dispose
    todo,       \* processes Close has yet to kill
    fails       \* kills not confirmed so far

bridge == <<engine, pc, res, ctxDone, sess>>
cli == <<inq, running, told, erred>>
teardown == <<dpc, todo, fails, closed>>
nvars == <<engine, closed, mu, pooled, sess, pc, res, ctxDone, turn, fin, waitOn,
           proc, loop, gone, out, inq, running, told, erred, asked, verdict,
           dpc, todo, fails>>

Host(s) == IF engine = "codex" THEN Key[s] ELSE s
Unfinished(s) == turn[s] # None /\ fin[turn[s]] = "no"

\* withNativeTransport picks the engine; engine.Start has run (initialize).
Init ==
    /\ engine \in Engines
    /\ closed = FALSE /\ mu = None /\ pooled = {}
    /\ sess = [s \in Sessions |-> "none"]
    /\ pc = [p \in Prompts |-> "idle"] /\ res = [p \in Prompts |-> "none"]
    /\ ctxDone = {}
    /\ turn = [s \in Sessions |-> None] /\ fin = [p \in Prompts |-> "no"]
    /\ waitOn = [p \in Prompts |-> None]
    /\ proc = [k \in Sessions |-> "none"] /\ loop = [k \in Sessions |-> "off"]
    /\ gone = {} /\ out = [k \in Sessions |-> <<>>]
    /\ inq = [s \in Sessions |-> <<>>] /\ running = [s \in Sessions |-> None]
    /\ told = [p \in Prompts |-> "none"] /\ erred = {}
    /\ asked = [k \in Sessions |-> "no"] /\ verdict = [k \in Sessions |-> "none"]
    /\ dpc = "idle" /\ todo = {} /\ fails = 0

Return(p, r) == pc' = [pc EXCEPT ![p] = "done"] /\ res' = [res EXCEPT ![p] = r]
Launched(k) == proc' = [proc EXCEPT ![k] = "up"] /\ loop' = [loop EXCEPT ![k] = "read"]

\* The driver on the other side of the bridge prompts one turn at a time: the
\* next comes when the last was answered, or given up with $/cancel_request.
HostPrompts(p) ==
    pc[p] = "idle" /\ \A q \in Prompts \ {p} :
        Of[q] = Of[p] /\ pc[q] \notin {"idle", "done"} => q \in ctxDone

\* How a prompt reports the turn it made: turn.err, or turn.stop.
TurnResult(p) == IF fin[p] = "err" THEN "failed" ELSE "ok"

\* The host cancels a prompt: $/cancel_request ends the handler's context.
CancelPrompt(p) ==
    /\ pc[p] \notin {"idle", "done"} /\ p \in Eventful \ ctxDone
    /\ ctxDone' = ctxDone \cup {p}
    /\ UNCHANGED <<engine, pc, res, sess, mu, pooled, turn, fin, waitOn, proc, loop,
                   gone, out, cli, asked, verdict, teardown>>

-----------------------------------------------------------------------------
(* The CLI, as the code relies on it.                                        *)

Emit(k, e) == out' = [out EXCEPT ![k] = Append(@, e)]

CLITakes(s) ==
    /\ proc[Host(s)] = "up" /\ inq[s] # <<>> /\ running[s] = None
    /\ running' = [running EXCEPT ![s] = Head(inq[s])]
    /\ inq' = [inq EXCEPT ![s] = Tail(@)]
    /\ IF engine = "codex"
       THEN Emit(Host(s), [type |-> "started", s |-> s, p |-> Head(inq[s])])
       ELSE UNCHANGED out
    /\ UNCHANGED <<bridge, mu, pooled, turn, fin, waitOn, proc, loop, gone, told, erred,
                   asked, verdict, teardown>>

\* turn/start answered with an error.
CLIRefuses(s) ==
    /\ engine = "codex" /\ proc[Host(s)] = "up"
    /\ inq[s] # <<>> /\ Head(inq[s]) \in Eventful
    /\ inq' = [inq EXCEPT ![s] = Tail(@)]
    /\ Emit(Host(s), [type |-> "refused", s |-> s, p |-> Head(inq[s])])
    /\ UNCHANGED <<bridge, mu, pooled, turn, fin, waitOn, proc, loop, gone, running, told,
                   erred, asked, verdict, teardown>>

\* turn/completed, or claude's result event.
CLIEnds(s, how) ==
    /\ proc[Host(s)] = "up" /\ running[s] # None
    /\ how = "ok" => running[s] \notin erred
    /\ how = "failed" => running[s] \in Eventful
    /\ told' = [told EXCEPT ![running[s]] = how]
    /\ running' = [running EXCEPT ![s] = None]
    /\ Emit(Host(s), [type |-> "end", s |-> s, p |-> running[s], how |-> how])
    /\ UNCHANGED <<bridge, mu, pooled, turn, fin, waitOn, proc, loop, gone, inq, erred,
                   asked, verdict, teardown>>

\* A non-transient error notification; the failed turn/completed follows.
CLIErrs(s) ==
    /\ engine = "codex" /\ proc[Host(s)] = "up"
    /\ running[s] \in Eventful \ erred
    /\ erred' = erred \cup {running[s]}
    /\ Emit(Host(s), [type |-> "error", s |-> s, p |-> running[s]])
    /\ UNCHANGED <<bridge, mu, pooled, turn, fin, waitOn, proc, loop, gone, inq, running,
                   told, asked, verdict, teardown>>

\* claude's can_use_tool; a codex approval holds up nothing the bridge waits for.
CLIAsks(s) ==
    /\ engine = "claude"
    /\ proc[Host(s)] = "up" /\ running[s] \in Eventful /\ asked[Host(s)] = "no"
    /\ asked' = [asked EXCEPT ![Host(s)] = "asked"]
    /\ Emit(Host(s), [type |-> "ask", s |-> s, p |-> running[s]])
    /\ UNCHANGED <<bridge, mu, pooled, turn, fin, waitOn, proc, loop, gone, cli, verdict, teardown>>

\* Bound: by itself only before dispose, which ends it anyway.
CLIExits(k) ==
    /\ proc[k] = "up" /\ dpc = "idle"
    /\ proc' = [proc EXCEPT ![k] = "exited"]
    /\ UNCHANGED <<bridge, mu, pooled, turn, fin, waitOn, loop, gone, out, cli, asked, verdict, teardown>>

CLIStep ==
    \/ \E s \in Sessions : CLITakes(s) \/ CLIRefuses(s) \/ CLIErrs(s) \/ CLIAsks(s) \/ CLIExits(s)
    \/ \E s \in Sessions, how \in {"ok", "failed"} : CLIEnds(s, how)

-----------------------------------------------------------------------------
(* Read loops and the permission round-trip.                                 *)

\* The scanner returns, or the daemon's peer closes: stdout is drained and its
\* last holder gone, or a line is too long, whatever became of the process.
\* Bound: only a line of an eventful prompt is.
TooLong(k) == out[k] # <<>> /\ Head(out[k]).p \in Eventful

LoopEnds(k) ==
    /\ loop[k] = "read"
    /\ TooLong(k) \/ (proc[k] = "exited" /\ out[k] = <<>>)
    /\ loop' = [loop EXCEPT ![k] = "done"] /\ gone' = gone \cup {k}
    /\ UNCHANGED <<bridge, mu, pooled, turn, fin, waitOn, proc, out, cli, asked, verdict, teardown>>

\* requestPermission returns: the host's decision or, once the bridge is down,
\* the peer's error.  Only "selected allow" allows; a claude loop reads on.
Allows(decision) == decision = "allow"

Decide(k, decision) ==
    /\ asked[k] = "asked" /\ verdict[k] = "pending"
    /\ (dpc # "idle") = (decision = "error")
    /\ verdict' = [verdict EXCEPT ![k] = decision]
    /\ asked' = [asked EXCEPT ![k] = IF Allows(decision) THEN "allowed" ELSE "denied"]
    /\ loop' = [loop EXCEPT ![k] = IF @ = "perm" THEN "read" ELSE @]
    /\ UNCHANGED <<bridge, mu, pooled, turn, fin, waitOn, proc, gone, out, cli, teardown>>

-----------------------------------------------------------------------------
(* dispose, under disposeMu: it may be called again after a failure.         *)

\* The bridge's context, pipes and peers go first.
DisposeBegin ==
    /\ dpc = "idle" /\ dpc' = "peers"
    /\ ctxDone' = Prompts
    /\ UNCHANGED <<engine, pc, res, sess, mu, pooled, turn, fin, waitOn, proc, loop, gone,
                   out, cli, asked, verdict, todo, fails, closed>>

EngineClose ==
    /\ dpc = "peers" /\ mu = None
    /\ closed' = TRUE /\ todo' = pooled /\ dpc' = "kill"
    /\ UNCHANGED <<bridge, mu, pooled, turn, fin, waitOn, proc, loop, gone, out, cli,
                   asked, verdict, fails>>

\* stopNativeProcess confirmed the exit, or its context ended first; the loop is
\* released either way.  A process that is not confirmed dead stays listed.
Kill(k, confirmed) ==
    /\ dpc = "kill" /\ k \in todo /\ mu = None
    /\ ~confirmed => fails < MaxFails /\ proc[k] = "up"
    /\ proc' = [proc EXCEPT ![k] = IF confirmed THEN "exited" ELSE @]
    /\ pooled' = IF confirmed THEN pooled \ {k} ELSE pooled
    /\ fails' = IF confirmed THEN fails ELSE fails + 1
    /\ sess' = [s \in Sessions |-> IF confirmed /\ Host(s) = k /\ sess[s] = "open"
                                   THEN "dropped" ELSE sess[s]]
    /\ todo' = todo \ {k} /\ gone' = gone \cup {k}
    /\ UNCHANGED <<engine, pc, res, ctxDone, mu, turn, fin, waitOn, loop, out, cli, asked,
                   verdict, dpc, closed>>

\* dispose returns: done, or ready for another try.
DisposeReturns ==
    /\ dpc = "kill" /\ todo = {}
    /\ dpc' = IF pooled = {} THEN "done" ELSE "retry"
    /\ UNCHANGED <<bridge, mu, pooled, turn, fin, waitOn, proc, loop, gone, out, cli,
                   asked, verdict, todo, fails, closed>>

DisposeRetries ==
    /\ dpc = "retry" /\ dpc' = "peers"
    /\ UNCHANGED <<bridge, mu, pooled, turn, fin, waitOn, proc, loop, gone, out, cli,
                   asked, verdict, todo, fails, closed>>

DisposeStep == EngineClose \/ DisposeReturns \/ \E k \in Sessions, c \in BOOLEAN : Kill(k, c)
=============================================================================
