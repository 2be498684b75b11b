---------------------------- MODULE ClaudeEngine ----------------------------
(***************************************************************************)
(* The claude engine (native_claude.go): one stream-json process per session, *)
(* spawned by the first prompt or by session/load, whose read loop answers    *)
(* permission prompts itself.                                               *)
(***************************************************************************)
EXTENDS NativeCLI

Claude == engine = "claude"

\* NewSession and ForkSession only record the session; LoadSession spawns at
\* once and takes the session back when that fails.  Bound: a session is loaded
\* once (a second load on the same connection would replace its process).
NewSession(s) ==
    /\ Claude /\ sess[s] = "none"
    /\ sess' = [sess EXCEPT ![s] = "open"]
    /\ UNCHANGED <<engine, pc, res, ctxDone, mu, pooled, turn, fin, waitOn, proc, loop, gone,
                   out, cli, asked, verdict, teardown>>

\* ensureSpawned, under engine.mu, starts the process...
Admits == ~closed

Spawn(s, holder) ==
    /\ Admits /\ s \notin pooled /\ proc[s] = "none"
    /\ mu' = holder /\ Launched(s)

\* ... and marks it spawned.
Spawned(s) == mu' = None /\ pooled' = pooled \cup {s}

LoadSession(s) ==
    /\ Claude /\ sess[s] = "none" /\ mu = None
    /\ \/ Spawn(s, s) /\ sess' = [sess EXCEPT ![s] = "spawning"]
       \/ sess' = [sess EXCEPT ![s] = "failed"] /\ UNCHANGED <<mu, proc, loop>>
    /\ UNCHANGED <<engine, pc, res, ctxDone, pooled, turn, fin, waitOn, gone, out, cli, asked,
                   verdict, teardown>>

LoadSpawned(s) ==
    /\ Claude /\ sess[s] = "spawning" /\ mu = s
    /\ Spawned(s) /\ sess' = [sess EXCEPT ![s] = "open"]
    /\ UNCHANGED <<engine, pc, res, ctxDone, turn, fin, waitOn, proc, loop, gone, out, cli,
                   asked, verdict, teardown>>

-----------------------------------------------------------------------------
(* prompt.                                                                   *)

\* The session is unknown, the engine closed or the spawn failed; spawned; or
\* spawned before.
ClaudePrompt(p) ==
    /\ Claude /\ HostPrompts(p) /\ sess[Of[p]] \in {"open", "dropped"} /\ mu = None
    /\ \/ /\ ~Admits \/ Of[p] \notin pooled
          /\ Return(p, "nospawn") /\ UNCHANGED <<mu, proc, loop>>
       \/ /\ Spawn(Of[p], p)
          /\ pc' = [pc EXCEPT ![p] = "spawned"] /\ UNCHANGED res
       \/ /\ Admits /\ Of[p] \in pooled
          /\ pc' = [pc EXCEPT ![p] = "turn"] /\ UNCHANGED <<res, mu, proc, loop>>
    /\ UNCHANGED <<engine, sess, ctxDone, pooled, turn, fin, waitOn, gone, out, cli, asked,
                   verdict, teardown>>

PromptSpawned(p) ==
    /\ Claude /\ pc[p] = "spawned" /\ mu = p
    /\ Spawned(Of[p]) /\ pc' = [pc EXCEPT ![p] = "turn"]
    /\ UNCHANGED <<engine, res, ctxDone, sess, turn, fin, waitOn, proc, loop, gone, out, cli,
                   asked, verdict, teardown>>

\* Mutation: a turn its own prompt gave up on no longer counts as in flight.
Forgotten(s) == Unfinished(s) /\ pc[turn[s]] # "done"
InFlight(s) == Unfinished(s)

ClaudeTurn(p) ==
    /\ Claude /\ pc[p] = "turn"
    /\ IF InFlight(Of[p])
       THEN Return(p, "refused") /\ UNCHANGED <<turn, waitOn>>
       ELSE /\ turn' = [turn EXCEPT ![Of[p]] = p] /\ waitOn' = [waitOn EXCEPT ![p] = p]
            /\ pc' = [pc EXCEPT ![p] = "write"] /\ UNCHANGED res
    /\ UNCHANGED <<engine, ctxDone, sess, mu, pooled, fin, proc, loop, gone, out, cli, asked,
                   verdict, teardown>>

\* The user message; a write error is dropped.
WriteMessage(p) ==
    /\ Claude /\ pc[p] = "write"
    /\ pc' = [pc EXCEPT ![p] = "wait"]
    /\ inq' = IF proc[Of[p]] = "up" THEN [inq EXCEPT ![Of[p]] = Append(@, p)] ELSE inq
    /\ UNCHANGED <<engine, res, ctxDone, sess, mu, pooled, turn, fin, waitOn, proc, loop, gone,
                   out, running, told, erred, asked, verdict, teardown>>

ClaudePromptReturns(p) ==
    /\ Claude /\ pc[p] = "wait"
    /\ \/ fin[p] # "no" /\ Return(p, TurnResult(p))
       \/ Of[p] \in gone /\ Return(p, IF fin[p] # "no" THEN TurnResult(p) ELSE "closed")
       \/ p \in ctxDone /\ Return(p, "ctx")
    /\ UNCHANGED <<engine, ctxDone, sess, mu, pooled, turn, fin, waitOn, proc, loop, gone, out,
                   cli, asked, verdict, teardown>>

-----------------------------------------------------------------------------
(* handleLine: a result ends the session's turn, a permission prompt keeps    *)
(* the loop until the host has answered.                                     *)

\* Mutation: is_error is not looked at.
IgnoreError(how) == "ok"
HowEnded(how) == IF how = "failed" THEN "err" ELSE "ok"

ClaudeLine(k) ==
    /\ Claude /\ loop[k] = "read" /\ out[k] # <<>>
    /\ LET e == Head(out[k]) IN
       /\ out' = [out EXCEPT ![k] = Tail(@)]
       /\ fin' = IF e.type = "end" /\ Unfinished(k)
                 THEN [fin EXCEPT ![turn[k]] = HowEnded(e.how)] ELSE fin
       /\ verdict' = IF e.type = "ask" THEN [verdict EXCEPT ![k] = "pending"] ELSE verdict
       /\ loop' = IF e.type = "ask" THEN [loop EXCEPT ![k] = "perm"] ELSE loop
    /\ UNCHANGED <<bridge, mu, pooled, turn, waitOn, proc, gone, cli, asked, teardown>>

ClaudeSessionStep(s) == NewSession(s) \/ LoadSession(s) \/ LoadSpawned(s)
ClaudePromptStep(p) ==
    PromptSpawned(p) \/ ClaudeTurn(p) \/ WriteMessage(p) \/ ClaudePromptReturns(p)
=============================================================================
