----------------------------- MODULE CodexEngine -----------------------------
(***************************************************************************)
(* The codex engine (native_codex.go): app-server daemons pooled by           *)
(* configuration, one JSON-RPC peer each, threads as sessions.  The           *)
(* notifications of a thread name the thread, not the turn.                  *)
(***************************************************************************)
EXTENDS NativeCLI

Codex == engine = "codex"

\* ensureDaemon, under e.mu: refuse when closed, reuse a pooled daemon whatever
\* became of its process, else spawn one and keep e.mu through its handshake.  An
\* earlier one whose handshake failed was not pooled; its loop has ended.
\* (Loading a thread that is open returns at once: alive() holds of it for ever.)
\* Mutation: the closed flag is not looked at under the mutex.
AlwaysAdmit == TRUE
MayAdmit == ~closed

OpenThread(s) ==
    /\ Codex /\ sess[s] = "none" /\ mu = None
    /\ \/ /\ ~MayAdmit
          /\ sess' = [sess EXCEPT ![s] = "failed"]
          /\ UNCHANGED <<mu, proc, loop, gone>>
       \/ /\ MayAdmit /\ Key[s] \in pooled
          /\ sess' = [sess EXCEPT ![s] = "calling"]
          /\ UNCHANGED <<mu, proc, loop, gone>>
       \/ /\ MayAdmit /\ Key[s] \notin pooled /\ loop[Key[s]] \in {"off", "done"}
          /\ sess' = [sess EXCEPT ![s] = "spawning"]
          /\ mu' = s /\ Launched(Key[s]) /\ gone' = gone \ {Key[s]}
    /\ UNCHANGED <<engine, pc, res, ctxDone, pooled, turn, fin, waitOn, out, cli, asked,
                   verdict, teardown>>

\* The initialize call returns: an answer, an error, or the request's context.
\* Mutation: the call is made without the request's context.
AnswerOnly(s, ok) == ok = (proc[Key[s]] = "up")
CallReturns(s, ok) == ok => proc[Key[s]] = "up"

Handshake(s, ok) ==
    /\ Codex /\ sess[s] = "spawning" /\ mu' = None
    /\ CallReturns(s, ok)
    /\ sess' = [sess EXCEPT ![s] = IF ok THEN "calling" ELSE "failed"]
    /\ pooled' = IF ok THEN pooled \cup {Key[s]} ELSE pooled
    /\ proc' = IF ok THEN proc ELSE [proc EXCEPT ![Key[s]] = "exited"]
    /\ gone' = IF ok THEN gone ELSE gone \cup {Key[s]}
    /\ UNCHANGED <<engine, pc, res, ctxDone, turn, fin, waitOn, loop, out, cli, asked,
                   verdict, teardown>>

\* thread/start or thread/resume returns.
ThreadOpened(s, ok) ==
    /\ Codex /\ sess[s] = "calling"
    /\ ok => proc[Key[s]] = "up" /\ Key[s] \notin gone
    /\ sess' = [sess EXCEPT ![s] = IF ok THEN "open" ELSE "failed"]
    /\ UNCHANGED <<engine, pc, res, ctxDone, mu, pooled, turn, fin, waitOn, proc, loop, gone,
                   out, cli, asked, verdict, teardown>>

-----------------------------------------------------------------------------
(* prompt.                                                                   *)

\* Refused while the thread's turn is unfinished, else registered as its turn.
CodexPrompt(p) ==
    /\ Codex /\ HostPrompts(p) /\ sess[Of[p]] = "open" /\ mu = None
    /\ IF Unfinished(Of[p])
       THEN Return(p, "refused") /\ UNCHANGED <<turn, inq>>
       ELSE /\ turn' = [turn EXCEPT ![Of[p]] = p]
            /\ pc' = [pc EXCEPT ![p] = "call"] /\ UNCHANGED res
            /\ inq' = [inq EXCEPT ![Of[p]] = Append(@, p)]
    /\ UNCHANGED <<engine, sess, ctxDone, mu, pooled, fin, waitOn, proc, loop, gone, out,
                   running, told, erred, asked, verdict, teardown>>

\* turn/start answered: wait for the turn the thread has now.
TurnStarted(p) ==
    /\ Codex /\ pc[p] = "started"
    /\ pc' = [pc EXCEPT ![p] = "wait"]
    /\ waitOn' = [waitOn EXCEPT ![p] = turn[Of[p]]]
    /\ UNCHANGED <<engine, res, ctxDone, sess, mu, pooled, turn, fin, proc, loop, gone, out,
                   cli, asked, verdict, teardown>>

\* It failed, the peer closed, or the context ended: the thread's entry goes.
\* Mutation: TurnDropped leaves the entry of a turn that never started.
KeepEntry(s) == turn
TurnDropped(s) == [turn EXCEPT ![s] = None]

StartFails(p) ==
    /\ Codex
    /\ \/ pc[p] = "startfailed"
       \/ pc[p] \in {"call", "started"} /\ (p \in ctxDone \/ Key[Of[p]] \in gone)
    /\ turn' = TurnDropped(Of[p])
    /\ Return(p, "startfailed")
    /\ UNCHANGED <<engine, sess, ctxDone, mu, pooled, fin, waitOn, proc, loop, gone, out, cli,
                   asked, verdict, teardown>>

\* Three channels; the peer's closing still honours a turn that has ended.
CodexTurnDone(p) ==
    /\ waitOn[p] \notin {q \in Prompts : fin[q] = "no"}
    /\ Return(p, TurnResult(p))
\* Mutation: the prompt does not watch the peer.
PeerUnwatched(p) == p \in ctxDone /\ Return(p, "closed")
CodexPeerDone(p) ==
    /\ Key[Of[p]] \in gone
    /\ Return(p, IF fin[p] # "no" THEN TurnResult(p) ELSE "closed")

CodexPromptReturns(p) ==
    /\ Codex /\ pc[p] = "wait"
    /\ \/ CodexTurnDone(p)
       \/ CodexPeerDone(p)
       \/ p \in ctxDone /\ Return(p, "ctx")
    /\ UNCHANGED <<engine, sess, ctxDone, mu, pooled, turn, fin, waitOn, proc, loop, gone, out,
                   cli, asked, verdict, teardown>>

-----------------------------------------------------------------------------
(* The daemon's read loop: responses and notifications, in order.            *)

\* settleTurn
Settle(f, s, how) ==
    IF turn[s] # None /\ f[turn[s]] = "no" THEN [f EXCEPT ![turn[s]] = how] ELSE f

\* turn/completed settles with success first, then a failed one with its error.
Completed(s, how) ==
    IF how = "failed" THEN Settle(Settle(fin, s, "ok"), s, "err") ELSE Settle(fin, s, "ok")

CodexLine(k) ==
    /\ Codex /\ loop[k] = "read" /\ out[k] # <<>>
    /\ LET e == Head(out[k]) IN
       /\ out' = [out EXCEPT ![k] = Tail(@)]
       /\ pc' = IF e.type \in {"started", "refused"} /\ pc[e.p] = "call"
                THEN [pc EXCEPT ![e.p] = IF e.type = "started" THEN "started" ELSE "startfailed"]
                ELSE pc
       /\ fin' = CASE e.type = "end" -> Completed(e.s, e.how)
                   [] e.type = "error" -> Settle(fin, e.s, "err")
                   [] OTHER -> fin
    /\ UNCHANGED <<engine, res, ctxDone, sess, mu, pooled, turn, waitOn, proc, loop, gone, cli,
                   asked, verdict, teardown>>

CodexSessionStep(s) ==
    \/ OpenThread(s)
    \/ \E ok \in BOOLEAN : Handshake(s, ok) \/ ThreadOpened(s, ok)
CodexPromptStep(p) == TurnStarted(p) \/ StartFails(p) \/ CodexPromptReturns(p)
=============================================================================
