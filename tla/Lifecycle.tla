----------------------------- MODULE Lifecycle -----------------------------
(***************************************************************************)
(* A session from the request that opens it to its end (runtime.go,           *)
(* session_service.go, session.go): Runtime.StartSession, LoadSession,        *)
(* ResumeSession, ForkSession and ListSessions spawn an agent process and      *)
(* bootstrap an ACP session over it; Session.Close, Session.Delete and        *)
(* Runtime.Close end it.  Requests and closers run concurrently, each over    *)
(* its own Stdio transport, and share the runtime's registry.               *)
(***************************************************************************)
EXTENDS Stdio

CONSTANTS
    Mixes,      \* what the connections may be for, together
    Id,         \* the ACP session id its agent answers
    Silent,     \* agents that need not answer session/close, nor read it
    None

ASSUME LifecycleAssumption ==
    /\ Mixes \subseteq [Conns -> {"start", "resume", "load", "fork", "list"}]
    /\ None \notin Conns /\ Silent \subseteq Conns

VARIABLES
    kind,       \* what each connection is for
    pc,         \* the request, and later the session's own Close or Delete
    res,        \* what the request returned: none, session, listed, error
    status,     \* RuntimeError.CleanupStatus
    sessions,   \* Runtime.sessions: session id to driver
    closed,     \* Session.closed
    lost,       \* history: sessions whose entry another of their id took or removed
    ended,      \* what the session's Close or Delete returned: none, nil, error
    deleted,    \* sessions whose session/delete the agent answered
    rpc,        \* pc of Runtime.Close: idle, next, closing, disposing, done
    rtodo,      \* drivers of its snapshot it has yet to close
    rcur,       \* the one it is closing
    rerr        \* whether one of them failed

request == <<kind, pc, res, status>>
registry == <<sessions, closed, lost>>
runtime == <<rpc, rtodo, rcur, rerr>>
lvars == <<pvars, request, registry, ended, deleted, runtime>>

Ids == {Id[c] : c \in Conns}
HasMeta(c) == kind[c] \in {"start", "resume"}

InitL ==
    /\ InitP
    /\ kind \in Mixes
    /\ pc = [c \in Conns |-> "idle"] /\ res = [c \in Conns |-> "none"]
    /\ status = [c \in Conns |-> "none"]
    /\ sessions = [i \in Ids |-> None] /\ closed = {} /\ lost = {}
    /\ ended = [c \in Conns |-> "none"] /\ deleted = {}
    /\ rpc = "idle" /\ rtodo = {} /\ rcur = None /\ rerr = FALSE

Goto(c, l) == pc' = [pc EXCEPT ![c] = l]
Returns(c, r) == Goto(c, "returned") /\ res' = [res EXCEPT ![c] = r]

-----------------------------------------------------------------------------
(* Bootstrap.  Each step is a call that may fail: an error of the agent, the   *)
(* caller's context, a peer that closed.                                    *)

\* resolveStartOptions, prepareAgentSessionStart and the factory: nothing was
\* spawned when one of them fails.
Begin(c) ==
    /\ pc[c] = "idle"
    /\ \/ Returns(c, "error") /\ UNCHANGED pvars
       \/ Spawn(c) /\ Goto(c, "initialize") /\ UNCHANGED res
    /\ UNCHANGED <<kind, status, registry, ended, deleted, runtime>>

\* runSessionCleanup(Dispose), five seconds at most; then the error.
\* Mutation: the error is returned with the process still up.
JustFail(c) == Returns(c, "error")
Abandon(c) == Goto(c, "dispose") /\ UNCHANGED res

\* initialize, where a newer protocol version is an error of its own;
\* authenticate, asked for by the agent's methods or by the host's handler;
\* session/new, session/resume, session/load, session/fork or session/list.
Answered(c, l) ==
    \/ pc[c] = "initialize" /\ l \in {"authenticate", "open"}
    \/ pc[c] = "authenticate" /\ l = "open"
    \/ pc[c] = "open" /\ kind[c] = "list" /\ l = "listed"
    \/ pc[c] = "open" /\ HasMeta(c) /\ l = "config"
    \/ pc[c] = "open" /\ kind[c] \in {"load", "fork"} /\ l = "register"
    \/ pc[c] = "config" /\ l = "register"

BootstrapCall(c) ==
    /\ pc[c] \in {"initialize", "authenticate", "open", "config"}
    /\ \/ /\ Connected(c)
          /\ \E l \in {"authenticate", "open", "listed", "config", "register"} :
                Answered(c, l) /\ Goto(c, l)
          /\ UNCHANGED res
       \/ /\ pc[c] # "config" /\ Abandon(c)
       \/ /\ pc[c] = "config"
          /\ Goto(c, IF kind[c] = "start" THEN "undo" ELSE "leave") /\ UNCHANGED res
    /\ UNCHANGED <<pvars, kind, status, registry, ended, deleted, runtime>>

\* Initial config failed: Create deletes the session it made, Resume only leaves
\* it.  session/close and session/delete may fail; the teardown starts whatever.
Deletes(c) == pc[c] \in {"undo", "delete"}

EndCall(c) ==
    /\ pc[c] \in {"undo", "leave", "close", "delete"}
    /\ \E ok \in BOOLEAN :
        /\ ok => Connected(c)
        /\ deleted' = IF ok /\ Deletes(c) THEN deleted \cup {c} ELSE deleted
        /\ \/ pc[c] = "undo" /\ Goto(c, IF ok THEN "undone" ELSE "notundone")
           \/ pc[c] = "leave" /\ Goto(c, "left")
           \/ pc[c] = "close" /\ Goto(c, "closing")
           \/ pc[c] = "delete" /\ Goto(c, IF ok THEN "deleting" ELSE "notdeleting")
    /\ UNCHANGED <<pvars, kind, res, status, registry, ended, runtime>>

Disposing == {"dispose", "listed", "undone", "notundone", "left", "closing", "deleting",
              "notdeleting"}

\* dispose: the teardown is started once...
DisposeCall(c) ==
    /\ pc[c] \in Disposing /\ stage[c] = "no"
    /\ StartTeardown(c)
    /\ UNCHANGED <<leader, kid, termErr, request, registry, ended, deleted, runtime>>

\* ... and waited for until the caller's context ends.
DisposeErr(c, timedOut) == IF timedOut THEN "exit" ELSE termErr[c]
DisposeMayReturn(c, timedOut) == stage[c] = "done" \/ (timedOut /\ stage[c] # "no")

\* driver.Delete joins the errors of session/delete and of dispose.
\* Mutation: the deletion is reported done whatever session/delete answered.
DisposeOnly(c, err) == IF err = "nil" THEN "succeeded" ELSE "failed"
CleanupStatus(c, err) ==
    IF pc[c] = "undone" /\ err = "nil" THEN "succeeded" ELSE "failed"

DisposeReturns(c, timedOut) ==
    /\ pc[c] \in Disposing /\ DisposeMayReturn(c, timedOut)
    /\ LET err == DisposeErr(c, timedOut) IN
       \/ /\ pc[c] \in {"dispose", "listed"}
          /\ Returns(c, IF pc[c] = "listed" THEN "listed" ELSE "error")
          /\ UNCHANGED <<status, ended>>
       \/ /\ pc[c] \in {"undone", "notundone"} /\ Returns(c, "error")
          /\ status' = [status EXCEPT ![c] = CleanupStatus(c, err)] /\ UNCHANGED ended
       \/ /\ pc[c] = "left" /\ Returns(c, "error")
          /\ status' = [status EXCEPT ![c] = "not_attempted"] /\ UNCHANGED ended
       \/ /\ pc[c] \in {"closing", "deleting", "notdeleting"} /\ Goto(c, "ended")
          /\ ended' = [ended EXCEPT ![c] = IF err = "nil" /\ pc[c] # "notdeleting"
                                           THEN "nil" ELSE "error"]
          /\ UNCHANGED <<res, status>>
    /\ UNCHANGED <<pvars, kind, registry, deleted, runtime>>

-----------------------------------------------------------------------------
(* The registry.                                                             *)

\* It is keyed by session id: an entry made or removed for one session is made
\* or removed for every open session of its id.
Namesakes(c) == {d \in Conns \ {c} : Id[d] = Id[c] /\ res[d] = "session"}

Register(c) ==
    /\ pc[c] = "register" /\ Returns(c, "session")
    /\ sessions' = [sessions EXCEPT ![Id[c]] = c]
    /\ lost' = lost \cup Namesakes(c)
    /\ UNCHANGED <<pvars, kind, status, closed, ended, deleted, runtime>>

\* unregister removes the driver by its session id.
\* Mutation: a session the host closes stays in the registry.
StillListed(c) == sessions
Unregistered(c) == [sessions EXCEPT ![Id[c]] = None]

\* Session.Close and Session.Delete, by the host that was given the session.
EndSession(c, how) ==
    /\ pc[c] = "returned" /\ res[c] = "session" /\ c \notin closed
    /\ closed' = closed \cup {c}
    /\ sessions' = Unregistered(c)
    /\ lost' = lost \cup Namesakes(c)
    /\ Goto(c, how)
    /\ UNCHANGED <<pvars, kind, res, status, ended, deleted, runtime>>

\* Runtime.Close takes every driver out under the lock and closes each outside it.
\* Mutation: the registry is cleared before it is read.
NoneTaken == {}
Snapshot == {sessions[i] : i \in Ids} \ {None}

RuntimeClose ==
    /\ rpc = "idle" /\ rpc' = "next"
    /\ rtodo' = Snapshot
    /\ sessions' = [i \in Ids |-> None]
    /\ UNCHANGED <<pvars, request, closed, lost, ended, deleted, rcur, rerr>>

RuntimeNext ==
    /\ rpc = "next"
    /\ \/ \E c \in rtodo : rcur' = c /\ rtodo' = rtodo \ {c} /\ rpc' = "closing"
       \/ rtodo = {} /\ rpc' = "done" /\ UNCHANGED <<rtodo, rcur>>
    /\ UNCHANGED <<pvars, request, registry, ended, deleted, rerr>>

\* driver.Close: session/close, whose error is dropped, then dispose.
RuntimeCall ==
    /\ rpc = "closing" /\ rpc' = "disposing"
    /\ UNCHANGED <<pvars, request, registry, ended, deleted, rtodo, rcur, rerr>>

RuntimeDisposes ==
    /\ rpc = "disposing" /\ stage[rcur] = "no" /\ StartTeardown(rcur)
    /\ UNCHANGED <<leader, kid, termErr, request, registry, ended, deleted, runtime>>

RuntimeDisposed(timedOut) ==
    /\ rpc = "disposing" /\ DisposeMayReturn(rcur, timedOut)
    /\ rpc' = "next" /\ rcur' = None
    /\ rerr' = (rerr \/ DisposeErr(rcur, timedOut) # "nil")
    /\ UNCHANGED <<pvars, request, registry, ended, deleted, rtodo>>

-----------------------------------------------------------------------------
CallerStep(c) ==
    \/ Begin(c) \/ BootstrapCall(c) \/ EndCall(c) \/ DisposeCall(c) \/ Register(c)
    \/ \E timedOut \in BOOLEAN : DisposeReturns(c, timedOut)
RuntimeStep ==
    \/ RuntimeNext \/ RuntimeCall \/ RuntimeDisposes
    \/ \E timedOut \in BOOLEAN : RuntimeDisposed(timedOut)
Unwatched == UNCHANGED <<request, registry, ended, deleted, runtime>>

NextL ==
    \/ \E c \in Conns : CallerStep(c)
    \/ \E c \in Conns : TeardownStep(c) /\ Unwatched
    \/ \E c \in Conns : ProcessStep(c) /\ Unwatched
    \/ \E c \in Conns, how \in {"close", "delete"} : EndSession(c, how)
    \/ RuntimeClose \/ RuntimeStep

SpecL == InitL /\ [][NextL]_lvars

\* session/close waits under a context that never ends for an agent that is
\* there and does not answer.
Unanswered == rpc = "closing" /\ rcur \in Silent /\ Connected(rcur)

\* Other calls return (the peer's contract) and timers fire; no caller's context
\* need ever end.
FairSpecL ==
    /\ SpecL
    /\ \A c \in Conns : WF_lvars(TeardownStep(c) /\ Unwatched)
    /\ WF_lvars(\/ RuntimeNext \/ RuntimeDisposes \/ RuntimeDisposed(FALSE)
                \/ ~Unanswered /\ RuntimeCall)

-----------------------------------------------------------------------------
Ended(c) == stage[c] # "no" \/ pc[c] \in {"undo", "leave", "close", "delete"} \cup Disposing

TypeOKL ==
    /\ leader \in [Conns -> {"none", "up", "exited", "clean"}] /\ kid \subseteq Conns
    /\ stage \in [Conns -> {"no", "stdin", "term", "kill", "done"}]
    /\ termErr \in [Conns -> {"nil", "exit", "forced", "stuck"}]
    /\ kind \in Mixes
    /\ pc \in [Conns -> {"idle", "initialize", "authenticate", "open", "config", "undo", "leave",
                         "close", "delete", "register", "returned", "ended"} \cup Disposing]
    /\ res \in [Conns -> {"none", "session", "listed", "error"}]
    /\ status \in [Conns -> {"none", "succeeded", "failed", "not_attempted"}]
    /\ sessions \in [Ids -> Conns \cup {None}] /\ (closed \cup lost) \subseteq Conns
    /\ ended \in [Conns -> {"none", "nil", "error"}] /\ deleted \subseteq Conns
    /\ rpc \in {"idle", "next", "closing", "disposing", "done"}
    /\ rtodo \subseteq Conns /\ rcur \in Conns \cup {None} /\ rerr \in BOOLEAN

\* "Dispose the agent process on every failure after spawn" (RFC 0002): a request
\* that returned without a session has begun to tear its process down.
FailureDisposes ==
    \A c \in Conns : res[c] \in {"error", "listed"} /\ leader[c] # "none" => stage[c] # "no"

\* A session nobody has ended is in Runtime.Close's hands, or it is in the
\* registry exactly while no other session of its id has been registered, closed
\* or deleted since it was: such a one takes its entry, for good, and a later
\* Runtime.Close misses it (register, unregister, Runtime.Close).
OpenIsListed ==
    \A c \in Conns : res[c] = "session" /\ ~Ended(c) =>
        \/ c \in {rcur} \cup rtodo
        \/ sessions[Id[c]] = c <=> c \notin lost

\* An agent of a session in the registry was not torn down by anyone else's
\* close, a failed request's cleanup or a shadowed session (dispose closures).
ListedIsConnected == \A i \in Ids : sessions[i] # None => stage[sessions[i]] = "no"

\* The registry holds the live sessions but those that lost their entry to
\* another of their id, and each it holds is live.
RegistryExact == OpenIsListed /\ ListedIsConnected

\* A Close or a Delete that returns nil, whoever shares the teardown, leaves no
\* process of the tree behind when stderr is captured: cmd.Wait waits for every
\* holder of the pipe (doWait, signalProcessTree).
CleanEndLeavesNoTree ==
    \A c \in Conns : Piped /\ ended[c] = "nil" =>
        leader[c] \in {"exited", "clean"} /\ c \notin kid

\* RuntimeError.CleanupStatus is true to the agent: "succeeded" only if
\* session/delete was answered, "not_attempted" only if the resumed session was
\* left alone (Create, Resume).  Nothing is said of "failed", which is also
\* reported for a session that was deleted when its process then ended badly.
StatusIsTrue ==
    \A c \in Conns :
        /\ status[c] = "succeeded" => c \in deleted
        /\ status[c] = "not_attempted" => c \notin deleted /\ kind[c] = "resume"

\* Runtime.Close returns even with a context that never ends and a process that
\* nothing kills, unless an agent never answers session/close: whoever started
\* the teardown, it gives up after SIGKILL.
RuntimeCloseReturns == <>[]Unanswered \/ (rpc = "next" ~> rpc = "done")
=============================================================================
