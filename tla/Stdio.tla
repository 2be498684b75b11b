------------------------------- MODULE Stdio -------------------------------
(***************************************************************************)
(* The stdio transport (stdio.go, stdio_proctree_unix.go): one agent process  *)
(* tree per connection, and the teardown that dispose starts once and every   *)
(* caller waits for: stdin closed, 1.5 s, SIGTERM, 1 s, SIGKILL, 3 s, give up. *)
(*                                                                         *)
(* The process tree is external: its leader, and one descendant that holds    *)
(* the leader's stderr.  Time is not modelled: a timer may fire at any moment. *)
(***************************************************************************)
EXTENDS Naturals, FiniteSets

CONSTANTS
    Conns,      \* connections, one agent process each
    Parents,    \* connections whose process has a descendant
    Piped,      \* StdioFactoryOptions.Stderr is not "inherit"
    Unkillable  \* connections whose process SIGKILL does not end

ASSUME StdioAssumption == Piped \in BOOLEAN /\ (Parents \cup Unkillable) \subseteq Conns

VARIABLES
    leader,     \* the process: none, up, exited (or cleanly, with status 0)
    kid,        \* connections that have a live descendant
    stage,      \* the teardown goroutine: no, stdin, term, kill, done
    termErr     \* teardownErr: nil, exit, forced, stuck

pvars == <<leader, kid, stage, termErr>>

InitP ==
    /\ leader = [c \in Conns |-> "none"] /\ kid = {}
    /\ stage = [c \in Conns |-> "no"] /\ termErr = [c \in Conns |-> "nil"]

\* exec and peer.Start.
Spawn(c) ==
    /\ leader' = [leader EXCEPT ![c] = "up"]
    /\ kid' = kid \cup ({c} \cap Parents)
    /\ UNCHANGED <<stage, termErr>>

\* The read loop goes on while the process lives and no teardown has ended.
Connected(c) == leader[c] = "up" /\ stage[c] \in {"no", "stdin", "term", "kill"}

\* cmd.Wait returns once the leader is reaped and nobody holds its stderr pipe.
\* Mutation: the wait does not outlast the leader.
LeaderGone(c) == leader[c] \in {"exited", "clean"}
Waited(c) == leader[c] \in {"exited", "clean"} /\ (Piped => c \notin kid)

\* By itself, or because its stdin closed or SIGTERM asked it to.
LeaderExits(c, how) ==
    /\ leader[c] = "up"
    /\ how = "clean" => stage[c] # "kill"
    /\ leader' = [leader EXCEPT ![c] = how]
    /\ UNCHANGED <<kid, stage, termErr>>

\* Bound: a descendant outlives a process nobody has asked to end.
KidExits(c) ==
    /\ c \in kid /\ (leader[c] # "up" \/ stage[c] # "no")
    /\ kid' = kid \ {c}
    /\ UNCHANGED <<leader, stage, termErr>>

\* startTeardown, under teardownOnce.
StartTeardown(c) == stage' = [stage EXCEPT ![c] = IF @ = "no" THEN "stdin" ELSE @]

\* The group is signalled: SIGTERM is a request, SIGKILL is not.
Signalled(c, signal) == IF signal = "kill" /\ c \notin Unkillable THEN kid \ {c} ELSE kid

\* waitDone, in whatever stage.
WaitErr(c) == IF leader[c] = "clean" THEN "nil" ELSE "exit"

TeardownSeesExit(c) ==
    /\ stage[c] \in {"stdin", "term", "kill"} /\ Waited(c)
    /\ stage' = [stage EXCEPT ![c] = "done"]
    /\ termErr' = [termErr EXCEPT ![c] = IF stage[c] = "kill" THEN "forced" ELSE WaitErr(c)]
    /\ kid' = IF stage[c] = "stdin" THEN kid ELSE Signalled(c, stage[c])
    /\ UNCHANGED leader

\* Mutation: the last wait is not capped.
Uncapped(c) == FALSE
GivesUp(c) == stage[c] = "kill"

TeardownTimer(c) ==
    \/ /\ stage[c] = "stdin"
       /\ stage' = [stage EXCEPT ![c] = "term"]
       /\ UNCHANGED <<leader, kid, termErr>>
    \/ /\ stage[c] = "term"
       /\ stage' = [stage EXCEPT ![c] = "kill"]
       /\ leader' = [leader EXCEPT ![c] = IF @ = "up" /\ c \notin Unkillable THEN "exited" ELSE @]
       /\ kid' = Signalled(c, "kill")
       /\ UNCHANGED termErr
    \/ /\ GivesUp(c)
       /\ stage' = [stage EXCEPT ![c] = "done"]
       /\ termErr' = [termErr EXCEPT ![c] = "stuck"]
       /\ kid' = Signalled(c, "kill")
       /\ UNCHANGED leader

ProcessStep(c) ==
    \/ \E how \in {"exited", "clean"} : LeaderExits(c, how)
    \/ KidExits(c)
TeardownStep(c) == TeardownSeesExit(c) \/ TeardownTimer(c)
=============================================================================
