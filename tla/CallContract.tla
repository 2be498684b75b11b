---------------------------- MODULE CallContract ----------------------------
(***************************************************************************)
(* What Peer.Call promises its callers, without pending maps, channels or  *)
(* a read loop: a call under way ends at most once, and how it ends is     *)
(* justified by what happened: an answer the agent gave to this call, this *)
(* call's cancellation, the closing of the peer, or a failed write.        *)
(***************************************************************************)
CONSTANT Calls

VARIABLES
    state,     \* "idle", "open" or "returned"
    outcome,   \* what the call returned
    answered,  \* <<call, ok>>: the answers the agent has given
    cancelled, \* the calls whose context is cancelled
    closed,    \* the peer is closed
    alive      \* the agent is alive

vars == <<state, outcome, answered, cancelled, closed, alive>>

Init ==
    /\ state = [c \in Calls |-> "idle"]
    /\ outcome = [c \in Calls |-> "none"]
    /\ answered = {}
    /\ cancelled = {}
    /\ closed = FALSE
    /\ alive = TRUE

Issue(c) ==
    /\ state[c] = "idle"
    /\ state' = [state EXCEPT ![c] = "open"]
    /\ UNCHANGED <<outcome, answered, cancelled, closed, alive>>

Answer(c, ok) ==
    /\ alive
    /\ state[c] # "idle"
    /\ answered' = answered \cup {<<c, ok>>}
    /\ UNCHANGED <<state, outcome, cancelled, closed, alive>>

Cancel(c) ==
    /\ state[c] = "open"
    /\ cancelled' = cancelled \cup {c}
    /\ UNCHANGED <<state, outcome, answered, closed, alive>>

Shut ==
    /\ closed' = TRUE
    /\ UNCHANGED <<state, outcome, answered, cancelled, alive>>

Exit ==
    /\ alive' = FALSE
    /\ UNCHANGED <<state, outcome, answered, cancelled, closed>>

Justified(c, r) ==
    \/ r = "ok"    /\ <<c, TRUE>> \in answered
    \/ r = "error" /\ <<c, FALSE>> \in answered
    \/ r = "ctx"   /\ c \in cancelled
    \/ r = "pipe"  /\ closed
    \/ r = "ioerr" /\ (closed \/ ~alive)

Return(c) ==
    /\ state[c] = "open"
    /\ \E r \in {"ok", "error", "ctx", "pipe", "ioerr"} :
          /\ Justified(c, r)
          /\ outcome' = [outcome EXCEPT ![c] = r]
    /\ state' = [state EXCEPT ![c] = "returned"]
    /\ UNCHANGED <<answered, cancelled, closed, alive>>

Next ==
    \/ \E c \in Calls : Issue(c) \/ Cancel(c) \/ Return(c)
                        \/ \E ok \in BOOLEAN : Answer(c, ok)
    \/ Shut
    \/ Exit

Spec == Init /\ [][Next]_vars
=============================================================================
