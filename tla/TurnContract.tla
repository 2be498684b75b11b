---------------------------- MODULE TurnContract ----------------------------
(***************************************************************************)
(* What a session promises about turns, whatever happens underneath: one   *)
(* at a time, refused when another runs or the session is closed, each     *)
(* settled at most once and with an outcome that stays, and completed only *)
(* on the agent's own answer to its prompt.                                *)
(***************************************************************************)
CONSTANT Turns

VARIABLES
    state,   \* "idle", "running", "settled" or "refused"
    outcome, \* how a settled turn ended
    closed,  \* the session is closed
    answered \* the turns whose prompt the agent answered successfully

vars == <<state, outcome, closed, answered>>

Init ==
    /\ state = [t \in Turns |-> "idle"]
    /\ outcome = [t \in Turns |-> "none"]
    /\ closed = FALSE
    /\ answered = {}

Free == \A t \in Turns : state[t] # "running"

Start(t) ==
    /\ state[t] = "idle"
    /\ ~closed
    /\ Free
    /\ state' = [state EXCEPT ![t] = "running"]
    /\ UNCHANGED <<outcome, closed, answered>>

Refuse(t) ==
    /\ state[t] = "idle"
    /\ closed \/ ~Free
    /\ state' = [state EXCEPT ![t] = "refused"]
    /\ UNCHANGED <<outcome, closed, answered>>

Answer(t) ==
    /\ state[t] \in {"running", "settled"}
    /\ answered' = answered \cup {t}
    /\ UNCHANGED <<state, outcome, closed>>

Settle(t, o) ==
    /\ state[t] = "running"
    /\ o = "completed" => t \in answered
    /\ o = "closed" => closed
    /\ state' = [state EXCEPT ![t] = "settled"]
    /\ outcome' = [outcome EXCEPT ![t] = o]
    /\ UNCHANGED <<closed, answered>>

Close ==
    /\ closed' = TRUE
    /\ UNCHANGED <<state, outcome, answered>>

Next ==
    \/ \E t \in Turns :
          \/ Start(t) \/ Refuse(t) \/ Answer(t)
          \/ \E o \in {"completed", "failed", "cancelled", "closed"} : Settle(t, o)
    \/ Close

Spec == Init /\ [][Next]_vars
=============================================================================
