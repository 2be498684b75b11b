----------------------------- MODULE MCGateway -----------------------------
(* Gateway on a small instance.  Of two chat requests one does not match the *)
(* system prompt of the other, of two responses requests one has none, a     *)
(* chat and a responses request differ in their fingerprint, and a DELETE    *)
(* comes from the owner or from another.                                     *)
EXTENDS Gateway, TLC

CONSTANTS q1, q2

Of(owner, system) == [owner |-> owner, route |-> "m", system |-> system]

MCProfiles == {Of("alice", "x"), Of("alice", "y"), Of("alice", None), Of("bob", None)}

MCAsks ==
  (q1 :> ({"chat", "responses"} \X {Of("alice", "x")})) @@
  (q2 :> ({"chat"} \X {Of("alice", "y")}) \cup
         ({"responses", "delete", "temporary", "list"} \X {Of("alice", None)}) \cup
         ({"delete"} \X {Of("bob", None)}))
=============================================================================
