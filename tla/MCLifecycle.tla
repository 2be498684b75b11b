----------------------------- MODULE MCLifecycle -----------------------------
(* Lifecycle on small instances: two connections whose agents answer the same *)
(* session id, one started and one resumed, or one forked beside a listing.   *)
EXTENDS Lifecycle, TLC

CONSTANTS c1, c2, i1

MCMixes == {(c1 :> "start") @@ (c2 :> "resume"), (c1 :> "fork") @@ (c2 :> "list")}
MCSilent == {c1}
SameId == (c1 :> i1) @@ (c2 :> i1)
=============================================================================
