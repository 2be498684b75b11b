------------------------------- MODULE MCPeer -------------------------------
(* Peer on small instances: two calls, one kind of other message. *)
EXTENDS Peer, TLC

MCNotes == {[kind |-> "note"]}
Symmetry == Permutations(Calls)
=============================================================================
