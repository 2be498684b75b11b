--------------------------- MODULE MCSessionTurns ---------------------------
(* SessionTurns on small instances. *)
EXTENDS SessionTurns, TLC

MCNotes == [kind : {"chunk"}, of : Calls, n : 1..MaxChunks]
Symmetry == Permutations(Calls)
=============================================================================
