----------------------------- MODULE MCReadModel -----------------------------
(* ReadModel on small instances; nothing orders setters, snapshots, messages or tools. *)
EXTENDS ReadModel, TLC

Alike ==
    Permutations(Setters) \cup Permutations(Snapshots) \cup Permutations(MsgIds) \cup Permutations(Tools)
=============================================================================
