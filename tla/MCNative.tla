------------------------------ MODULE MCNative ------------------------------
(* NativeBridge on small instances: two prompts of one session, and another *)
(* session of the same configuration that is opened meanwhile.              *)
EXTENDS NativeBridge, TLC

CONSTANTS s1, s2, p1, p2

MCOf == (p1 :> s1) @@ (p2 :> s1)
MCKey == (s1 :> s1) @@ (s2 :> s1)
=============================================================================
