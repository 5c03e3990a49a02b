-------------------------- MODULE MCMemoryUpdates --------------------------
(* Instances of MemoryUpdates for TLC. *)
EXTENDS MemoryUpdates, TLC

CONSTANTS u1, u2, s1, s2
TwoScopes == (u1 :> s1) @@ (u2 :> s2)
=============================================================================
