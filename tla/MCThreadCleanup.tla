-------------------------- MODULE MCThreadCleanup --------------------------
(* Instance of ThreadCleanup for TLC. *)
EXTENDS ThreadCleanup, TLC

CONSTANTS p1, p2, u1
OneUser == u1 :> p1
=============================================================================
