---------------------------- MODULE MCModelCalls ----------------------------
(* Instances of ModelCalls for TLC. *)
EXTENDS ModelCalls, TLC

CallSymmetry == Permutations(Async) \cup Permutations(Sync)
=============================================================================
