-------------------------- MODULE MCCheckpointLock --------------------------
(* Instances of CheckpointLock for TLC. *)
EXTENDS CheckpointLock, TLC

UserSymmetry == Permutations(Coros) \cup Permutations(Locks)
=============================================================================
