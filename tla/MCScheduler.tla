----------------------------- MODULE MCScheduler -----------------------------
(* Instances of Scheduler for TLC. *)
EXTENDS Scheduler, TLC

CONSTANTS th, ta, tb

OneThread == [t \in Tasks |-> th]
ProcSymmetry == Permutations(Procs)
=============================================================================
