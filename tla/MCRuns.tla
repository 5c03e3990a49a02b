-------------------------------- MODULE MCRuns --------------------------------
(* Instances of Runs for TLC. *)
EXTENDS Runs, TLC

CONSTANTS th

OneThread == [r \in Runs |-> th]
RunSymmetry == Permutations(Runs) \cup Permutations(Clients)
=============================================================================
