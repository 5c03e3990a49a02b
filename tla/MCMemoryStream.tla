---------------------------- MODULE MCMemoryStream ----------------------------
(* Instances of MemoryStream for TLC. *)
EXTENDS MemoryStream, TLC

SubscriberSymmetry == Permutations(Subscribers)
=============================================================================
