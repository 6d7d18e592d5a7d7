---------------------------- MODULE MCOwnerLease ----------------------------
(* Instances of OwnerLease for TLC. *)
EXTENDS OwnerLease, TLC

Symmetry == Permutations(Proc)
=============================================================================
