------------------------------ MODULE MCLease ------------------------------
(* Model checking of Lease: two or three replicas. *)
EXTENDS Lease, TLC

Symmetry == Permutations(Replicas)
=============================================================================
