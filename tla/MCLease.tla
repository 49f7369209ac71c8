------------------------------ MODULE MCLease ------------------------------
(* Instances of module Lease for TLC. *)
EXTENDS Lease, TLC

\* The nodes are interchangeable.
Symmetry == Permutations(Node)
=============================================================================
