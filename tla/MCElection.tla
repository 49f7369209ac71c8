----------------------------- MODULE MCElection -----------------------------
(* Instances of module Election for TLC. *)
EXTENDS Election
=============================================================================
