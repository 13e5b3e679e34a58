----------------------------- MODULE MCResolver -----------------------------
(* Resolver with interchangeable names. *)
EXTENDS Resolver, TLC

Symmetry == Permutations(Names)
=============================================================================
