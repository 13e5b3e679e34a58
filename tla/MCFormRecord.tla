---------------------------- MODULE MCFormRecord ----------------------------
(* FormRecord with interchangeable slots. *)
EXTENDS FormRecord, TLC

Symmetry == Permutations(Slots)
=============================================================================
