--------------------------- MODULE MCSupersession ---------------------------
(* Supersession for TLC. *)
EXTENDS Supersession

Symmetry == Permutations(Domains)
=============================================================================
