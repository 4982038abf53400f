----------------------------- MODULE MCRunStore -----------------------------
(* The run store for TLC: two clients, two principals, one run too many. *)
EXTENDS RunStore
=============================================================================
