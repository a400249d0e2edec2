----------------------------- MODULE MCWholeBoard -----------------------------
(* Model values for the runs of WholeBoard. *)
EXTENDS WholeBoard

CONSTANTS w1, w2

=============================================================================
