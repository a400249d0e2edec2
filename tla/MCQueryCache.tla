---------------------------- MODULE MCQueryCache ----------------------------
(* Model values and symmetry for the runs of QueryCache. *)
EXTENDS QueryCache, TLC

CONSTANTS t1, t2, r1, r2, c1, c2

SmallSymmetry == Permutations(Tasks) \cup Permutations(Readers) \cup Permutations(Contents)

=============================================================================
