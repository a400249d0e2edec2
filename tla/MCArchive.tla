------------------------------ MODULE MCArchive ------------------------------
(* Small instances of Archive for TLC. *)
EXTENDS Archive, TLC

CONSTANTS t1, t2, w1, w2

Symmetric == Permutations({t1, t2}) \cup Permutations({w1, w2})

==============================================================================
