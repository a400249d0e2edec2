---------------------------- MODULE MCBoardStore ----------------------------
(* Small instances of BoardStore for TLC. *)
EXTENDS BoardStore, TLC

CONSTANTS p1, p2, c1, c2

Symmetric == Permutations({p1, p2}) \cup Permutations({c1, c2})

=============================================================================
