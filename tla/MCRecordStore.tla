---------------------------- MODULE MCRecordStore ----------------------------
(* Small instances of RecordStore for TLC. *)
EXTENDS RecordStore, TLC

CONSTANTS r1, r2, c1, c2, c3, b1, b2

Symmetric == Permutations(Records) \cup Permutations(Clients) \cup Permutations(Contents)

==============================================================================
