--------------------------- MODULE RevisionLines ----------------------------
(***************************************************************************)
(* What the Document and Artifact stores promise: every Record is a line   *)
(* of immutable revisions.  A call adds one revision at the end of one     *)
(* line, or changes nothing; what was acknowledged is in the line.  Locks, *)
(* files, rollback, kills and tiers do not show.                           *)
(***************************************************************************)
EXTENDS Naturals, FiniteSets

CONSTANTS Records, Payloads

VARIABLES
    line,   \* Record -> its revisions, numbered from 1
    acked   \* the revisions whose author was told so, as <<Record, number>>

Init == line = [r \in Records |-> <<>>] /\ acked = {}

\* A call that dies before its answer may have added its revision.
Add(r, p) ==
    LET n == Cardinality(DOMAIN line[r])
    IN  /\ DOMAIN line[r] = 1..n
        /\ line' = [line EXCEPT ![r] =
                        [m \in 1..(n + 1) |-> IF m <= n THEN line[r][m] ELSE p]]
        /\ \/ acked' = acked
           \/ acked' = acked \cup {<<r, n + 1>>}

Next == \E r \in Records, p \in Payloads : Add(r, p)

Spec == Init /\ [][Next]_<<line, acked>>

=============================================================================
