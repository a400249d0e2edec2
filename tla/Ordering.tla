------------------------------ MODULE Ordering -------------------------------
(***************************************************************************)
(* The order in which a command takes things that the model numbers.       *)
(***************************************************************************)
EXTENDS Naturals, FiniteSets

\* The numbers of a set, the smaller first.
Ascending(S) ==
    CHOOSE q \in [1..Cardinality(S) -> S] :
        \A i, j \in 1..Cardinality(S) : i < j => q[i] < q[j]

\* The members of a set, the one of the last time at[x] first.
NewestFirst(S, at) ==
    CHOOSE q \in [1..Cardinality(S) -> S] :
        \A i, j \in 1..Cardinality(S) : i < j => at[q[i]] > at[q[j]]

=============================================================================
