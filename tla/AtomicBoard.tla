---------------------------- MODULE AtomicBoard -----------------------------
(***************************************************************************)
(* What the mutation core promises to the rest of the program: a board of  *)
(* task files and ledgers in which every call takes effect on all of its   *)
(* tasks in one step, or not at all, and a ledger only ever grows by the   *)
(* event of such a step.  No locks, plans, crashes or recovery.            *)
(***************************************************************************)
EXTENDS Naturals, Sequences

CONSTANTS Tasks, Contents, None, Tombstone, Kinds

VARIABLES file, log

Init ==
    \E made \in SUBSET Tasks :
        /\ file \in [Tasks -> Contents \cup {None}]
        /\ \A t \in Tasks : file[t] # None <=> t \in made
        /\ log = [t \in Tasks |->
                    IF t \in made
                    THEN << [op |-> "create", before |-> None, after |-> file[t]] >>
                    ELSE <<>>]

EventFor(kind, t, content) ==
    [op |-> kind, before |-> file[t],
     after |-> IF content = None THEN Tombstone ELSE content]

\* One call: every task of the batch changes, each with its own event.
Commit(kind, S) ==
    \E new \in [S -> Contents \cup {None}] :
        /\ \A t \in S : new[t] # file[t] /\ (file[t] = None <=> kind = "create")
        /\ \A t \in S : new[t] = None <=> kind = "delete"
        /\ file' = [t \in Tasks |-> IF t \in S THEN new[t] ELSE file[t]]
        /\ log' = [t \in Tasks |->
                     IF t \in S THEN Append(log[t], EventFor(kind, t, new[t]))
                     ELSE log[t]]

Next == \E kind \in Kinds : \E S \in (SUBSET Tasks) \ {{}} : Commit(kind, S)

Spec == Init /\ [][Next]_<<file, log>>

=============================================================================
