------------------------------ MODULE WholeBoard ------------------------------
(***************************************************************************)
(* Mutations, merge, conversion and rollback on one board.                 *)
(***************************************************************************)
EXTENDS Merge, Cutover

Next == Mutate \/ MergeNext \/ CutoverNext

Spec == Init /\ [][Next]_vars

---------------------------------------------------------------------------

Quiet == tool = None /\ broken = "no"

\* A mutation that was acknowledged is on the board, in the tasks and in the ledger,
\* whatever tools have run, failed or were stopped since, unless it wrote after a
\* tool's last comparison of the board with its plan and before its end.
AcknowledgedSurvive ==
    Quiet => \A w \in Writers \ exposed : writer[w].at = "acknowledged" =>
        /\ tasks # None /\ w \in tasks.has
        /\ tasks.form = "markdown" => ledger # None /\ w \in ledger.has

\* Between tools a board is whole: tasks and ledger come from the same run, the
\* original's or one tool's, unless a tool was stopped or could not undo.
WholeOrUndone ==
    Quiet => /\ tasks # None
             /\ tasks.form = "markdown" => ledger # None /\ ledger.by = tasks.by

\* What convert_legacy says of its undo: every canonical asset is restored,
\* regardless of the fault's place.  A kill apart, a tool that ends leaves the
\* original or its own board.
FaultsRestore ==
    tool = None /\ broken # "killed" =>
        /\ tasks # None
        /\ tasks.form = "markdown" => ledger # None /\ ledger.by = tasks.by

=============================================================================
