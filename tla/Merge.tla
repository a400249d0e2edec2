-------------------------------- MODULE Merge --------------------------------
(***************************************************************************)
(* apply_plan of a board merge (merge.py): the plan is compared with the   *)
(* board, the board is copied and changed beside itself, compared again,   *)
(* and both directories are swapped, tasks first.                          *)
(***************************************************************************)
EXTENDS BoardFiles

\* _task_snapshot: every task agrees with the head of its ledger.
Agreed == tasks # None /\ ledger # None /\ tasks.form = "markdown" /\ tasks.has = ledger.has

\* The plan rewrites the tasks that are newer in the sources.
MergePlan ==
    /\ Agreed
    /\ \E touched \in SUBSET (Updaters \cup tasks.has) : Start("merge", "copy tasks", touched)
    /\ UNCHANGED <<tasks, ledger, frozen, lock, writer, git, exposed, broken>>

\* The copy of a directory, with the planned changes.
Staged(dir) ==
    [dir EXCEPT !.by = runs, !.rev = [w \in Writers |-> IF w \in tool.touched THEN runs ELSE @[w]]]

MergeCopyTasks ==
    /\ At("merge", "copy tasks")
    /\ tool' = [tool EXCEPT !.at = "copy ledger", !.copy = [@ EXCEPT !.tasks = Staged(tasks)]]
    /\ UNCHANGED <<dirs, frozen, lock, writer, git, runs, exposed, broken>>

MergeCopyLedger ==
    /\ At("merge", "copy ledger")
    /\ tool' = [tool EXCEPT !.at = "compare", !.copy = [@ EXCEPT !.ledger = Staged(ledger)]]
    /\ UNCHANGED <<dirs, frozen, lock, writer, git, runs, exposed, broken>>

\* Wrong: what was compared when the plan was read need not be compared again.
MergeCompareOnce ==
    /\ At("merge", "compare")
    /\ tool' = [tool EXCEPT !.at = "save tasks", !.past = TRUE]
    /\ UNCHANGED <<dirs, frozen, lock, writer, git, runs, exposed, broken>>

\* Otherwise the plan is stale, and the tool fails.
MergeCompare ==
    /\ At("merge", "compare")
    /\ Agreed /\ tool.seen = [tasks |-> tasks, ledger |-> ledger]
    /\ tool' = [tool EXCEPT !.at = "save tasks", !.past = TRUE]
    /\ UNCHANGED <<dirs, frozen, lock, writer, git, runs, exposed, broken>>

MergeSaveTasks ==
    /\ At("merge", "save tasks")
    /\ tool' = [tool EXCEPT !.at = "put tasks", !.saved = [@ EXCEPT !.tasks = tasks]]
    /\ tasks' = None
    /\ UNCHANGED <<ledger, frozen, lock, writer, git, runs, exposed, broken>>

MergePutTasks ==
    /\ At("merge", "put tasks") /\ Free(tasks)
    /\ tool' = [tool EXCEPT !.at = "save ledger", !.put = @ \cup {"tasks"}]
    /\ tasks' = tool.copy.tasks
    /\ UNCHANGED <<ledger, frozen, lock, writer, git, runs, exposed, broken>>

MergeSaveLedger ==
    /\ At("merge", "save ledger")
    /\ tool' = [tool EXCEPT !.at = "put ledger", !.saved = [@ EXCEPT !.ledger = ledger]]
    /\ ledger' = None
    /\ UNCHANGED <<tasks, frozen, lock, writer, git, runs, exposed, broken>>

MergePutLedger ==
    /\ At("merge", "put ledger") /\ Free(ledger)
    /\ tool' = [tool EXCEPT !.at = "verify", !.put = @ \cup {"ledger"}]
    /\ ledger' = tool.copy.ledger
    /\ UNCHANGED <<tasks, frozen, lock, writer, git, runs, exposed, broken>>

\* The planned files are as they were put; the receipt is written.
MergeVerify ==
    /\ At("merge", "verify")
    /\ tool.touched \cap tasks.has = tool.touched \cap tool.copy.tasks.has
    /\ tool.touched \cap ledger.has = tool.touched \cap tool.copy.ledger.has
    /\ tool' = None
    /\ UNCHANGED <<dirs, frozen, lock, writer, git, runs, exposed, broken>>

\* Any step may fail.
MergeFails ==
    /\ tool # None /\ tool.kind = "merge"
    /\ Undo(FALSE)

MergeStops ==
    /\ tool # None /\ tool.kind = "merge"
    /\ Stop("killed", FALSE) \/ Stop("interrupted", FALSE)

MergeNext ==
    \/ MergePlan \/ MergeCopyTasks \/ MergeCopyLedger \/ MergeCompare
    \/ MergeSaveTasks \/ MergePutTasks \/ MergeSaveLedger \/ MergePutLedger
    \/ MergeVerify \/ MergeFails \/ MergeStops

=============================================================================
