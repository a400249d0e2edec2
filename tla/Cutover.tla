------------------------------- MODULE Cutover -------------------------------
(***************************************************************************)
(* The conversion of a legacy board and the two ways back (storage.py,     *)
(* convert_legacy, immediate_rollback, execute_post_write_rollback), each  *)
(* behind its freeze marker or none.  `ledger` stands for the ledger and   *)
(* the archive, which are moved together.                                  *)
(***************************************************************************)
EXTENDS BoardFiles

board == <<tasks, ledger, lock, writer>>

NoWrites(form) == [form |-> form, by |-> runs, rev |-> [w \in Writers |-> 0], has |-> {}]

---------------------------------------------------------------------------
(* convert_legacy *)

\* The rows are read from a committed board, then the marker is written.
ConvertFreeze ==
    /\ tasks # None /\ tasks.form = "legacy" /\ Clean /\ ~frozen
    /\ Start("convert", "preflight", {})
    /\ frozen' = TRUE
    /\ UNCHANGED <<board, git, exposed, broken>>

\* A board with Markdown tasks is refused and freed again.
ConvertPreflight ==
    /\ At("convert", "preflight")
    /\ IF tasks.has = {}
       THEN /\ tool' = [tool EXCEPT !.at = "save", !.past = TRUE,
                            !.copy = [tasks |-> NoWrites("markdown"), ledger |-> NoWrites("markdown")]]
            /\ UNCHANGED frozen
       ELSE tool' = None /\ frozen' = FALSE
    /\ UNCHANGED <<board, git, runs, exposed, broken>>

ConvertSaveTasks ==
    /\ At("convert", "save")
    /\ tool' = [tool EXCEPT !.at = "save ledger", !.saved = [@ EXCEPT !.tasks = tasks]]
    /\ tasks' = None
    /\ UNCHANGED <<ledger, lock, writer, frozen, git, runs, exposed, broken>>

ConvertSaveLedger ==
    /\ At("convert", "save ledger")
    /\ tool' = [tool EXCEPT !.at = "put tasks", !.saved = [@ EXCEPT !.ledger = ledger]]
    /\ ledger' = None
    /\ UNCHANGED <<tasks, lock, writer, frozen, git, runs, exposed, broken>>

ConvertPutTasks ==
    /\ At("convert", "put tasks") /\ Free(tasks)
    /\ tool' = [tool EXCEPT !.at = "put ledger", !.put = @ \cup {"tasks"}]
    /\ tasks' = tool.copy.tasks
    /\ UNCHANGED <<ledger, lock, writer, frozen, git, runs, exposed, broken>>

ConvertPutLedger ==
    /\ At("convert", "put ledger") /\ Free(ledger)
    /\ tool' = [tool EXCEPT !.at = "doctor", !.put = @ \cup {"ledger"}]
    /\ ledger' = tool.copy.ledger
    /\ UNCHANGED <<tasks, lock, writer, frozen, git, runs, exposed, broken>>

\* The doctor finds every task in agreement.  A production conversion then frees the
\* board and commits; any other is done.
ConvertDoctor ==
    /\ At("convert", "doctor")
    /\ tasks.has = ledger.has
    /\ \/ Step("commit")
       \/ tool' = None
    /\ frozen' = FALSE
    /\ UNCHANGED <<board, git, runs, exposed, broken>>

ConvertCommit ==
    /\ At("convert", "commit")
    /\ git' = [tasks |-> tasks, ledger |-> ledger, cutover |-> TRUE]
    /\ tool' = None
    /\ UNCHANGED <<board, frozen, runs, exposed, broken>>

ConvertFails ==
    /\ tool # None /\ tool.kind = "convert"
    /\ Undo(TRUE)

\* Ctrl-C removes the marker, a kill leaves it.
ConvertStops ==
    /\ tool # None /\ tool.kind = "convert"
    /\ Stop("killed", FALSE) \/ Stop("interrupted", TRUE)

---------------------------------------------------------------------------
(* immediate_rollback: no marker, and git revert of the cutover commit *)

ImmediateCheck ==
    /\ git.cutover /\ Clean
    /\ Start("immediate", "revert", {})
    /\ UNCHANGED <<board, frozen, git, exposed, broken>>

\* Git refuses to overwrite a changed file and leaves files it does not know.  An
\* updated task is a changed file, a created one a file Git does not know.
ImmediateRevert ==
    /\ At("immediate", "revert")
    /\ \/ /\ tasks.has \subseteq git.tasks.has \cup Creators
          /\ LET extra(dir, old) == dir.has \ old.has
             IN /\ tasks' = [NoWrites("legacy") EXCEPT !.has = extra(tasks, git.tasks)]
                /\ ledger' = IF extra(ledger, git.ledger) = {} THEN None
                             ELSE [NoWrites("markdown") EXCEPT !.has = extra(ledger, git.ledger)]
          /\ git' = [tasks |-> NoWrites("legacy"), ledger |-> None, cutover |-> FALSE]
       \/ UNCHANGED <<tasks, ledger, git>>
    /\ tool' = None
    /\ UNCHANGED <<frozen, lock, writer, runs, exposed, broken>>

---------------------------------------------------------------------------
(* execute_post_write_rollback *)

\* A committed board; its tasks are read before the marker is written.
RollbackRead ==
    /\ tasks # None /\ tasks.form = "markdown" /\ ledger # None /\ Clean
    /\ Start("rollback", "freeze", {})
    /\ UNCHANGED <<board, frozen, git, exposed, broken>>

RollbackFreeze ==
    /\ At("rollback", "freeze")
    /\ Step("export") /\ frozen' = TRUE
    /\ UNCHANGED <<board, git, runs, exposed, broken>>

\* The export has the tasks that were read.
RollbackExport ==
    /\ At("rollback", "export")
    /\ tasks.has = tool.seen.tasks.has
    /\ tool' = [tool EXCEPT !.at = "archive", !.past = TRUE,
                    !.copy = [@ EXCEPT !.tasks = [NoWrites("legacy") EXCEPT !.has = tasks.has]]]
    /\ UNCHANGED <<board, frozen, git, runs, exposed, broken>>

\* The archive the undo will restore from, tasks and ledger as they are by then.
RollbackArchive ==
    /\ At("rollback", "archive")
    /\ tool' = [tool EXCEPT !.at = "remove", !.saved = [tasks |-> tasks, ledger |-> ledger]]
    /\ UNCHANGED <<board, frozen, git, runs, exposed, broken>>

\* Tasks, ledger and archive are removed,
RollbackRemove ==
    /\ At("rollback", "remove")
    /\ tasks' = NoWrites("legacy") /\ ledger' = None
    /\ tool' = [tool EXCEPT !.at = "put", !.put = {"tasks"}]
    /\ UNCHANGED <<frozen, lock, writer, git, runs, exposed, broken>>

\* and the export and the legacy runtime are put in place.
RollbackPut ==
    /\ At("rollback", "put")
    /\ tasks' = [tool.copy.tasks EXCEPT !.has = @ \cup tasks.has]
    /\ tool' = [tool EXCEPT !.at = "probe", !.put = {"tasks", "ledger"}]
    /\ UNCHANGED <<ledger, frozen, lock, writer, git, runs, exposed, broken>>

RollbackProbe ==
    /\ At("rollback", "probe")
    /\ Step("commit") /\ frozen' = FALSE
    /\ UNCHANGED <<board, git, runs, exposed, broken>>

RollbackCommit ==
    /\ At("rollback", "commit")
    /\ git' = [tasks |-> tasks, ledger |-> ledger, cutover |-> FALSE]
    /\ tool' = None
    /\ UNCHANGED <<board, frozen, runs, exposed, broken>>

\* Before the removal a failure leaves board and marker; between the removal and the
\* probe it leaves what there is; later it restores the archive.
RollbackFails ==
    /\ tool # None /\ tool.kind = "rollback"
    /\ tool' = None
    /\ IF tool.at \in {"probe", "commit"}
       THEN /\ tasks' = tool.saved.tasks /\ ledger' = tool.saved.ledger
            /\ UNCHANGED broken
       ELSE /\ broken' = IF tool.at = "put" THEN "undo failed" ELSE broken
            /\ UNCHANGED dirs
    /\ UNCHANGED <<frozen, lock, writer, git, runs, exposed>>

RollbackStops ==
    /\ tool # None /\ tool.kind = "rollback"
    /\ tool' = None
    /\ \E how \in {"killed", "interrupted"} :
          broken' = IF tool.put # {} THEN how ELSE broken
    /\ UNCHANGED <<board, frozen, git, runs, exposed>>

---------------------------------------------------------------------------

CutoverNext ==
    \/ ConvertFreeze \/ ConvertPreflight \/ ConvertSaveTasks \/ ConvertSaveLedger
    \/ ConvertPutTasks \/ ConvertPutLedger \/ ConvertDoctor \/ ConvertCommit
    \/ ConvertFails \/ ConvertStops
    \/ ImmediateCheck \/ ImmediateRevert
    \/ RollbackRead \/ RollbackFreeze \/ RollbackExport \/ RollbackArchive
    \/ RollbackRemove \/ RollbackPut \/ RollbackProbe \/ RollbackCommit
    \/ RollbackFails \/ RollbackStops

=============================================================================
