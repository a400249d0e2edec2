------------------------------ MODULE BoardFiles ------------------------------
(***************************************************************************)
(* The directories of one board as the tools that replace them whole see   *)
(* them, and the mutations that run meanwhile (storage.py).                *)
(*                                                                         *)
(* A mutation looks at the freeze markers, takes the board lock, reads its *)
(* files and replaces the task file and then the ledger file, each only if *)
(* it is still what was read.  The tools (merge, conversion, rollback)     *)
(* never take the board lock.                                              *)
(***************************************************************************)
EXTENDS Naturals

CONSTANTS
    Creators,  \* mutations that create a task, each its own
    Updaters,  \* mutations that update a task of the original board
    None,      \* nothing: no directory, no tool, no lock
    MaxRuns    \* bound: runs of tools

Writers == Creators \cup Updaters

ASSUME WritersAssumption == Creators \cap Updaters = {} /\ None \notin Writers
ASSUME RunsAssumption == MaxRuns \in Nat

VARIABLES
    tasks,     \* the tasks directory, or None
    ledger,    \* the ledger directory, or None
    frozen,    \* a freeze marker exists
    lock,      \* the mutation that owns board.lock, or None
    writer,    \* writer -> where it stands
    git,       \* what HEAD has of the board, and whether HEAD is the cutover
    tool,      \* the running tool, or None
    runs,      \* tool runs begun
    exposed,   \* history: writers that wrote after a tool's last look at the board
    broken     \* history: how a tool stopped between its swaps, or "no"

dirs == <<tasks, ledger>>
vars == <<tasks, ledger, frozen, lock, writer, git, tool, runs, exposed, broken>>

\* `by`: the tool run the directory comes from, 0 for the original; `rev`: the run
\* that last rewrote the writer's file; `has`: the writes in it.
Directories ==
    [form : {"legacy", "markdown"}, by : 0..MaxRuns,
     rev : [Writers -> 0..MaxRuns], has : SUBSET Writers]

\* The tasks and the ledger of a board, and a tool.
Pairs == [tasks : Directories \cup {None}, ledger : Directories \cup {None}]
Tools ==
    [kind : {"merge", "convert", "immediate", "rollback"},
     at : {"copy tasks", "copy ledger", "compare", "save tasks", "put tasks", "save ledger",
           "put ledger", "verify", "preflight", "save", "doctor", "commit", "revert",
           "freeze", "export", "archive", "remove", "put", "probe"},
     past : BOOLEAN, touched : SUBSET Writers, seen : Pairs, copy : Pairs, saved : Pairs,
     put : SUBSET {"tasks", "ledger"}]

ASSUME NoneAssumption == None \notin Directories /\ None \notin Tools

Clean == git.tasks = tasks /\ git.ledger = ledger

---------------------------------------------------------------------------

Init ==
    /\ \E form \in {"legacy", "markdown"} :
          /\ tasks = [form |-> form, by |-> 0, rev |-> [w \in Writers |-> 0], has |-> {}]
          /\ ledger = IF form = "legacy" THEN None ELSE tasks
    /\ git = [tasks |-> tasks, ledger |-> ledger, cutover |-> FALSE]
    /\ frozen = FALSE /\ lock = None
    /\ writer = [w \in Writers |-> [at |-> "new", tasks |-> 0, ledger |-> 0]]
    /\ tool = None /\ runs = 0
    /\ exposed = {} /\ broken = "no"

---------------------------------------------------------------------------
(* Mutations *)

Goto(w, s) == writer' = [writer EXCEPT ![w].at = s]

\* _assert_not_frozen comes before the lock and is not repeated under it.
PassFreeze(w) ==
    /\ writer[w].at = "new" /\ ~frozen
    /\ Goto(w, "admitted")
    /\ UNCHANGED <<tasks, ledger, frozen, lock, git, tool, runs, exposed, broken>>

In(dir, w) == dir # None /\ w \in dir.has
Rev(dir, w) == IF dir = None THEN 0 ELSE dir.rev[w]

\* Under the lock: an update wants its task file, a create wants none.
Prepare(w) ==
    /\ writer[w].at = "admitted" /\ lock = None
    /\ w \in Updaters => tasks # None /\ tasks.form = "markdown" /\ ledger # None
    /\ w \in Creators => ~In(tasks, w)
    /\ lock' = w
    /\ writer' = [writer EXCEPT ![w] =
                     [at |-> "prepared", tasks |-> Rev(tasks, w), ledger |-> Rev(ledger, w)]]
    /\ UNCHANGED <<tasks, ledger, frozen, git, tool, runs, exposed, broken>>

\* The file is what the plan found; a create finds none even where the whole
\* directory is gone.
Unchanged(w, dir, rev) ==
    IF dir = None THEN w \in Creators
    ELSE /\ w \notin dir.has /\ dir.rev[w] = rev
         /\ w \in Updaters => dir.form = "markdown"

\* A write makes the directories it needs.
With(dir, w) ==
    IF dir = None
    THEN [form |-> "markdown", by |-> 0, rev |-> [v \in Writers |-> 0], has |-> {w}]
    ELSE [dir EXCEPT !.has = @ \cup {w}]

\* The tool's last comparison of the board with its plan is behind it.
PastLastLook == tool # None /\ tool.past

Expose(w) == exposed' = IF PastLastLook THEN exposed \cup {w} ELSE exposed

WriteTask(w) ==
    /\ writer[w].at = "prepared" /\ Unchanged(w, tasks, writer[w].tasks)
    /\ Unchanged(w, ledger, writer[w].ledger)
    /\ tasks' = With(tasks, w)
    /\ Goto(w, "halfway") /\ Expose(w)
    /\ UNCHANGED <<ledger, frozen, lock, git, tool, runs, broken>>

\* The mutation is acknowledged.
WriteLedger(w) ==
    /\ writer[w].at = "halfway" /\ Unchanged(w, ledger, writer[w].ledger)
    /\ ledger' = With(ledger, w)
    /\ lock' = None /\ Goto(w, "acknowledged") /\ Expose(w)
    /\ UNCHANGED <<tasks, frozen, git, tool, runs, broken>>

\* A file that is not what the plan found: the task file is put back and the
\* mutation refused.
Refuse(w) ==
    /\ \/ /\ writer[w].at = "prepared"
          /\ ~(Unchanged(w, tasks, writer[w].tasks) /\ Unchanged(w, ledger, writer[w].ledger))
          /\ UNCHANGED tasks
       \/ /\ writer[w].at = "halfway" /\ ~Unchanged(w, ledger, writer[w].ledger)
          /\ tasks' = IF In(tasks, w) THEN [tasks EXCEPT !.has = @ \ {w}] ELSE tasks
    /\ lock' = None /\ Goto(w, "refused") /\ Expose(w)
    /\ UNCHANGED <<ledger, frozen, git, tool, runs, broken>>

\* The operator commits the board, between tools.
Commit ==
    /\ tool = None /\ ~Clean
    /\ git' = [tasks |-> tasks, ledger |-> ledger, cutover |-> FALSE]
    /\ UNCHANGED <<tasks, ledger, frozen, lock, writer, tool, runs, exposed, broken>>

Mutate ==
    \/ Commit
    \/ \E w \in Writers :
          PassFreeze(w) \/ Prepare(w) \/ WriteTask(w) \/ WriteLedger(w) \/ Refuse(w)

---------------------------------------------------------------------------
(* What the tools have in common *)

At(kind, s) == tool # None /\ tool.kind = kind /\ tool.at = s

\* A tool starts on what it finds: `seen` is the board its plan is for, `copy` what
\* it will put in place, `saved` what it has moved away, `put` what it has put.
Start(kind, at, touched) ==
    /\ tool = None /\ runs < MaxRuns /\ broken = "no"
    /\ runs' = runs + 1
    /\ tool' = [kind |-> kind, at |-> at, past |-> FALSE, touched |-> touched,
                seen |-> [tasks |-> tasks, ledger |-> ledger],
                copy |-> [tasks |-> None, ledger |-> None],
                saved |-> [tasks |-> None, ledger |-> None], put |-> {}]

Step(s) == tool' = [tool EXCEPT !.at = s]

\* A rename onto a directory that is there and not empty fails.
Free(dir) == dir # None => dir.has = {}

\* Something is moved away and not everything has been put in place.
Swapping == tool.saved # [tasks |-> None, ledger |-> None] /\ tool.put # {"tasks", "ledger"}

\* Ctrl-C is no Exception: nothing is undone, but the temporary directory goes, and
\* with it what was moved there.  A kill leaves it where nothing looks for it.
Stop(how, unfreeze) ==
    /\ tool' = None
    /\ broken' = IF Swapping THEN how ELSE broken
    /\ frozen' = (frozen /\ ~unfreeze)
    /\ UNCHANGED <<tasks, ledger, lock, writer, git, runs, exposed>>

\* A directory is moved back where the tool has put none, or removes its own first.
Back(name, dir) ==
    IF name \in tool.put \/ tool.saved[name] # None THEN tool.saved[name] ELSE dir
Blocked(name, dir) ==
    name \notin tool.put /\ tool.saved[name] # None /\ ~Free(dir)

\* Wrong: the undo knows of the tasks only.
UndoTasks(unfreeze) ==
    /\ tool' = None
    /\ tasks' = Back("tasks", tasks)
    /\ frozen' = (frozen /\ ~unfreeze)
    /\ UNCHANGED <<ledger, lock, writer, git, runs, exposed, broken>>

\* The undo of an Exception: ledger, then tasks.  A directory that a mutation has
\* made again in the gap cannot be replaced: the undo fails there and the temporary
\* directory, with what was moved into it, is removed all the same.
Undo(unfreeze) ==
    /\ tool' = None
    /\ ledger' = IF Blocked("ledger", ledger) THEN ledger ELSE Back("ledger", ledger)
    /\ tasks' = IF Blocked("ledger", ledger) \/ Blocked("tasks", tasks) THEN tasks
                ELSE Back("tasks", tasks)
    /\ broken' = IF Blocked("ledger", ledger) \/ Blocked("tasks", tasks)
                 THEN "undo failed" ELSE broken
    /\ frozen' = (frozen /\ ~unfreeze)
    /\ UNCHANGED <<lock, writer, git, runs, exposed>>

=============================================================================
