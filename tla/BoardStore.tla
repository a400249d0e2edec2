----------------------------- MODULE BoardStore -----------------------------
(***************************************************************************)
(* The mutation core of TaskStorage (storage.py): canonical task files and *)
(* their per-task ledgers, changed together through a write-ahead plan     *)
(* directory under transactions/, guarded by one board lock and one lock   *)
(* per task.  Processes are CLI invocations: each runs one call and may    *)
(* fail with an exception or be killed between any two steps.              *)
(*                                                                         *)
(* Two kinds of actor write without the board lock: a person editing a     *)
(* task file, and `reconcile`, which takes the task lock only.             *)
(*                                                                         *)
(* A file image is abstract: a member of Contents (or None when the file   *)
(* does not exist) for a task, the sequence of its events for a ledger.    *)
(* Which blockers or fields a mutation may change is the subject of the    *)
(* Lifecycle module; here such a validation may refuse any call.           *)
(***************************************************************************)
EXTENDS Naturals, Sequences, FiniteSets

CONSTANTS
    Tasks,       \* task IDs; a number stands for an ID, so that IDs sort
    Procs,       \* CLI processes
    Contents,    \* the distinguishable contents of a task file
    None,        \* no file, no hash, no process
    Tombstone,   \* the content hash delete_task records
    Kinds,       \* the mutating calls clients issue
    Reconcilers, \* the processes that also run `reconcile`
    MaxEvents,   \* bound: events per ledger
    MaxHead,     \* bound: Git commits that move HEAD
    MaxCrashes,  \* bound: processes killed
    Editable     \* the tasks whose files people edit by hand

AllKinds == {"create", "update", "exact-replace", "umbrella-finalize", "delete"}

ASSUME TasksAssumption == Tasks \subseteq Nat /\ Editable \subseteq Tasks
ASSUME ProcsAssumption == None \notin Procs /\ Reconcilers \subseteq Procs
ASSUME ContentsAssumption ==
    None \notin Contents /\ Tombstone \notin Contents /\ None # Tombstone
ASSUME KindsAssumption == Kinds \subseteq AllKinds
ASSUME BoundsAssumption ==
    MaxEvents \in Nat /\ MaxHead \in Nat /\ MaxCrashes \in Nat

VARIABLES
    disk,       \* path -> image: tasks/<shard>/<ID>.md and ledger/<shard>/<ID>
    head,       \* the controller's Git HEAD
    staging,    \* transaction directories that hold no plan.json yet
    intents,    \* transaction directories whose plan.json is published
    boardLock,  \* holder of locks/board-mutation.lock
    taskLock,   \* task -> holder of locks/<shard>/<id>.lock
    pc, job, plan, done,    \* per process: step, call, its plan, paths written
    foreign,    \* history: tasks last written outside the board lock
    crashes     \* processes killed so far

disks == <<disk, staging, intents>>
locals == <<pc, job, plan, done>>
locks == <<boardLock, taskLock>>
vars == <<disk, head, staging, intents, boardLock, taskLock,
          pc, job, plan, done, foreign, crashes>>

---------------------------------------------------------------------------
(* Paths and images *)

Paths(S) == S \X {"task", "ledger"}

Hash == Contents \cup {None, Tombstone}
Event == [op: AllKinds \cup {"reconcile", "recovery"}, before: Hash, after: Hash]

Current(t) == disk[<<t, "task">>]
Ledger(t) == disk[<<t, "ledger">>]

\* TaskLedger.latest(...)["after_sha256"]; None for an empty ledger.
Tip(log) == IF log = <<>> THEN None ELSE log[Len(log)].after

\* What the ledger's tip must say of a task file with this content.
Agrees(content, tip) ==
    IF content = None THEN tip \in {None, Tombstone} ELSE tip = content

\* The entry order of a plan: tasks by ID, each task file before its ledger.
Precedes(q, r) == q[1] < r[1] \/ (q[1] = r[1] /\ q[2] = "task" /\ r[2] = "ledger")

IsNext(q, all, finished) ==
    /\ q \in all \ finished
    /\ \A r \in all : Precedes(r, q) => r \in finished

Covered(t) == \E x \in intents : t \in x.tasks

---------------------------------------------------------------------------
(* Plans and per-process bookkeeping *)

NoRevisions == [t \in {} |-> None]
NoJob == [kind |-> "none", tasks |-> {}, cas |-> FALSE, seen |-> NoRevisions]

\* Leaving the call: every lock the process holds is released.
Exit(p) ==
    /\ pc' = [pc EXCEPT ![p] = "idle"]
    /\ job' = [job EXCEPT ![p] = NoJob]
    /\ plan' = [plan EXCEPT ![p] = None]
    /\ done' = [done EXCEPT ![p] = {}]
    /\ boardLock' = IF boardLock = p THEN None ELSE boardLock
    /\ taskLock' = [t \in Tasks |-> IF taskLock[t] = p THEN None ELSE taskLock[t]]

Goto(p, label) == pc' = [pc EXCEPT ![p] = label]

---------------------------------------------------------------------------
(* Init: a board with no work in progress; each task absent, or created.   *)

Init ==
    /\ \E made \in SUBSET Tasks : \E c \in [made -> Contents] :
          disk = [q \in Paths(Tasks) |->
                    IF q[2] = "task"
                    THEN IF q[1] \in made THEN c[q[1]] ELSE None
                    ELSE IF q[1] \in made
                         THEN << [op |-> "create", before |-> None, after |-> c[q[1]]] >>
                         ELSE <<>>]
    /\ head = 0
    /\ staging = {} /\ intents = {}
    /\ boardLock = None
    /\ taskLock = [t \in Tasks |-> None]
    /\ pc = [p \in Procs |-> "idle"]
    /\ job = [p \in Procs |-> NoJob]
    /\ plan = [p \in Procs |-> None]
    /\ done = [p \in Procs |-> {}]
    /\ foreign = {}
    /\ crashes = 0

---------------------------------------------------------------------------
(* Entering the board lock and recovering abandoned transactions           *)

\* A client calls with the revision it last read (kept only when it is to be
\* compared: update_task may be unconditional, exact_replace_record and
\* finalize_umbrella never are).
Invoke(p) ==
    /\ pc[p] = "idle"
    /\ \E kind \in Kinds : \E S \in SUBSET Tasks : \E cas \in BOOLEAN :
          /\ IF kind = "umbrella-finalize" THEN Cardinality(S) > 1 ELSE Cardinality(S) = 1
          /\ kind \in {"create", "delete"} => ~cas
          /\ kind \in {"exact-replace", "umbrella-finalize"} => cas
          /\ job' = [job EXCEPT ![p] =
                [kind |-> kind, tasks |-> S, cas |-> cas,
                 seen |-> IF cas THEN [t \in S |-> Current(t)] ELSE NoRevisions]]
    /\ Goto(p, "board")
    /\ UNCHANGED <<disks, head, locks, plan, done, foreign, crashes>>

\* Wrong: a board lock that does not exclude.
AcquireBoardShared(p) ==
    /\ pc[p] = "board"
    /\ boardLock' = p
    /\ Goto(p, "recover")
    /\ UNCHANGED <<disks, head, taskLock, job, plan, done, foreign, crashes>>

AcquireBoard(p) ==
    /\ pc[p] = "board"
    /\ boardLock = None
    /\ boardLock' = p
    /\ Goto(p, "recover")
    /\ UNCHANGED <<disks, head, taskLock, job, plan, done, foreign, crashes>>

\* A directory without plan.json is private staging and is removed.
DiscardStaging(p) ==
    /\ pc[p] = "recover"
    /\ \E x \in staging : staging' = staging \ {x}
    /\ UNCHANGED <<disk, intents, head, locks, locals, foreign, crashes>>

PathState(x, q) ==
    IF disk[q] = x.after[q] THEN "after"
    ELSE IF disk[q] = x.before[q] THEN "before" ELSE "unknown"

Drifted(x) == \E q \in Paths(x.tasks) : PathState(x, q) = "unknown"
\* Wrong: one activated path passes for a completed transaction.
FullyActivatedSomewhere(x) == \E q \in Paths(x.tasks) : PathState(x, q) = "after"
FullyActivated(x) == \A q \in Paths(x.tasks) : PathState(x, q) = "after"
Recoverable(x) == x.head = head /\ ~Drifted(x)

\* A stale identity or a drifted path makes the whole call fail.
RefuseRecovery(p) ==
    /\ pc[p] = "recover"
    /\ \E x \in intents : ~Recoverable(x)
    /\ Exit(p)
    /\ UNCHANGED <<disks, head, foreign, crashes>>

KeepActivated(p) ==
    /\ pc[p] = "recover"
    /\ \E x \in intents :
          /\ Recoverable(x) /\ FullyActivated(x)
          /\ intents' = intents \ {x}
    /\ UNCHANGED <<disk, staging, head, locks, locals, foreign, crashes>>

BeginRestore(p) ==
    /\ pc[p] = "recover"
    /\ \E x \in intents :
          /\ Recoverable(x) /\ ~FullyActivated(x)
          /\ plan' = [plan EXCEPT ![p] = x]
    /\ done' = [done EXCEPT ![p] = {}]
    /\ Goto(p, "restore")
    /\ UNCHANGED <<disks, head, locks, job, foreign, crashes>>

\* _restore_plan: one atomic replace per entry, for recovery and for undo.
RestorePath(p) ==
    /\ pc[p] \in {"restore", "undo"}
    /\ \E q \in Paths(plan[p].tasks) :
          /\ IsNext(q, Paths(plan[p].tasks), done[p])
          /\ disk' = [disk EXCEPT ![q] = plan[p].before[q]]
          /\ done' = [done EXCEPT ![p] = @ \cup {q}]
    /\ UNCHANGED <<head, staging, intents, locks, pc, job, plan, foreign, crashes>>

\* Wrong: the restored directory stays.
EndRestoreKept(p) ==
    /\ pc[p] = "restore"
    /\ done[p] = Paths(plan[p].tasks)
    /\ plan' = [plan EXCEPT ![p] = None]
    /\ done' = [done EXCEPT ![p] = {}]
    /\ Goto(p, "recover")
    /\ UNCHANGED <<disks, head, locks, job, foreign, crashes>>

EndRestore(p) ==
    /\ pc[p] = "restore"
    /\ done[p] = Paths(plan[p].tasks)
    /\ intents' = intents \ {plan[p]}
    /\ plan' = [plan EXCEPT ![p] = None]
    /\ done' = [done EXCEPT ![p] = {}]
    /\ Goto(p, "recover")
    /\ UNCHANGED <<disk, staging, head, locks, job, foreign, crashes>>

\* Wrong: the call goes on before recovery has looked at every directory.
EndRecoveryEarly(p) ==
    /\ pc[p] = "recover"
    /\ Goto(p, "lock")
    /\ UNCHANGED <<disks, head, locks, job, plan, done, foreign, crashes>>

EndRecovery(p) ==
    /\ pc[p] = "recover"
    /\ staging = {} /\ intents = {}
    /\ Goto(p, "lock")
    /\ UNCHANGED <<disks, head, locks, job, plan, done, foreign, crashes>>

\* After recovery a caller's controller binding is compared with the live one;
\* a mismatch that is no metadata checkpoint ends the call.
RefuseBinding(p) ==
    /\ pc[p] = "recover"
    /\ staging = {} /\ intents = {}
    /\ Exit(p)
    /\ UNCHANGED <<disks, head, foreign, crashes>>

---------------------------------------------------------------------------
(* Task locks, reading, and planning                                       *)

\* finalize_umbrella takes the locks in ID order, the other calls take one.
NextTask(p, t) ==
    /\ t \in job[p].tasks /\ taskLock[t] # p
    /\ \A u \in job[p].tasks : u < t => taskLock[u] = p

\* Wrong: the task lock is taken whoever holds it.
LockTaskHeld(p) ==
    /\ pc[p] = "lock"
    /\ \E t \in Tasks :
          /\ NextTask(p, t)
          /\ taskLock' = [taskLock EXCEPT ![t] = p]
          /\ Goto(p, IF \A u \in job[p].tasks \ {t} : taskLock[u] = p
                     THEN "read" ELSE "lock")
    /\ UNCHANGED <<disks, head, boardLock, job, plan, done, foreign, crashes>>

LockTask(p) ==
    /\ pc[p] = "lock"
    /\ \E t \in Tasks :
          /\ NextTask(p, t)
          /\ taskLock[t] = None
          /\ taskLock' = [taskLock EXCEPT ![t] = p]
          /\ Goto(p, IF \A u \in job[p].tasks \ {t} : taskLock[u] = p
                     THEN "read" ELSE "lock")
    /\ UNCHANGED <<disks, head, boardLock, job, plan, done, foreign, crashes>>

\* The wait for a task lock is bounded; TimeoutError ends the call.
LockTimeout(p) ==
    /\ pc[p] = "lock"
    /\ \E t \in Tasks : NextTask(p, t) /\ taskLock[t] # None
    /\ Exit(p)
    /\ UNCHANGED <<disks, head, foreign, crashes>>

ReconcileEvent(t) ==
    IF Ledger(t) = <<>>
    THEN [op |-> "recovery", before |-> None, after |-> Current(t)]
    ELSE [op |-> "reconcile", before |-> Tip(Ledger(t)), after |-> Current(t)]

NeedsReconcile(t) == Current(t) # None /\ Tip(Ledger(t)) # Current(t)

CasHolds(p) == job[p].cas => \A t \in job[p].tasks : job[p].seen[t] = Current(t)

\* Wrong: the call plans from what its client saw, not from what it reads.
ReadNothing(p) ==
    /\ pc[p] = "read"
    /\ \A t \in job[p].tasks : (Current(t) = None) <=> (job[p].kind = "create")
    /\ CasHolds(p)
    /\ Goto(p, "plan")
    /\ UNCHANGED <<disks, head, locks, job, plan, done, foreign, crashes>>

\* The call reads its tasks.  A stale revision is refused before any write;
\* update_task then reconciles the ledger with the file, by a direct append
\* that is not part of the transaction.
Read(p) ==
    /\ pc[p] = "read"
    /\ \A t \in job[p].tasks : (Current(t) = None) <=> (job[p].kind = "create")
    /\ CasHolds(p)
    /\ LET behind == {t \in job[p].tasks : job[p].kind = "update" /\ NeedsReconcile(t)}
       IN /\ \A t \in behind : Len(Ledger(t)) < MaxEvents
          /\ disk' = [q \in Paths(Tasks) |->
                        IF q[1] \in behind /\ q[2] = "ledger"
                        THEN Append(disk[q], ReconcileEvent(q[1])) ELSE disk[q]]
          /\ foreign' = foreign \ behind
    /\ job' = [job EXCEPT ![p].seen = [t \in job[p].tasks |-> Current(t)]]
    /\ Goto(p, "plan")
    /\ UNCHANGED <<head, staging, intents, locks, plan, done, crashes>>

\* Any refusal before the transaction directory exists: missing or existing
\* file, stale revision, an invariant of the Lifecycle module, a bad field,
\* an oversized event.
Refuse(p) ==
    /\ pc[p] \in {"read", "plan"}
    /\ Exit(p)
    /\ UNCHANGED <<disks, head, foreign, crashes>>

NewEvent(p, t, content) ==
    [op |-> job[p].kind,
     before |-> job[p].seen[t],
     after |-> IF content = None THEN Tombstone ELSE content]

\* _apply_batch_transaction up to its mkdir: identity and before-images are
\* captured, after-images fixed.
MakePlan(p) ==
    /\ pc[p] = "plan"
    /\ \A t \in job[p].tasks : Len(Ledger(t)) < MaxEvents
    /\ \E new \in [job[p].tasks -> Contents \cup {None}] :
          /\ \A t \in job[p].tasks :
                IF job[p].kind = "delete" THEN new[t] = None
                ELSE new[t] \notin {None, job[p].seen[t]}
          /\ LET x == [by |-> p, tasks |-> job[p].tasks, head |-> head,
                       before |-> [q \in Paths(job[p].tasks) |-> disk[q]],
                       after |-> [q \in Paths(job[p].tasks) |->
                          IF q[2] = "task" THEN new[q[1]]
                          ELSE Append(disk[q], NewEvent(p, q[1], new[q[1]]))]]
             IN /\ staging' = staging \cup {x}
                /\ plan' = [plan EXCEPT ![p] = x]
    /\ Goto(p, "staged")
    /\ UNCHANGED <<disk, intents, head, locks, job, done, foreign, crashes>>

---------------------------------------------------------------------------
(* Activation, completion and rollback of a transaction                    *)

\* Staged images are on disk and the codec accepted them; plan.json appears.
PublishIntent(p) ==
    /\ pc[p] = "staged"
    /\ staging' = staging \ {plan[p]}
    /\ intents' = intents \cup {plan[p]}
    /\ Goto(p, "intent")
    /\ UNCHANGED <<disk, head, locks, job, plan, done, foreign, crashes>>

\* The last check before activation: HEAD is still the captured one.
CheckIdentity(p) ==
    /\ pc[p] = "intent"
    /\ Goto(p, IF plan[p].head = head THEN "activate" ELSE "undo")
    /\ UNCHANGED <<disks, head, locks, job, plan, done, foreign, crashes>>

Activate(p) ==
    /\ pc[p] = "activate"
    /\ \E q \in Paths(plan[p].tasks) :
          /\ IsNext(q, Paths(plan[p].tasks), done[p])
          /\ disk' = [disk EXCEPT ![q] = plan[p].after[q]]
          /\ done' = [done EXCEPT ![p] = @ \cup {q}]
    /\ UNCHANGED <<head, staging, intents, locks, pc, job, plan, foreign, crashes>>

\* Every path is activated: the directory is removed and the call returns.
\* The ledgers of these tasks now speak for their files, unless somebody
\* wrote one of them in the meantime.
Complete(p) ==
    /\ pc[p] = "activate"
    /\ done[p] = Paths(plan[p].tasks)
    /\ intents' = intents \ {plan[p]}
    /\ foreign' = foreign \ {t \in plan[p].tasks :
                               \A q \in Paths({t}) : disk[q] = plan[p].after[q]}
    /\ Exit(p)
    /\ UNCHANGED <<disk, staging, head, crashes>>

\* An exception after mkdir.  Without plan.json the directory is just removed.
FaultBeforeIntent(p) ==
    /\ pc[p] = "staged"
    /\ staging' = staging \ {plan[p]}
    /\ Exit(p)
    /\ UNCHANGED <<disk, intents, head, foreign, crashes>>

\* Wrong: the directory is dropped and what was activated stays.
FaultAfterIntentUndone(p) ==
    /\ pc[p] \in {"intent", "activate"}
    /\ intents' = intents \ {plan[p]}
    /\ Exit(p)
    /\ UNCHANGED <<disk, staging, head, foreign, crashes>>

\* With plan.json the before-images are written back first.
FaultAfterIntent(p) ==
    /\ pc[p] \in {"intent", "activate"}
    /\ Goto(p, "undo")
    /\ done' = [done EXCEPT ![p] = {}]
    /\ UNCHANGED <<disks, head, locks, job, plan, foreign, crashes>>

EndUndo(p) ==
    /\ pc[p] = "undo"
    /\ done[p] = Paths(plan[p].tasks)
    /\ intents' = intents \ {plan[p]}
    /\ Exit(p)
    /\ UNCHANGED <<disk, staging, head, foreign, crashes>>

---------------------------------------------------------------------------
(* Reconcile: the task lock only, never the board lock                     *)

\* Wrong: reconcile goes ahead without the task lock.
ReconcileStartUnlocked(p) ==
    /\ p \in Reconcilers
    /\ pc[p] = "idle"
    /\ \E t \in Tasks :
          /\ Current(t) # None
          /\ job' = [job EXCEPT ![p] = [kind |-> "reconcile", tasks |-> {t},
                                           cas |-> FALSE, seen |-> NoRevisions]]
    /\ Goto(p, "compare")
    /\ UNCHANGED <<disks, head, locks, plan, done, foreign, crashes>>

ReconcileStart(p) ==
    /\ p \in Reconcilers
    /\ pc[p] = "idle"
    /\ \E t \in Tasks :
          /\ Current(t) # None
          /\ taskLock[t] = None
          /\ taskLock' = [taskLock EXCEPT ![t] = p]
          /\ job' = [job EXCEPT ![p] = [kind |-> "reconcile", tasks |-> {t},
                                           cas |-> FALSE, seen |-> NoRevisions]]
    /\ Goto(p, "compare")
    /\ UNCHANGED <<disks, head, boardLock, plan, done, foreign, crashes>>

\* Reads file and tip; nothing to do when they agree.  (Reading a file that
\* vanished raises.)
ReconcileAgrees(p) ==
    /\ pc[p] = "compare"
    /\ \A t \in job[p].tasks : ~NeedsReconcile(t)
    /\ Exit(p)
    /\ UNCHANGED <<disks, head, foreign, crashes>>

\* The event prepared from what was read, and the ledger it was read from.
ReconcilePrepare(p) ==
    /\ pc[p] = "compare"
    /\ \E t \in job[p].tasks :
          /\ NeedsReconcile(t)
          /\ Len(Ledger(t)) < MaxEvents
          /\ plan' = [plan EXCEPT ![p] =
                         [log |-> Ledger(t), event |-> ReconcileEvent(t)]]
    /\ Goto(p, "append")
    /\ UNCHANGED <<disks, head, locks, job, done, foreign, crashes>>

\* Wrong: the prepared event is appended to whatever the ledger is by now.
ReconcileAppendBlind(p) ==
    /\ pc[p] = "append"
    /\ \E t \in job[p].tasks :
          /\ disk' = [disk EXCEPT ![<<t, "ledger">>] = Append(@, plan[p].event)]
          /\ foreign' = IF Current(t) = plan[p].event.after /\ ~Covered(t)
                        THEN foreign \ {t} ELSE foreign \cup {t}
    /\ Exit(p)
    /\ UNCHANGED <<staging, intents, head, crashes>>

\* append_prepared refuses a stale chain tip.  The history variable says
\* whether the ledger speaks for the file again.
ReconcileAppend(p) ==
    /\ pc[p] = "append"
    /\ \E t \in job[p].tasks :
          IF Ledger(t) = plan[p].log
          THEN /\ disk' = [disk EXCEPT ![<<t, "ledger">>] = Append(@, plan[p].event)]
               /\ foreign' = IF Current(t) = plan[p].event.after /\ ~Covered(t)
                             THEN foreign \ {t} ELSE foreign \cup {t}
          ELSE UNCHANGED <<disk, foreign>>
    /\ Exit(p)
    /\ UNCHANGED <<staging, intents, head, crashes>>

---------------------------------------------------------------------------
(* The environment                                                         *)

\* SIGKILL: the kernel releases the locks, everything on disk stays.
Crash(p) ==
    /\ pc[p] # "idle"
    /\ crashes < MaxCrashes
    /\ crashes' = crashes + 1
    /\ Exit(p)
    /\ UNCHANGED <<disks, head, foreign>>

MoveHead ==
    /\ head < MaxHead
    /\ head' = head + 1
    /\ UNCHANGED <<disks, locks, locals, foreign, crashes>>

EditFile(t) ==
    /\ t \in Editable
    /\ Current(t) # None
    /\ \E c \in Contents \ {Current(t)} : disk' = [disk EXCEPT ![<<t, "task">>] = c]
    /\ foreign' = foreign \cup {t}
    /\ UNCHANGED <<head, staging, intents, locks, locals, crashes>>

---------------------------------------------------------------------------

Recover(p) ==
    \/ DiscardStaging(p) \/ RefuseRecovery(p) \/ KeepActivated(p)
    \/ BeginRestore(p) \/ RestorePath(p) \/ EndRestore(p) \/ EndRecovery(p)
    \/ RefuseBinding(p)

Mutate(p) ==
    \/ LockTask(p) \/ LockTimeout(p) \/ Read(p) \/ Refuse(p) \/ MakePlan(p)
    \/ PublishIntent(p) \/ CheckIdentity(p) \/ Activate(p) \/ Complete(p)
    \/ EndUndo(p)

Reconcile(p) ==
    ReconcileAgrees(p) \/ ReconcilePrepare(p) \/ ReconcileAppend(p)

\* The steps of a running program, which its process keeps taking.
Program(p) == Invoke(p) \/ AcquireBoard(p) \/ Recover(p) \/ Mutate(p) \/ Reconcile(p)

Next ==
    \/ \E p \in Procs : \/ Program(p) \/ ReconcileStart(p)
                        \/ FaultBeforeIntent(p) \/ FaultAfterIntent(p) \/ Crash(p)
    \/ MoveHead
    \/ \E t \in Tasks : EditFile(t)

Spec == Init /\ [][Next]_vars

\* Clients keep calling, and a process that can take a step takes one.
FairSpec == Spec /\ \A p \in Procs : WF_vars(Program(p))

---------------------------------------------------------------------------
(* Properties *)

Steps == {"idle", "board", "recover", "restore", "lock", "read", "plan", "staged",
          "intent", "activate", "undo", "compare", "append"}

AreImages(f, S) ==
    /\ DOMAIN f = Paths(S)
    /\ \A q \in Paths(S) :
          IF q[2] = "task" THEN f[q] \in Contents \cup {None} ELSE f[q] \in Seq(Event)

IsPlan(x) ==
    /\ x.by \in Procs /\ x.tasks \subseteq Tasks /\ x.head \in 0..MaxHead
    /\ AreImages(x.before, x.tasks) /\ AreImages(x.after, x.tasks)

IsJob(j) ==
    /\ j = [kind |-> j.kind, tasks |-> j.tasks, cas |-> j.cas, seen |-> j.seen]
    /\ j.kind \in AllKinds \cup {"none", "reconcile"}
    /\ j.tasks \subseteq Tasks /\ j.cas \in BOOLEAN
    /\ \A t \in DOMAIN j.seen : j.seen[t] \in Contents \cup {None}

\* The steps at which a process has a plan in hand.
PlanSteps == {"staged", "intent", "activate", "undo", "restore"}

\* The type invariant of the variables above.
TypeOK ==
    /\ AreImages(disk, Tasks)
    /\ head \in 0..MaxHead
    /\ \A x \in staging \cup intents : IsPlan(x)
    /\ boardLock \in Procs \cup {None}
    /\ taskLock \in [Tasks -> Procs \cup {None}]
    /\ pc \in [Procs -> Steps]
    /\ DOMAIN job = Procs /\ DOMAIN plan = Procs
    /\ \A p \in Procs :
          /\ IsJob(job[p])
          /\ pc[p] = "plan" => DOMAIN job[p].seen = job[p].tasks
          /\ pc[p] \in Steps \ {"idle", "compare", "append"} => job[p].kind \in Kinds
    /\ \A p \in Procs :
          IF pc[p] \in PlanSteps THEN IsPlan(plan[p])
          ELSE IF pc[p] = "append"
               THEN plan[p] \in [log: Seq(Event), event: Event]
               ELSE plan[p] = None
    /\ done \in [Procs -> SUBSET Paths(Tasks)]
    /\ foreign \subseteq Tasks
    /\ crashes \in 0..MaxCrashes

\* The recovery that runs first under the board lock leaves no directory
\* behind, so a plan is never made on top of an unfinished one.
SingleTransaction == \A x, y \in staging \cup intents : x = y

\* While an intent is published, every path it names holds its before-image
\* or its after-image, except on tasks somebody wrote outside the board lock:
\* recovery can always decide, and "drifted" blames a foreign write only.
Restorable ==
    \A x \in intents : \A q \in Paths(x.tasks) :
        q[1] \in foreign \/ disk[q] \in {x.before[q], x.after[q]}

\* doctor's "ledger/current-state mismatch": outside a published intent the
\* ledger of a task ends in the hash of its file, unless the file was last
\* written outside the board lock.  Batches included: no torn commit.
LedgerSpeaks ==
    \A t \in Tasks \ foreign : Covered(t) \/ Agrees(Current(t), Tip(Ledger(t)))

---------------------------------------------------------------------------
(* Why these hold: the inductive invariant behind the three above.         *)

BoardSteps == {"recover", "restore", "lock", "read", "plan", "staged",
               "intent", "activate", "undo"}
LockedSteps == {"read", "plan", "staged", "compare", "append"}

\* Putting back either side of a plan leaves ledgers that speak for files.
Sound(x) ==
    \A t \in x.tasks :
        /\ Agrees(x.after[<<t, "task">>], Tip(x.after[<<t, "ledger">>]))
        /\ t \in foreign \/ Agrees(x.before[<<t, "task">>], Tip(x.before[<<t, "ledger">>]))

Holds(image, q) == disk[q] = image[q] \/ q[1] \in foreign

\* What each process may rely on at its step: the locks it holds, the only
\* transaction directory there is, and the images it has already written.
Relies(p) ==
    /\ pc[p] \in BoardSteps => boardLock = p
    /\ pc[p] \in LockedSteps => \A t \in job[p].tasks : taskLock[t] = p
    /\ pc[p] \in {"lock", "read", "plan"} => staging = {} /\ intents = {}
    /\ pc[p] = "staged" =>
          /\ staging = {plan[p]} /\ intents = {}
          /\ plan[p].tasks = job[p].tasks
          /\ Sound(plan[p])
          /\ \A q \in Paths(plan[p].tasks) : Holds(plan[p].before, q)
    /\ pc[p] \in {"intent", "activate", "undo", "restore"} =>
          staging = {} /\ intents = {plan[p]}
    /\ pc[p] \in {"undo", "restore"} =>
          \A q \in Paths(plan[p].tasks) : q \in done[p] => Holds(plan[p].before, q)
    /\ pc[p] = "activate" =>
          \A q \in Paths(plan[p].tasks) : q \in done[p] => Holds(plan[p].after, q)
    /\ pc[p] \notin {"activate", "undo", "restore"} => done[p] = {}

\* The board lock serializes transactions and recovery; with the task lock it
\* keeps a plan's images true until its directory is gone.
Protocol ==
    /\ \A p \in Procs : Relies(p)
    /\ staging = {} \/ intents = {}
    /\ \A x \in intents : Sound(x)

---------------------------------------------------------------------------
\* doctor's "ledger state hash discontinuity": every event starts where the
\* previous one ended.  A re-created task starts from nothing; and only
\* update_task and reconcile look at the tip before they append, so the
\* other calls can leave a gap on a file that was written outside the lock.
WrittenOutside(t) == t \in Editable \/ Reconcilers # {}

HistoryLinked ==
    \A t \in Tasks : \A i \in 2..Len(Ledger(t)) :
        \/ Ledger(t)[i].before = Ledger(t)[i - 1].after
        \/ Ledger(t)[i].op = "create"
        \/ WrittenOutside(t) /\ Ledger(t)[i].op \notin {"update", "reconcile"}

\* The board a writer will find once it has recovered: under an intent the
\* images that recovery would put back.  A commit takes effect when its plan
\* is removed.
Committed(t, part) ==
    IF Covered(t) THEN (CHOOSE x \in intents : t \in x.tasks).before[<<t, part>>]
    ELSE disk[<<t, part>>]

\* No event that was committed is ever lost again, whatever fails and
\* whoever writes outside the board lock.
CommittedHistorySurvives ==
    [][\A t \in Tasks :
         LET old == Committed(t, "ledger") new == Committed(t, "ledger")'
         IN Len(old) <= Len(new) /\ SubSeq(new, 1, Len(old)) = old]_vars

\* Without outside writers, every call is atomic over all of its tasks: this
\* module implements AtomicBoard, through crashes and failed activations.
Atomic == INSTANCE AtomicBoard WITH
    file <- [t \in Tasks |-> Committed(t, "task")],
    log <- [t \in Tasks |-> Committed(t, "ledger")]

ImplementsAtomicBoard == Atomic!Spec

\* Abandoned intents do not stay: the next writer resolves them, unless
\* someone moved HEAD under the plan, which recovery refuses to decide.
IntentResolved ==
    (\E x \in intents : TRUE)
        ~> (intents = {} \/ \E x \in intents : x.head # head)

=============================================================================
