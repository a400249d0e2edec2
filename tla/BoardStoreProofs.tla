-------------------------- MODULE BoardStoreProofs --------------------------
(***************************************************************************)
(* What holds of BoardStore for any number of tasks, processes, contents,  *)
(* crashes, edits and events: its types; one transaction directory at      *)
(* most, intents that can always be put back, and ledgers that speak for   *)
(* files; every ledger linked and its committed events kept; and, without  *)
(* outside writers, that the store implements AtomicBoard.                 *)
(*                                                                         *)
(* None of them is inductive alone.  Each process relies on the locks it   *)
(* holds and on the directory it made (Relies); what is on disk while an   *)
(* intent is out is one of its two sound images (Restorable, Sound).  What *)
(* is kept of the past rests on one more invariant, History: what the      *)
(* images of a plan say of each other, and what a process knows of a       *)
(* ledger between the step that reads it and the step that writes it.      *)
(***************************************************************************)
EXTENDS BoardStore, TLAPS

---------------------------------------------------------------------------
(* Lemmas on paths, hashes and events *)

\* A path is a task and a part, and each task has both of its paths.
LEMMA PathFacts ==
    ASSUME NEW S
    PROVE  /\ \A q \in Paths(S) : /\ q[1] \in S /\ q[2] \in {"task", "ledger"}
                                  /\ q = <<q[1], q[2]>>
           /\ \A t \in S : <<t, "task">> \in Paths(S) /\ <<t, "ledger">> \in Paths(S)
  BY DEF Paths

\* The paths of a smaller set of tasks are among those of the larger one.
LEMMA PathsMonotone ==
    ASSUME NEW S, NEW T, S \subseteq T
    PROVE  Paths(S) \subseteq Paths(T)
  BY DEF Paths

\* Appending an event to a ledger gives a ledger that ends in its hash.
LEMMA AppendedTip ==
    ASSUME NEW log \in Seq(Event), NEW e \in Event
    PROVE  Append(log, e) \in Seq(Event) /\ Tip(Append(log, e)) = e.after
<1>1. Append(log, e) \in Seq(Event) /\ Len(Append(log, e)) = Len(log) + 1
  OBVIOUS
<1>2. Append(log, e)[Len(log) + 1] = e
  OBVIOUS
<1>3. Append(log, e) # <<>>
  BY <1>1
<1> QED
  BY <1>1, <1>2, <1>3 DEF Tip

\* The tip of a ledger is a hash, or None for an empty one.
LEMMA TipIsHash ==
    ASSUME NEW log \in Seq(Event)
    PROVE  Tip(log) \in Hash
<1>1. CASE log = <<>>
  BY <1>1 DEF Tip, Hash
<1>2. CASE log # <<>>
  <2>1. Len(log) \in 1..Len(log)
    BY <1>2
  <2>2. log[Len(log)] \in Event
    BY <2>1
  <2> QED
    BY <1>2, <2>2 DEF Tip, Event
<1> QED
  BY <1>1, <1>2

\* Whatever a process leaves behind it, its own variables are typed again.
LEMMA ExitType ==
    ASSUME TypeOK, NEW p \in Procs, Exit(p)
    PROVE  /\ boardLock' \in Procs \cup {None}
           /\ taskLock' \in [Tasks -> Procs \cup {None}]
           /\ pc' \in [Procs -> Steps]
           /\ DOMAIN job' = Procs /\ DOMAIN plan' = Procs
           /\ done' \in [Procs -> SUBSET Paths(Tasks)]
           /\ pc'[p] = "idle" /\ job'[p] = NoJob /\ plan'[p] = None /\ done'[p] = {}
           /\ \A r \in Procs \ {p} : /\ pc'[r] = pc[r] /\ job'[r] = job[r]
                                     /\ plan'[r] = plan[r] /\ done'[r] = done[r]
           /\ IsJob(NoJob)
  BY DEF TypeOK, Exit, Steps, IsJob, NoJob, NoRevisions

---------------------------------------------------------------------------
(* Type correctness *)

\* The initial board is well typed.
LEMMA InitType == Init => TypeOK
<1> SUFFICES ASSUME Init PROVE TypeOK
  OBVIOUS
<1>1. AreImages(disk, Tasks)
  <2> DEFINE Made(made, c) ==
        disk = [q \in Paths(Tasks) |->
                    IF q[2] = "task"
                    THEN IF q[1] \in made THEN c[q[1]] ELSE None
                    ELSE IF q[1] \in made
                         THEN << [op |-> "create", before |-> None, after |-> c[q[1]]] >>
                         ELSE <<>>]
  <2> PICK made \in SUBSET Tasks : \E c \in [made -> Contents] : Made(made, c)
    BY DEF Init
  <2> PICK c \in [made -> Contents] : Made(made, c)
    OBVIOUS
  <2>1. ASSUME NEW t \in made
        PROVE  << [op |-> "create", before |-> None, after |-> c[t]] >> \in Seq(Event)
    BY DEF Event, Hash, AllKinds
  <2>2. <<>> \in Seq(Event)
    OBVIOUS
  <2> QED
    BY <2>1, <2>2, PathFacts DEF AreImages
<1>2. \A p \in Procs : IsJob(job[p])
  BY DEF Init, IsJob, NoJob, NoRevisions
<1> QED
  BY <1>1, <1>2, BoundsAssumption DEF Init, TypeOK, Steps, PlanSteps

\* A process that leaves keeps the types of whatever it did not write.
LEMMA ExitKeepsType ==
    ASSUME TypeOK, NEW p \in Procs, Exit(p),
           AreImages(disk', Tasks), head' \in 0..MaxHead, crashes' \in 0..MaxCrashes,
           foreign' \subseteq Tasks, staging' \subseteq staging, intents' \subseteq intents
    PROVE  TypeOK'
<1>1. \A r \in Procs : /\ IsJob(job'[r])
                       /\ pc'[r] = "plan" => DOMAIN job'[r].seen = job'[r].tasks
                       /\ pc'[r] \in Steps \ {"idle", "compare", "append"} => job'[r].kind \in Kinds
  BY ExitType DEF TypeOK
<1>2. \A r \in Procs :
          IF pc'[r] \in PlanSteps THEN IsPlan(plan'[r])
          ELSE IF pc'[r] = "append"
               THEN plan'[r] \in [log: Seq(Event), event: Event]
               ELSE plan'[r] = None
  <2>1. "idle" \notin PlanSteps
    BY DEF PlanSteps
  <2> QED
    BY <2>1, ExitType DEF TypeOK
<1> QED
  BY <1>1, <1>2, ExitType DEF TypeOK

\* Every step keeps the types.
LEMMA StepType == TypeOK /\ [Next]_vars => TypeOK'
<1> SUFFICES ASSUME TypeOK, [Next]_vars PROVE TypeOK'
  OBVIOUS
<1> USE DEF disks, locks, locals
<1>1. ASSUME NEW p \in Procs, Invoke(p) PROVE TypeOK'
  <2>1. PICK kind \in Kinds, S \in SUBSET Tasks, cas \in BOOLEAN :
            job' = [job EXCEPT ![p] =
                [kind |-> kind, tasks |-> S, cas |-> cas,
                 seen |-> IF cas THEN [t \in S |-> Current(t)] ELSE NoRevisions]]
    BY <1>1 DEF Invoke
  <2>2. IsJob(job'[p])
    <3>1. \A t \in S : Current(t) \in Contents \cup {None}
      BY PathFacts DEF TypeOK, AreImages, Current
    <3> QED
      BY <2>1, <3>1, KindsAssumption DEF IsJob, NoRevisions, TypeOK
  <2> QED
    BY <1>1, <2>1, <2>2 DEF Invoke, Goto, TypeOK, Steps, PlanSteps
<1>2. ASSUME NEW p \in Procs, AcquireBoard(p) PROVE TypeOK'
  BY <1>2 DEF AcquireBoard, Goto, TypeOK, Steps, PlanSteps
<1>3. ASSUME NEW p \in Procs, DiscardStaging(p) PROVE TypeOK'
  BY <1>3 DEF DiscardStaging, TypeOK
<1>4. ASSUME NEW p \in Procs, RefuseRecovery(p) PROVE TypeOK'
  BY <1>4, ExitKeepsType DEF RefuseRecovery, TypeOK
<1>5. ASSUME NEW p \in Procs, KeepActivated(p) PROVE TypeOK'
  BY <1>5 DEF KeepActivated, TypeOK
<1>6. ASSUME NEW p \in Procs, BeginRestore(p) PROVE TypeOK'
  BY <1>6 DEF BeginRestore, Goto, TypeOK, Steps, PlanSteps
<1>7. ASSUME NEW p \in Procs, RestorePath(p) PROVE TypeOK'
  <2>1. IsPlan(plan[p])
    BY <1>7 DEF RestorePath, TypeOK, PlanSteps
  <2>2. Paths(plan[p].tasks) \subseteq Paths(Tasks)
    BY <2>1, PathsMonotone DEF IsPlan
  <2>3. AreImages(disk', Tasks)
    BY <1>7, <2>1, <2>2 DEF RestorePath, IsPlan, AreImages, TypeOK
  <2> QED
    BY <1>7, <2>2, <2>3 DEF RestorePath, TypeOK
<1>8. ASSUME NEW p \in Procs, EndRestore(p) PROVE TypeOK'
  BY <1>8 DEF EndRestore, Goto, TypeOK, Steps, PlanSteps
<1>9. ASSUME NEW p \in Procs, EndRecovery(p) PROVE TypeOK'
  BY <1>9 DEF EndRecovery, Goto, TypeOK, Steps, PlanSteps
<1>10. ASSUME NEW p \in Procs, LockTask(p) PROVE TypeOK'
  BY <1>10 DEF LockTask, Goto, TypeOK, Steps, PlanSteps
<1>11. ASSUME NEW p \in Procs, LockTimeout(p) PROVE TypeOK'
  BY <1>11, ExitKeepsType DEF LockTimeout, TypeOK
<1>12. ASSUME NEW p \in Procs, Read(p) PROVE TypeOK'
  <2>1. \A t \in Tasks : Current(t) \in Contents \cup {None} /\ Ledger(t) \in Seq(Event)
    BY PathFacts DEF TypeOK, AreImages, Current, Ledger
  <2>2. \A t \in Tasks : NeedsReconcile(t) => Append(Ledger(t), ReconcileEvent(t)) \in Seq(Event)
    <3> SUFFICES ASSUME NEW t \in Tasks
                 PROVE  Append(Ledger(t), ReconcileEvent(t)) \in Seq(Event)
      OBVIOUS
    <3>1. ReconcileEvent(t) \in Event
      BY <2>1, TipIsHash DEF ReconcileEvent, Event, Hash
    <3> QED
      BY <2>1, <3>1
  <2>3. AreImages(disk', Tasks)
    BY <1>12, <2>1, <2>2, PathFacts DEF Read, AreImages, TypeOK, Ledger
  <2>4. IsJob(job'[p]) /\ DOMAIN job'[p].seen = job'[p].tasks /\ job'[p].kind = job[p].kind
    BY <1>12, <2>1 DEF Read, IsJob, TypeOK
  <2>5. foreign' \subseteq Tasks
    BY <1>12 DEF Read, TypeOK
  <2> QED
    BY <1>12, <2>3, <2>4, <2>5 DEF Read, Goto, TypeOK, Steps, PlanSteps
<1>13. ASSUME NEW p \in Procs, Refuse(p) PROVE TypeOK'
  BY <1>13, ExitKeepsType DEF Refuse, TypeOK
<1>14. ASSUME NEW p \in Procs, MakePlan(p) PROVE TypeOK'
  <2> DEFINE S == job[p].tasks
             x(new) == [by |-> p, tasks |-> S, head |-> head,
                        before |-> [q \in Paths(S) |-> disk[q]],
                        after |-> [q \in Paths(S) |->
                           IF q[2] = "task" THEN new[q[1]]
                           ELSE Append(disk[q], NewEvent(p, q[1], new[q[1]]))]]
  <2>1. PICK new \in [S -> Contents \cup {None}] :
            staging' = staging \cup {x(new)} /\ plan' = [plan EXCEPT ![p] = x(new)]
    BY <1>14 DEF MakePlan
  <2>2. S \subseteq Tasks /\ job[p].kind \in AllKinds /\ DOMAIN job[p].seen = S
    BY <1>14, KindsAssumption DEF MakePlan, TypeOK, IsJob, Steps
  <2>3. AreImages(x(new).before, S)
    BY <2>2, PathsMonotone DEF AreImages, TypeOK
  <2>4. \A t \in S : NewEvent(p, t, new[t]) \in Event
    BY <2>2 DEF NewEvent, Event, Hash, TypeOK, IsJob
  <2>5. \A q \in Paths(S) : q[2] # "task" => disk[q] \in Seq(Event)
    BY <2>2, PathsMonotone DEF AreImages, TypeOK
  <2>6. AreImages(x(new).after, S)
    BY <2>4, <2>5, PathFacts DEF AreImages
  <2>7. IsPlan(x(new))
    BY <2>2, <2>3, <2>6 DEF IsPlan, TypeOK
  <2> HIDE DEF x
  <2> QED
    BY <1>14, <2>1, <2>7 DEF MakePlan, Goto, TypeOK, Steps, PlanSteps
<1>15. ASSUME NEW p \in Procs, PublishIntent(p) PROVE TypeOK'
  BY <1>15 DEF PublishIntent, Goto, TypeOK, Steps, PlanSteps
<1>16. ASSUME NEW p \in Procs, CheckIdentity(p) PROVE TypeOK'
  BY <1>16 DEF CheckIdentity, Goto, TypeOK, Steps, PlanSteps
<1>17. ASSUME NEW p \in Procs, Activate(p) PROVE TypeOK'
  <2>1. IsPlan(plan[p])
    BY <1>17 DEF Activate, TypeOK, PlanSteps
  <2>2. Paths(plan[p].tasks) \subseteq Paths(Tasks)
    BY <2>1, PathsMonotone DEF IsPlan
  <2>3. AreImages(disk', Tasks)
    BY <1>17, <2>1, <2>2 DEF Activate, IsPlan, AreImages, TypeOK
  <2> QED
    BY <1>17, <2>2, <2>3 DEF Activate, TypeOK
<1>18. ASSUME NEW p \in Procs, Complete(p) PROVE TypeOK'
  BY <1>18, ExitKeepsType DEF Complete, TypeOK
<1>19. ASSUME NEW p \in Procs, FaultBeforeIntent(p) PROVE TypeOK'
  BY <1>19, ExitKeepsType DEF FaultBeforeIntent, TypeOK
<1>20. ASSUME NEW p \in Procs, FaultAfterIntent(p) PROVE TypeOK'
  BY <1>20 DEF FaultAfterIntent, Goto, TypeOK, Steps, PlanSteps
<1>21. ASSUME NEW p \in Procs, EndUndo(p) PROVE TypeOK'
  BY <1>21, ExitKeepsType DEF EndUndo, TypeOK
<1>22. ASSUME NEW p \in Procs, ReconcileStart(p) PROVE TypeOK'
  <2>1. PICK t \in Tasks :
            /\ taskLock' = [taskLock EXCEPT ![t] = p]
            /\ job' = [job EXCEPT ![p] = [kind |-> "reconcile", tasks |-> {t},
                                         cas |-> FALSE, seen |-> NoRevisions]]
    BY <1>22 DEF ReconcileStart
  <2>2. IsJob(job'[p])
    BY <2>1 DEF TypeOK, IsJob, NoRevisions
  <2> QED
    BY <1>22, <2>1, <2>2 DEF ReconcileStart, Goto, TypeOK, Steps, PlanSteps
<1>23. ASSUME NEW p \in Procs, ReconcileAgrees(p) PROVE TypeOK'
  BY <1>23, ExitKeepsType DEF ReconcileAgrees, TypeOK
<1>24. ASSUME NEW p \in Procs, ReconcilePrepare(p) PROVE TypeOK'
  <2>1. PICK t \in job[p].tasks :
            plan' = [plan EXCEPT ![p] = [log |-> Ledger(t), event |-> ReconcileEvent(t)]]
    BY <1>24 DEF ReconcilePrepare
  <2>2. t \in Tasks
    BY DEF TypeOK, IsJob
  <2>3. Current(t) \in Contents \cup {None} /\ Ledger(t) \in Seq(Event)
    BY <2>2, PathFacts DEF TypeOK, AreImages, Current, Ledger
  <2>4. ReconcileEvent(t) \in Event
    BY <2>3, TipIsHash DEF ReconcileEvent, Event, Hash
  <2> QED
    BY <1>24, <2>1, <2>3, <2>4 DEF ReconcilePrepare, Goto, TypeOK, Steps, PlanSteps
<1>25. ASSUME NEW p \in Procs, ReconcileAppend(p) PROVE TypeOK'
  <2>1. plan[p].event \in Event /\ job[p].tasks \subseteq Tasks
    BY <1>25 DEF ReconcileAppend, TypeOK, PlanSteps, IsJob
  <2>2. AreImages(disk', Tasks) /\ foreign' \subseteq Tasks
    <3>1. PICK t \in job[p].tasks :
            \/ /\ disk' = [disk EXCEPT ![<<t, "ledger">>] = Append(@, plan[p].event)]
               /\ foreign' \in {foreign \ {t}, foreign \cup {t}}
            \/ UNCHANGED <<disk, foreign>>
      BY <1>25 DEF ReconcileAppend
    <3>2. disk[<<t, "ledger">>] \in Seq(Event) /\ <<t, "ledger">> \in Paths(Tasks)
      BY <2>1, PathFacts DEF AreImages, TypeOK
    <3>3. Append(disk[<<t, "ledger">>], plan[p].event) \in Seq(Event)
      BY <2>1, <3>2
    <3> QED
      BY <2>1, <3>1, <3>2, <3>3 DEF AreImages, TypeOK
  <2> QED
    BY <1>25, <2>2, ExitKeepsType DEF ReconcileAppend, TypeOK
<1>26. ASSUME NEW p \in Procs, Crash(p) PROVE TypeOK'
  <2>1. crashes' \in 0..MaxCrashes
    BY <1>26, BoundsAssumption DEF Crash, TypeOK
  <2> QED
    BY <1>26, <2>1, ExitKeepsType DEF Crash, TypeOK
<1>27. CASE MoveHead
  BY <1>27, BoundsAssumption DEF MoveHead, TypeOK
<1>28. ASSUME NEW t \in Tasks, EditFile(t) PROVE TypeOK'
  <2>1. AreImages(disk', Tasks)
    BY <1>28, PathFacts DEF EditFile, AreImages, TypeOK
  <2> QED
    BY <1>28, <2>1 DEF EditFile, TypeOK
<1>29. ASSUME NEW p \in Procs, RefuseBinding(p) PROVE TypeOK'
  BY <1>29, ExitKeepsType DEF RefuseBinding, TypeOK
<1>30. CASE UNCHANGED vars
  BY <1>30 DEF vars, TypeOK
<1> QED
  BY <1>1, <1>2, <1>3, <1>4, <1>5, <1>6, <1>7, <1>8, <1>9, <1>10, <1>11, <1>12, <1>13,
     <1>14, <1>15, <1>16, <1>17, <1>18, <1>19, <1>20, <1>21, <1>22, <1>23, <1>24, <1>25,
     <1>26, <1>27, <1>28, <1>29, <1>30
     DEF Next, Program, Recover, Mutate, Reconcile

\* Type correctness of the whole store.
THEOREM TypeCorrect == Spec => []TypeOK
  BY InitType, StepType, PTL DEF Spec


Directories == SingleTransaction /\ (staging = {} \/ intents = {})
Images == Restorable /\ LedgerSpeaks /\ \A x \in intents : Sound(x)

Inductive == TypeOK /\ Directories /\ Images /\ \A p \in Procs : Relies(p)

---------------------------------------------------------------------------
(* Frame lemmas: what a step leaves alone *)

\* While one process is inside the board lock, no step of it disturbs what
\* another process relies on, since the other is outside of the lock.
LEMMA OthersKept ==
    ASSUME Inductive, NEW p \in Procs, NEW r \in Procs \ {p},
           pc[p] \in BoardSteps,
           pc'[r] = pc[r], job'[r] = job[r], done'[r] = done[r],
           \A t \in Tasks : taskLock[t] = r => taskLock'[t] = r
    PROVE  Relies(r)'
<1>1. pc[r] \notin BoardSteps
  BY DEF Inductive, Relies
<1>2. done[r] = {}
  BY <1>1 DEF Inductive, Relies, BoardSteps
<1>3. job[r].tasks \subseteq Tasks
  BY DEF Inductive, TypeOK, IsJob
<1> QED
  BY <1>1, <1>2, <1>3 DEF Inductive, Relies, BoardSteps, LockedSteps

\* A step that changes no file and no directory disturbs no process whose
\* own variables and locks it leaves alone.
LEMMA QuietKept ==
    ASSUME Inductive, NEW r \in Procs,
           UNCHANGED <<disk, foreign, staging, intents>>,
           pc'[r] = pc[r], job'[r] = job[r], plan'[r] = plan[r], done'[r] = done[r],
           boardLock = r => boardLock' = r,
           \A t \in Tasks : taskLock[t] = r => taskLock'[t] = r
    PROVE  Relies(r)'
<1>1. job[r].tasks \subseteq Tasks
  BY DEF Inductive, TypeOK, IsJob
<1> QED
  BY <1>1 DEF Inductive, Relies, Holds, Sound, LockedSteps

\* Files, directories of intents and their history unchanged, so are the
\* facts about them.
LEMMA ImagesKept ==
    ASSUME Inductive, UNCHANGED <<disk, foreign, intents>>
    PROVE  Images'
  BY DEF Inductive, Images, Restorable, LedgerSpeaks, Sound, Covered, Current, Ledger

\* A process that has left the call relies on nothing.
LEMMA IdleRelies ==
    ASSUME NEW p \in Procs, pc'[p] = "idle", done'[p] = {}
    PROVE  Relies(p)'
  BY DEF Relies, BoardSteps, LockedSteps

\* Leaving takes no lock away from anybody else.
LEMMA ExitKeepsLocks ==
    ASSUME Inductive, NEW p \in Procs, Exit(p), NEW r \in Procs \ {p}
    PROVE  /\ boardLock = r => boardLock' = r
           /\ \A t \in Tasks : taskLock[t] = r => taskLock'[t] = r
  BY DEF Exit

\* Leaving with nothing on disk changed keeps the whole invariant.
LEMMA QuietExit ==
    ASSUME Inductive, TypeOK', NEW p \in Procs, Exit(p),
           UNCHANGED <<disk, foreign, staging, intents>>
    PROVE  Inductive'
<1>1. Images'
  BY ImagesKept
<1>2. Directories'
  BY DEF Inductive, Directories, SingleTransaction
<1>3. TypeOK
  BY DEF Inductive
<1>4. ASSUME NEW r \in Procs PROVE Relies(r)'
  <2>1. CASE r = p
    BY <1>3, <2>1, ExitType, IdleRelies
  <2>2. CASE r # p
    BY <1>3, <2>2, ExitType, ExitKeepsLocks, QuietKept
  <2> QED
    BY <2>1, <2>2
<1> QED
  BY <1>1, <1>2, <1>4 DEF Inductive

\* Leaving the board lock with one of its directories removed: what the
\* other processes rely on is kept.
LEMMA ExitKeepsOthers ==
    ASSUME Inductive, NEW p \in Procs, Exit(p), pc[p] \in BoardSteps
    PROVE  \A r \in Procs : Relies(r)'
<1>1. TypeOK
  BY DEF Inductive
<1> SUFFICES ASSUME NEW r \in Procs PROVE Relies(r)'
  OBVIOUS
<1>2. CASE r = p
  BY <1>1, <1>2, ExitType, IdleRelies
<1>3. CASE r # p
  BY <1>1, <1>3, ExitType, ExitKeepsLocks, OthersKept
<1> QED
  BY <1>2, <1>3

\* Fewer directories are still at most one directory.
LEMMA DirectoriesShrink ==
    ASSUME Directories, staging' \subseteq staging, intents' \subseteq intents
    PROVE  Directories'
  BY DEF Directories, SingleTransaction

---------------------------------------------------------------------------
(* Steps that write no file                                                *)

\* The facts hold of a board at rest.
LEMMA InitInductive == Init => Inductive
<1> SUFFICES ASSUME Init PROVE Inductive
  OBVIOUS
<1>1. TypeOK
  BY InitType
<1>2. Directories /\ Restorable /\ \A x \in intents : Sound(x)
  BY DEF Init, Directories, SingleTransaction, Restorable
<1>3. LedgerSpeaks
  <2> DEFINE Made(made, c) ==
        disk = [q \in Paths(Tasks) |->
                    IF q[2] = "task"
                    THEN IF q[1] \in made THEN c[q[1]] ELSE None
                    ELSE IF q[1] \in made
                         THEN << [op |-> "create", before |-> None, after |-> c[q[1]]] >>
                         ELSE <<>>]
  <2> PICK made \in SUBSET Tasks : \E c \in [made -> Contents] : Made(made, c)
    BY DEF Init
  <2> PICK c \in [made -> Contents] : Made(made, c)
    OBVIOUS
  <2> SUFFICES ASSUME NEW t \in Tasks PROVE Agrees(Current(t), Tip(Ledger(t)))
    BY DEF LedgerSpeaks
  <2>1. CASE t \in made
    BY <2>1, PathFacts, ContentsAssumption DEF Agrees, Tip, Current, Ledger
  <2>2. CASE t \notin made
    BY <2>2, PathFacts, ContentsAssumption DEF Agrees, Tip, Current, Ledger
  <2> QED
    BY <2>1, <2>2
<1>4. \A p \in Procs : Relies(p)
  BY DEF Init, Relies, BoardSteps, LockedSteps
<1> QED
  BY <1>1, <1>2, <1>3, <1>4 DEF Inductive, Images

\* Calling, locking and planning touch no file and publish no intent.
LEMMA QuietSteps ==
    ASSUME Inductive, TypeOK', NEW p \in Procs,
           \/ Invoke(p) \/ AcquireBoard(p) \/ RefuseRecovery(p) \/ BeginRestore(p)
           \/ EndRecovery(p) \/ RefuseBinding(p) \/ LockTask(p) \/ LockTimeout(p) \/ Refuse(p)
           \/ CheckIdentity(p) \/ FaultAfterIntent(p) \/ ReconcileStart(p)
           \/ ReconcileAgrees(p) \/ ReconcilePrepare(p) \/ Crash(p)
    PROVE  Inductive'
<1> USE DEF disks, locks, locals
<1>0. TypeOK /\ Relies(p) /\ None \notin Procs
  BY ProcsAssumption DEF Inductive
<1>1. UNCHANGED <<disk, foreign, staging, intents>>
  BY DEF Invoke, AcquireBoard, RefuseRecovery, BeginRestore, EndRecovery, RefuseBinding, LockTask,
         LockTimeout, Refuse, CheckIdentity, FaultAfterIntent, ReconcileStart,
         ReconcileAgrees, ReconcilePrepare, Crash
<1>2. ASSUME Exit(p) PROVE Inductive'
  BY <1>1, <1>2, QuietExit
<1>3. ASSUME Relies(p)',
             \A r \in Procs \ {p} :
                /\ pc'[r] = pc[r] /\ job'[r] = job[r]
                /\ plan'[r] = plan[r] /\ done'[r] = done[r]
                /\ boardLock = r => boardLock' = r
                /\ \A t \in Tasks : taskLock[t] = r => taskLock'[t] = r
      PROVE  Inductive'
  <2>1. Images' /\ Directories'
    BY <1>1, ImagesKept DEF Inductive, Directories, SingleTransaction
  <2>2. ASSUME NEW r \in Procs PROVE Relies(r)'
    BY <1>1, <1>3, QuietKept
  <2> QED
    BY <2>1, <2>2 DEF Inductive
<1>4. CASE Invoke(p)
  <2>1. Relies(p)'
    BY <1>0, <1>4 DEF Invoke, Goto, Relies, TypeOK, BoardSteps, LockedSteps
  <2> QED
    BY <1>0, <1>3, <1>4, <2>1 DEF Invoke, Goto, TypeOK
<1>5. CASE AcquireBoard(p)
  <2>1. Relies(p)'
    BY <1>0, <1>5 DEF AcquireBoard, Goto, Relies, TypeOK, BoardSteps, LockedSteps
  <2> QED
    BY <1>0, <1>3, <1>5, <2>1 DEF AcquireBoard, Goto, TypeOK
<1>6. CASE RefuseRecovery(p)
  BY <1>2, <1>6 DEF RefuseRecovery
<1>7. CASE BeginRestore(p)
  <2>1. PICK x \in intents : plan' = [plan EXCEPT ![p] = x]
    BY <1>7 DEF BeginRestore
  <2>2. staging = {} /\ intents = {x}
    BY <2>1 DEF Inductive, Directories, SingleTransaction
  <2>3. Relies(p)'
    BY <1>0, <1>1, <1>7, <2>1, <2>2
    DEF BeginRestore, Goto, Relies, TypeOK, BoardSteps, LockedSteps
  <2> QED
    BY <1>0, <1>3, <1>7, <2>3 DEF BeginRestore, Goto, TypeOK
<1>8. CASE EndRecovery(p)
  <2>1. Relies(p)'
    BY <1>0, <1>8 DEF EndRecovery, Goto, Relies, TypeOK, BoardSteps, LockedSteps
  <2> QED
    BY <1>0, <1>3, <1>8, <2>1 DEF EndRecovery, Goto, TypeOK
<1>9. CASE LockTask(p)
  <2>1. PICK t \in Tasks :
            /\ NextTask(p, t) /\ taskLock[t] = None
            /\ taskLock' = [taskLock EXCEPT ![t] = p]
            /\ Goto(p, IF \A u \in job[p].tasks \ {t} : taskLock[u] = p
                       THEN "read" ELSE "lock")
    BY <1>9 DEF LockTask
  <2>2. job[p].tasks \subseteq Tasks /\ pc[p] = "lock" /\ UNCHANGED <<job, plan, done, boardLock>>
    BY <1>0, <1>9 DEF LockTask, TypeOK, IsJob
  <2>3. Relies(p)'
    <3>1. CASE \A u \in job[p].tasks \ {t} : taskLock[u] = p
      BY <1>0, <1>1, <2>1, <2>2, <3>1 DEF Goto, Relies, TypeOK, BoardSteps, LockedSteps
    <3>2. CASE ~ \A u \in job[p].tasks \ {t} : taskLock[u] = p
      BY <1>0, <1>1, <2>1, <2>2, <3>2 DEF Goto, Relies, TypeOK, BoardSteps, LockedSteps
    <3> QED
      BY <3>1, <3>2
  <2> QED
    BY <1>0, <1>3, <2>1, <2>2, <2>3 DEF Goto, TypeOK
<1>10. CASE LockTimeout(p)
  BY <1>2, <1>10 DEF LockTimeout
<1>11. CASE Refuse(p)
  BY <1>2, <1>11 DEF Refuse
<1>12. CASE CheckIdentity(p)
  <2>1. Relies(p)'
    BY <1>0, <1>12 DEF CheckIdentity, Goto, Relies, TypeOK, BoardSteps, LockedSteps
  <2> QED
    BY <1>0, <1>3, <1>12, <2>1 DEF CheckIdentity, Goto, TypeOK
<1>13. CASE FaultAfterIntent(p)
  <2>1. Relies(p)'
    BY <1>0, <1>13 DEF FaultAfterIntent, Goto, Relies, TypeOK, BoardSteps, LockedSteps
  <2> QED
    BY <1>0, <1>3, <1>13, <2>1 DEF FaultAfterIntent, Goto, TypeOK
<1>14. CASE ReconcileStart(p)
  <2>1. PICK t \in Tasks :
            /\ taskLock[t] = None
            /\ taskLock' = [taskLock EXCEPT ![t] = p]
            /\ job' = [job EXCEPT ![p] = [kind |-> "reconcile", tasks |-> {t},
                                         cas |-> FALSE, seen |-> NoRevisions]]
    BY <1>14 DEF ReconcileStart
  <2>2. Relies(p)'
    BY <1>0, <1>14, <2>1 DEF ReconcileStart, Goto, Relies, TypeOK, BoardSteps, LockedSteps
  <2> QED
    BY <1>0, <1>3, <1>14, <2>1, <2>2 DEF ReconcileStart, Goto, TypeOK
<1>15. CASE ReconcileAgrees(p)
  BY <1>2, <1>15 DEF ReconcileAgrees
<1>16. CASE ReconcilePrepare(p)
  <2>1. Relies(p)'
    BY <1>0, <1>16 DEF ReconcilePrepare, Goto, Relies, TypeOK, BoardSteps, LockedSteps
  <2> QED
    BY <1>0, <1>3, <1>16, <2>1 DEF ReconcilePrepare, Goto, TypeOK
<1>17. CASE Crash(p)
  BY <1>2, <1>17 DEF Crash
<1>18. CASE RefuseBinding(p)
  BY <1>2, <1>18 DEF RefuseBinding
<1> QED
  BY <1>4, <1>5, <1>6, <1>7, <1>8, <1>9, <1>10, <1>11, <1>12, <1>13, <1>14,
     <1>15, <1>16, <1>17, <1>18

---------------------------------------------------------------------------
(* Steps that move directories *)

\* Removing staging, publishing a plan and dropping a directory whose images
\* are in place keep the invariant.
LEMMA DirectorySteps ==
    ASSUME Inductive, TypeOK', NEW p \in Procs,
           \/ DiscardStaging(p) \/ KeepActivated(p) \/ EndRestore(p) \/ MakePlan(p)
           \/ PublishIntent(p) \/ Complete(p) \/ FaultBeforeIntent(p) \/ EndUndo(p)
    PROVE  Inductive'
<1> USE DEF disks, locks, locals
<1>0. /\ TypeOK /\ Directories /\ Relies(p) /\ None \notin Procs
      /\ Restorable /\ LedgerSpeaks /\ \A x \in intents : Sound(x)
  BY ProcsAssumption DEF Inductive, Images
<1>1. pc[p] \in BoardSteps
  BY DEF DiscardStaging, KeepActivated, EndRestore, MakePlan, PublishIntent, Complete,
         FaultBeforeIntent, EndUndo, BoardSteps
<1>2. ASSUME Relies(p)', \A r \in Procs \ {p} :
                /\ pc'[r] = pc[r] /\ job'[r] = job[r] /\ done'[r] = done[r]
                /\ \A t \in Tasks : taskLock[t] = r => taskLock'[t] = r
      PROVE  \A r \in Procs : Relies(r)'
  BY <1>1, <1>2, OthersKept
\* Dropping the only intent there is, x: its tasks must speak for themselves.
<1>3. ASSUME NEW x \in intents, intents' = intents \ {x}, UNCHANGED <<disk, foreign>>,
             \A t \in x.tasks \ foreign : Agrees(Current(t), Tip(Ledger(t)))
      PROVE  Images'
  <2>1. intents' = {}
    BY <1>0, <1>3 DEF Directories, SingleTransaction
  <2>2. LedgerSpeaks'
    <3> SUFFICES ASSUME NEW t \in Tasks \ foreign
                 PROVE  Agrees(Current(t), Tip(Ledger(t)))
      BY <1>3 DEF LedgerSpeaks, Current, Ledger
    <3>1. CASE t \in x.tasks
      BY <1>3, <3>1
    <3>2. CASE t \notin x.tasks
      BY <1>0, <3>2 DEF LedgerSpeaks, Covered, Directories, SingleTransaction
    <3> QED
      BY <3>1, <3>2
  <2> QED
    BY <2>1, <2>2 DEF Images, Restorable
<1>4. CASE DiscardStaging(p)
  <2>1. Images' /\ Directories'
    BY <1>0, <1>4, ImagesKept, DirectoriesShrink DEF DiscardStaging
  <2>2. Relies(p)'
    BY <1>0, <1>4 DEF DiscardStaging, Relies, LockedSteps
  <2> QED
    BY <1>2, <1>4, <2>1, <2>2 DEF DiscardStaging, Inductive
<1>5. CASE KeepActivated(p)
  <2>1. PICK x \in intents : FullyActivated(x) /\ intents' = intents \ {x}
    BY <1>5 DEF KeepActivated
  <2>2. \A q \in Paths(x.tasks) : disk[q] = x.after[q]
    BY <2>1 DEF FullyActivated, PathState
  <2>3. \A t \in x.tasks : Agrees(Current(t), Tip(Ledger(t)))
    BY <1>0, <2>2, PathFacts DEF Sound, Current, Ledger
  <2>4. Images' /\ Directories'
    BY <1>0, <1>3, <1>5, <2>1, <2>3, DirectoriesShrink DEF KeepActivated
  <2>5. Relies(p)'
    BY <1>0, <1>5 DEF KeepActivated, Relies, LockedSteps
  <2> QED
    BY <1>2, <1>5, <2>4, <2>5 DEF KeepActivated, Inductive
\* A rollback that has written every before-image.
<1>6. ASSUME pc[p] \in {"restore", "undo"}, done[p] = Paths(plan[p].tasks),
             intents' = intents \ {plan[p]}, staging' = staging, UNCHANGED <<disk, foreign>>
      PROVE  Images' /\ Directories'
  <2>1. intents = {plan[p]}
    BY <1>0, <1>6 DEF Relies
  <2>2. \A q \in Paths(plan[p].tasks) : disk[q] = plan[p].before[q] \/ q[1] \in foreign
    BY <1>0, <1>6 DEF Relies, Holds
  <2>3. \A t \in plan[p].tasks \ foreign : Agrees(Current(t), Tip(Ledger(t)))
    <3> SUFFICES ASSUME NEW t \in plan[p].tasks, t \notin foreign
                 PROVE  Agrees(Current(t), Tip(Ledger(t)))
      OBVIOUS
    <3>1. /\ disk[<<t, "task">>] = plan[p].before[<<t, "task">>]
          /\ disk[<<t, "ledger">>] = plan[p].before[<<t, "ledger">>]
      BY <2>2, PathFacts
    <3>2. Agrees(plan[p].before[<<t, "task">>], Tip(plan[p].before[<<t, "ledger">>]))
      BY <1>0, <2>1 DEF Sound
    <3> QED
      BY <3>1, <3>2 DEF Current, Ledger
  <2> QED
    BY <1>0, <1>3, <1>6, <2>1, <2>3, DirectoriesShrink
<1>7. CASE EndRestore(p)
  <2>1. Relies(p)'
    BY <1>0, <1>7 DEF EndRestore, Goto, Relies, TypeOK, BoardSteps, LockedSteps
  <2> QED
    BY <1>0, <1>2, <1>6, <1>7, <2>1 DEF EndRestore, Goto, TypeOK, Inductive
<1>8. CASE EndUndo(p)
  BY <1>1, <1>6, <1>8, ExitKeepsOthers DEF EndUndo, Inductive
<1>9. CASE FaultBeforeIntent(p)
  <2>1. Images' /\ Directories'
    BY <1>0, <1>9, ImagesKept, DirectoriesShrink DEF FaultBeforeIntent
  <2> QED
    BY <1>1, <1>9, <2>1, ExitKeepsOthers DEF FaultBeforeIntent, Inductive
<1>10. CASE Complete(p)
  <2>1. intents = {plan[p]} /\ intents' = {} /\ UNCHANGED <<disk, staging>> /\ Exit(p)
    BY <1>0, <1>10 DEF Complete, Relies
  <2>2. \A q \in Paths(plan[p].tasks) : disk[q] = plan[p].after[q] \/ q[1] \in foreign
    BY <1>0, <1>10 DEF Complete, Relies, Holds
  <2>3. foreign' = foreign \ {t \in plan[p].tasks :
                               \A q \in Paths({t}) : disk[q] = plan[p].after[q]}
    BY <1>10 DEF Complete
  <2>4. LedgerSpeaks'
    <3> SUFFICES ASSUME NEW t \in Tasks \ foreign'
                 PROVE  Agrees(Current(t), Tip(Ledger(t)))
      BY <2>1 DEF LedgerSpeaks, Current, Ledger
    <3>1. CASE t \in plan[p].tasks
      <4>1. \A q \in Paths({t}) : disk[q] = plan[p].after[q]
        <5>1. Paths({t}) \subseteq Paths(plan[p].tasks) /\ \A q \in Paths({t}) : q[1] = t
          BY <3>1 DEF Paths
        <5> QED
          BY <2>2, <2>3, <3>1, <5>1
      <4> QED
        BY <1>0, <2>1, <3>1, <4>1, PathFacts DEF Sound, Current, Ledger
    <3>2. CASE t \notin plan[p].tasks
      BY <1>0, <2>1, <2>3, <3>2 DEF LedgerSpeaks, Covered
    <3> QED
      BY <3>1, <3>2
  <2>5. Images' /\ Directories'
    BY <1>0, <2>1, <2>4, DirectoriesShrink DEF Images, Restorable
  <2> QED
    BY <1>1, <2>1, <2>5, ExitKeepsOthers DEF Inductive
<1>11. CASE MakePlan(p)
  <2> DEFINE S == job[p].tasks
             x(new) == [by |-> p, tasks |-> S, head |-> head,
                        before |-> [q \in Paths(S) |-> disk[q]],
                        after |-> [q \in Paths(S) |->
                           IF q[2] = "task" THEN new[q[1]]
                           ELSE Append(disk[q], NewEvent(p, q[1], new[q[1]]))]]
  <2>1. PICK new \in [S -> Contents \cup {None}] :
            staging' = staging \cup {x(new)} /\ plan' = [plan EXCEPT ![p] = x(new)]
    BY <1>11 DEF MakePlan
  <2>2. /\ pc[p] = "plan" /\ staging = {} /\ intents = {} /\ S \subseteq Tasks
        /\ DOMAIN job[p].seen = S /\ job[p].kind \in AllKinds
        /\ \A t \in S : taskLock[t] = p
    BY <1>0, <1>11, KindsAssumption DEF MakePlan, Relies, TypeOK, IsJob, LockedSteps, Steps
  <2>3. ASSUME NEW t \in S
        PROVE  Agrees(x(new).after[<<t, "task">>], Tip(x(new).after[<<t, "ledger">>]))
    <3>1. NewEvent(p, t, new[t]) \in Event /\ Ledger(t) \in Seq(Event)
      <4>1. <<t, "ledger">> \in Paths(Tasks)
        BY <2>2, PathFacts
      <4> QED
        BY <1>0, <2>2, <4>1 DEF NewEvent, Event, Hash, TypeOK, IsJob, AreImages, Ledger
    <3>2. Tip(Append(Ledger(t), NewEvent(p, t, new[t]))) = NewEvent(p, t, new[t]).after
      BY <3>1, AppendedTip
    <3>3. /\ x(new).after[<<t, "task">>] = new[t]
          /\ x(new).after[<<t, "ledger">>] = Append(Ledger(t), NewEvent(p, t, new[t]))
      BY PathFacts DEF Ledger
    <3> QED
      BY <3>2, <3>3, ContentsAssumption DEF Agrees, NewEvent
  <2>4. \A t \in S : x(new).before[<<t, "task">>] = Current(t)
                     /\ x(new).before[<<t, "ledger">>] = Ledger(t)
    BY PathFacts DEF Current, Ledger
  <2>5. \A t \in S \ foreign : Agrees(Current(t), Tip(Ledger(t)))
    BY <1>0, <2>2 DEF LedgerSpeaks, Covered
  <2>6. Sound(x(new)) /\ \A q \in Paths(S) : Holds(x(new).before, q)
    BY <2>3, <2>4, <2>5 DEF Sound, Holds
  <2>7. x(new).tasks = S
    OBVIOUS
  <2> HIDE DEF x
  <2>8. Relies(p)'
    BY <1>0, <1>11, <2>1, <2>2, <2>6, <2>7
    DEF MakePlan, Goto, Relies, TypeOK, BoardSteps, LockedSteps, Sound, Holds
  <2>9. Images' /\ Directories'
    BY <1>0, <1>11, <2>1, <2>2, ImagesKept DEF MakePlan, Directories, SingleTransaction
  <2> QED
    BY <1>0, <1>2, <1>11, <2>8, <2>9 DEF MakePlan, Goto, TypeOK, Inductive
<1>12. CASE PublishIntent(p)
  <2>1. /\ staging' = {} /\ intents = {} /\ intents' = {plan[p]}
        /\ Sound(plan[p]) /\ plan[p].tasks \subseteq Tasks
        /\ \A q \in Paths(plan[p].tasks) : Holds(plan[p].before, q)
        /\ UNCHANGED <<disk, foreign>>
    BY <1>0, <1>12 DEF PublishIntent, Relies, TypeOK, IsJob
  <2>2. Images' /\ Directories'
    BY <1>0, <2>1 DEF Images, Restorable, Holds, LedgerSpeaks, Covered, Sound, Current, Ledger,
                      Directories, SingleTransaction
  <2>3. Relies(p)'
    BY <1>0, <1>12, <2>1 DEF PublishIntent, Goto, Relies, TypeOK, BoardSteps, LockedSteps
  <2> QED
    BY <1>0, <1>2, <1>12, <2>2, <2>3 DEF PublishIntent, Goto, TypeOK, Inductive
<1> QED
  BY <1>4, <1>5, <1>7, <1>8, <1>9, <1>10, <1>11, <1>12

---------------------------------------------------------------------------
(* Steps that write files *)

\* Restoring, activating, reading and appending keep the invariant.
LEMMA WriteSteps ==
    ASSUME Inductive, TypeOK', NEW p \in Procs,
           RestorePath(p) \/ Activate(p) \/ Read(p) \/ ReconcileAppend(p)
    PROVE  Inductive'
<1> USE DEF disks, locks, locals
<1>0. /\ TypeOK /\ Directories /\ Relies(p) /\ None \notin Procs
      /\ Restorable /\ LedgerSpeaks /\ \A x \in intents : Sound(x)
  BY ProcsAssumption DEF Inductive, Images
\* One image of the only plan there is goes to disk.
<1>1. ASSUME NEW q \in Paths(plan[p].tasks), NEW side \in {plan[p].before, plan[p].after},
             disk' = [disk EXCEPT ![q] = side[q]],
             pc[p] \in {"restore", "undo", "activate"},
             UNCHANGED <<staging, intents, foreign>>
      PROVE  Images' /\ Directories'
  <2>1. intents = {plan[p]} /\ plan[p].tasks \subseteq Tasks
    BY <1>0, <1>1 DEF Relies, TypeOK, IsPlan, PlanSteps
  <2>2. q \in DOMAIN disk /\ q[1] \in plan[p].tasks
    BY <1>0, <2>1, PathsMonotone, PathFacts DEF TypeOK, AreImages
  <2>3. Restorable'
    BY <1>0, <1>1, <2>1, <2>2 DEF Restorable
  <2>4. LedgerSpeaks'
    <3> SUFFICES ASSUME NEW t \in Tasks \ foreign, t \notin plan[p].tasks
                 PROVE  Agrees(Current(t)', Tip(Ledger(t)'))
      BY <1>1, <2>1 DEF LedgerSpeaks, Covered
    <3>1. Current(t)' = Current(t) /\ Ledger(t)' = Ledger(t)
      BY <1>1, <2>2 DEF Current, Ledger
    <3> QED
      BY <1>0, <2>1, <3>1 DEF LedgerSpeaks, Covered
  <2> QED
    BY <1>0, <1>1, <2>1, <2>3, <2>4 DEF Images, Sound, Directories, SingleTransaction
<1>2. ASSUME pc[p] \in BoardSteps, Relies(p)',
             UNCHANGED <<taskLock>>,
             \A r \in Procs \ {p} : pc'[r] = pc[r] /\ job'[r] = job[r] /\ done'[r] = done[r]
      PROVE  \A r \in Procs : Relies(r)'
  BY <1>2, OthersKept
<1>3. CASE RestorePath(p)
  <2>1. PICK q \in Paths(plan[p].tasks) :
            /\ disk' = [disk EXCEPT ![q] = plan[p].before[q]]
            /\ done' = [done EXCEPT ![p] = @ \cup {q}]
    BY <1>3 DEF RestorePath
  <2>2. /\ pc[p] \in {"restore", "undo"}
        /\ UNCHANGED <<staging, intents, locks, pc, job, plan, foreign>>
    BY <1>3 DEF RestorePath
  <2>3. Images' /\ Directories'
    BY <1>1, <2>1, <2>2
  <2>4. q \in DOMAIN disk
    BY <1>0, <2>1, <2>2, PathsMonotone DEF TypeOK, AreImages, IsPlan, PlanSteps
  <2>5. Relies(p)'
    BY <1>0, <2>1, <2>2, <2>4 DEF Relies, Holds, TypeOK, LockedSteps
  <2> QED
    BY <1>0, <1>2, <2>1, <2>2, <2>3, <2>5 DEF Inductive, TypeOK, BoardSteps
<1>4. CASE Activate(p)
  <2>1. PICK q \in Paths(plan[p].tasks) :
            /\ disk' = [disk EXCEPT ![q] = plan[p].after[q]]
            /\ done' = [done EXCEPT ![p] = @ \cup {q}]
    BY <1>4 DEF Activate
  <2>2. /\ pc[p] = "activate"
        /\ UNCHANGED <<staging, intents, locks, pc, job, plan, foreign>>
    BY <1>4 DEF Activate
  <2>3. Images' /\ Directories'
    BY <1>1, <2>1, <2>2
  <2>4. q \in DOMAIN disk
    BY <1>0, <2>1, <2>2, PathsMonotone DEF TypeOK, AreImages, IsPlan, PlanSteps
  <2>5. Relies(p)'
    BY <1>0, <2>1, <2>2, <2>4 DEF Relies, Holds, TypeOK, LockedSteps
  <2> QED
    BY <1>0, <1>2, <2>1, <2>2, <2>3, <2>5 DEF Inductive, TypeOK, BoardSteps
<1>5. CASE Read(p)
  <2> DEFINE behind == {t \in job[p].tasks : job[p].kind = "update" /\ NeedsReconcile(t)}
  <2>1. /\ pc[p] = "read" /\ staging = {} /\ intents = {} /\ behind \subseteq Tasks
        /\ \A t \in job[p].tasks : taskLock[t] = p
    BY <1>0, <1>5 DEF Read, Relies, LockedSteps, TypeOK, IsJob
  <2>2. /\ disk' = [q \in Paths(Tasks) |->
                        IF q[1] \in behind /\ q[2] = "ledger"
                        THEN Append(disk[q], ReconcileEvent(q[1])) ELSE disk[q]]
        /\ foreign' = foreign \ behind
        /\ UNCHANGED <<staging, intents, locks, plan, done>>
    BY <1>5 DEF Read
  <2>3. LedgerSpeaks'
    <3> SUFFICES ASSUME NEW t \in Tasks, t \notin foreign \ behind
                 PROVE  Agrees(Current(t)', Tip(Ledger(t)'))
      BY <2>2 DEF LedgerSpeaks
    <3>0. Current(t)' = Current(t)
      BY <2>2, PathFacts DEF Current
    <3>1. CASE t \in behind
      <4>1. Current(t) \in Contents /\ Ledger(t) \in Seq(Event)
        BY <1>0, <3>1, PathFacts DEF NeedsReconcile, TypeOK, AreImages, Current, Ledger
      <4>2. ReconcileEvent(t) \in Event /\ ReconcileEvent(t).after = Current(t)
        BY <4>1, TipIsHash DEF ReconcileEvent, Event, Hash
      <4>3. Ledger(t)' = Append(Ledger(t), ReconcileEvent(t))
        BY <2>2, <3>1, PathFacts DEF Ledger
      <4> QED
        BY <3>0, <4>1, <4>2, <4>3, AppendedTip, ContentsAssumption DEF Agrees
    <3>2. CASE t \notin behind
      <4>1. Ledger(t)' = Ledger(t)
        BY <2>2, <3>2, PathFacts DEF Ledger
      <4> QED
        BY <1>0, <2>1, <3>0, <3>2, <4>1 DEF LedgerSpeaks, Covered
    <3> QED
      BY <3>1, <3>2
  <2>4. Images' /\ Directories'
    BY <1>0, <2>1, <2>2, <2>3 DEF Images, Restorable, Directories, SingleTransaction
  <2>5. Relies(p)'
    BY <1>0, <1>5, <2>1 DEF Read, Goto, Relies, TypeOK, BoardSteps, LockedSteps
  <2> QED
    BY <1>0, <1>2, <1>5, <2>1, <2>4, <2>5 DEF Read, Goto, TypeOK, Inductive, BoardSteps
\* The one writer that is outside of the board lock: what it disturbs, it
\* marks as foreign.
<1>6. CASE ReconcileAppend(p)
  <2>1. PICK t \in job[p].tasks :
            IF Ledger(t) = plan[p].log
            THEN /\ disk' = [disk EXCEPT ![<<t, "ledger">>] = Append(@, plan[p].event)]
                 /\ foreign' = IF Current(t) = plan[p].event.after /\ ~Covered(t)
                               THEN foreign \ {t} ELSE foreign \cup {t}
            ELSE UNCHANGED <<disk, foreign>>
    BY <1>6 DEF ReconcileAppend
  <2>2. /\ pc[p] = "append" /\ Exit(p) /\ UNCHANGED <<staging, intents>>
        /\ taskLock[t] = p /\ t \in Tasks /\ plan[p].event \in Event
    BY <1>0, <1>6 DEF ReconcileAppend, Relies, LockedSteps, TypeOK, IsJob, PlanSteps
  <2>3. CASE Ledger(t) # plan[p].log
    BY <2>1, <2>2, <2>3, QuietExit
  <2>4. CASE Ledger(t) = plan[p].log
    <3>1. /\ disk' = [disk EXCEPT ![<<t, "ledger">>] = Append(@, plan[p].event)]
          /\ foreign' = IF Current(t) = plan[p].event.after /\ ~Covered(t)
                        THEN foreign \ {t} ELSE foreign \cup {t}
      BY <2>1, <2>4
    <3>2. /\ <<t, "ledger">> \in DOMAIN disk
          /\ \A u \in Tasks : Current(u)' = Current(u)
          /\ \A u \in Tasks \ {t} : Ledger(u)' = Ledger(u)
          /\ Ledger(t)' = Append(Ledger(t), plan[p].event)
          /\ \A q \in Paths(Tasks) : q[1] # t => disk'[q] = disk[q]
      <4>1. DOMAIN disk = Paths(Tasks) /\ <<t, "ledger">> \in DOMAIN disk
        BY <1>0, <2>2, PathFacts DEF TypeOK, AreImages
      <4>2. \A q \in Paths(Tasks) : q # <<t, "ledger">> => disk'[q] = disk[q]
        BY <3>1, <4>1
      <4>3. \A u \in Tasks : <<u, "task">> \in Paths(Tasks) /\ <<u, "ledger">> \in Paths(Tasks)
        BY PathFacts
      <4>4. \A u \in Tasks : Current(u)' = Current(u)
        BY <4>2, <4>3 DEF Current
      <4>5. \A u \in Tasks \ {t} : Ledger(u)' = Ledger(u)
        BY <4>2, <4>3 DEF Ledger
      <4>6. Ledger(t)' = Append(Ledger(t), plan[p].event)
        BY <3>1, <4>1 DEF Ledger
      <4>7. \A q \in Paths(Tasks) : q[1] # t => disk'[q] = disk[q]
        BY <4>2
      <4> QED
        BY <4>1, <4>4, <4>5, <4>6, <4>7
    <3>3. \A x \in intents : t \in x.tasks => t \in foreign'
      BY <3>1 DEF Covered
    <3>4. Restorable'
      <4> SUFFICES ASSUME NEW x \in intents, NEW q \in Paths(x.tasks), q[1] \notin foreign'
                   PROVE  disk'[q] \in {x.before[q], x.after[q]}
        BY <2>2 DEF Restorable
      <4>1. q[1] # t /\ q[1] \notin foreign /\ q \in Paths(Tasks)
        <5>1. x.tasks \subseteq Tasks /\ q[1] \in x.tasks
          BY <1>0, PathFacts DEF TypeOK, IsPlan
        <5>2. q \in Paths(Tasks)
          BY <5>1, PathsMonotone
        <5>3. q[1] # t
          BY <3>3, <5>1
        <5>4. q[1] \notin foreign
          BY <3>1, <5>3
        <5> QED
          BY <5>2, <5>3, <5>4
      <4> QED
        BY <1>0, <3>2, <4>1 DEF Restorable
    <3>5. LedgerSpeaks'
      <4> SUFFICES ASSUME NEW u \in Tasks, u \notin foreign', ~Covered(u)
                   PROVE  Agrees(Current(u)', Tip(Ledger(u)'))
        BY <2>2 DEF LedgerSpeaks, Covered
      <4>1. CASE u = t
        <5>1. Current(t) = plan[p].event.after /\ Ledger(t) \in Seq(Event)
          BY <1>0, <3>1, <4>1, PathFacts DEF TypeOK, AreImages, Ledger
        <5>2. Tip(Ledger(t)') = Current(t)'
          BY <2>2, <3>2, <5>1, AppendedTip
        <5> QED
          BY <4>1, <5>2 DEF Agrees
      <4>2. CASE u # t
        BY <1>0, <3>1, <3>2, <4>2 DEF LedgerSpeaks
      <4> QED
        BY <4>1, <4>2
    <3>6. \A x \in intents : Sound(x)'
      BY <1>0, <3>1, <3>3 DEF Sound
    <3>7. Images' /\ Directories'
      BY <1>0, <2>2, <3>4, <3>5, <3>6 DEF Images, Directories, SingleTransaction
    <3>8. ASSUME NEW r \in Procs PROVE Relies(r)'
      <4>1. CASE r = p
        BY <1>0, <2>2, <4>1, ExitType, IdleRelies
      <4>2. CASE r # p
        <5>1. /\ pc'[r] = pc[r] /\ job'[r] = job[r] /\ plan'[r] = plan[r] /\ done'[r] = done[r]
              /\ boardLock = r => boardLock' = r
              /\ \A u \in Tasks : taskLock[u] = r => taskLock'[u] = r
          BY <1>0, <2>2, <4>2, ExitType, ExitKeepsLocks
        <5>2. Relies(r) /\ job[r].tasks \subseteq Tasks
          BY <1>0 DEF Inductive, TypeOK, IsJob
        <5>3. ASSUME pc[r] \in PlanSteps
              PROVE  /\ plan[r].tasks \subseteq Tasks
                     /\ pc[r] = "staged" => t \notin plan[r].tasks
                     /\ t \in plan[r].tasks => t \in foreign'
          <6>1. pc[r] = "staged" => t \notin plan[r].tasks
            BY <2>2, <4>2, <5>2 DEF Relies, LockedSteps
          <6>2. pc[r] # "staged" => plan[r] \in intents
            BY <5>2, <5>3 DEF Relies, PlanSteps
          <6> QED
            BY <1>0, <3>3, <5>3, <6>1, <6>2 DEF TypeOK, IsPlan
        <5>4. ASSUME pc[r] \in PlanSteps, NEW image, NEW q \in Paths(plan[r].tasks),
                     Holds(image, q)
              PROVE  Holds(image, q)'
          <6>1. q \in Paths(Tasks) /\ q[1] \in plan[r].tasks
            BY <5>3, <5>4, PathsMonotone, PathFacts
          <6>2. CASE q[1] = t
            BY <5>3, <5>4, <6>1, <6>2 DEF Holds
          <6>3. CASE q[1] # t
            BY <3>1, <3>2, <5>4, <6>1, <6>3 DEF Holds
          <6> QED
            BY <6>2, <6>3
        <5>5. pc[r] = "staged" => (Sound(plan[r]) => Sound(plan[r])')
          BY <3>1, <5>1, <5>3 DEF Sound, PlanSteps
        <5> QED
          BY <2>2, <5>1, <5>2, <5>4, <5>5 DEF Relies, LockedSteps, PlanSteps
      <4> QED
        BY <4>1, <4>2
    <3> QED
      BY <3>7, <3>8 DEF Inductive
  <2> QED
    BY <2>3, <2>4
<1> QED
  BY <1>3, <1>4, <1>5, <1>6

\* An edit by hand marks its task; a commit that moves HEAD touches nothing.
LEMMA OutsideSteps ==
    ASSUME Inductive, TypeOK', MoveHead \/ \E t \in Tasks : EditFile(t)
    PROVE  Inductive'
<1> USE DEF disks, locks, locals
<1>0. /\ TypeOK /\ Directories /\ Restorable /\ LedgerSpeaks /\ \A x \in intents : Sound(x)
  BY DEF Inductive, Images
<1>1. CASE MoveHead
  <2>1. Images' /\ Directories'
    BY <1>0, <1>1, ImagesKept DEF MoveHead, Directories, SingleTransaction
  <2>2. \A r \in Procs : Relies(r)'
    BY <1>1, QuietKept DEF MoveHead
  <2> QED
    BY <2>1, <2>2 DEF Inductive
<1>2. ASSUME NEW t \in Tasks, EditFile(t) PROVE Inductive'
  <2>1. PICK c \in Contents : disk' = [disk EXCEPT ![<<t, "task">>] = c]
    BY <1>2 DEF EditFile
  <2>2. /\ foreign' = foreign \cup {t}
        /\ UNCHANGED <<staging, intents, boardLock, taskLock, pc, job, plan, done>>
    BY <1>2 DEF EditFile
  <2>3. \A q \in Paths(Tasks) : q[1] # t => disk'[q] = disk[q]
    BY <1>0, <2>1 DEF TypeOK, AreImages
  <2>4. \A x \in intents : x.tasks \subseteq Tasks
    BY <1>0 DEF TypeOK, IsPlan
  <2>5. Restorable'
    <3> SUFFICES ASSUME NEW x \in intents, NEW q \in Paths(x.tasks), q[1] \notin foreign'
                 PROVE  disk'[q] \in {x.before[q], x.after[q]}
      BY <2>2 DEF Restorable
    <3>1. q \in Paths(Tasks) /\ q[1] # t /\ q[1] \notin foreign
      BY <2>2, <2>4, PathsMonotone
    <3> QED
      BY <1>0, <2>3, <3>1 DEF Restorable
  <2>6. LedgerSpeaks'
    <3> SUFFICES ASSUME NEW u \in Tasks, u \notin foreign', ~Covered(u)
                 PROVE  Agrees(Current(u)', Tip(Ledger(u)'))
      BY <2>2 DEF LedgerSpeaks, Covered
    <3>1. u # t /\ u \notin foreign
      BY <2>2
    <3>2. Current(u)' = Current(u) /\ Ledger(u)' = Ledger(u)
      BY <2>3, <3>1, PathFacts DEF Current, Ledger
    <3> QED
      BY <1>0, <3>1, <3>2 DEF LedgerSpeaks
  <2>7. Images' /\ Directories'
    BY <1>0, <2>2, <2>5, <2>6 DEF Images, Sound, Directories, SingleTransaction
  <2>8. ASSUME NEW r \in Procs PROVE Relies(r)'
    <3>1. Relies(r)
      BY DEF Inductive
    <3>2. ASSUME pc[r] \in PlanSteps, NEW image, NEW q \in Paths(plan[r].tasks), Holds(image, q)
          PROVE  Holds(image, q)'
      <4>1. q \in Paths(Tasks)
        BY <1>0, <3>2, PathsMonotone DEF TypeOK, IsPlan
      <4> QED
        BY <2>2, <2>3, <3>2, <4>1 DEF Holds
    <3>3. Sound(plan[r]) => Sound(plan[r])'
      BY <2>2 DEF Sound
    <3> QED
      BY <2>2, <3>1, <3>2, <3>3 DEF Relies, PlanSteps
  <2> QED
    BY <2>7, <2>8 DEF Inductive
<1> QED
  BY <1>1, <1>2

---------------------------------------------------------------------------
(* The theorems of the protocol *)

\* Every step keeps the inductive invariant.
LEMMA StepInductive == Inductive /\ [Next]_vars => Inductive'
<1> SUFFICES ASSUME Inductive, [Next]_vars PROVE Inductive'
  OBVIOUS
<1>1. TypeOK'
  BY StepType DEF Inductive
<1>2. CASE UNCHANGED vars
  <2>1. Images' /\ Directories'
    BY <1>2, ImagesKept DEF vars, Inductive, Directories, SingleTransaction
  <2>2. \A r \in Procs : Relies(r)'
    BY <1>2, QuietKept DEF vars
  <2> QED
    BY <1>1, <2>1, <2>2 DEF Inductive
<1>3. ASSUME NEW p \in Procs, Program(p) PROVE Inductive'
  BY <1>1, <1>3, QuietSteps, DirectorySteps, WriteSteps
  DEF Program, Recover, Mutate, Reconcile
<1>4. ASSUME NEW p \in Procs,
             ReconcileStart(p) \/ FaultBeforeIntent(p) \/ FaultAfterIntent(p) \/ Crash(p)
      PROVE  Inductive'
  BY <1>1, <1>4, QuietSteps, DirectorySteps
<1>5. CASE MoveHead \/ \E t \in Tasks : EditFile(t)
  BY <1>1, <1>5, OutsideSteps
<1> QED
  BY <1>2, <1>3, <1>4, <1>5 DEF Next

\* Inductive is an invariant, and it is the run's Protocol and its three
\* safety properties together with the types.
LEMMA AlwaysInductive == Spec => []Inductive
  BY InitInductive, StepInductive, PTL DEF Spec

\* Recovery leaves no transaction directory behind: there is never more than
\* one, whatever crashes, fails or is edited by hand.
THEOREM OneTransaction == Spec => []SingleTransaction
<1>1. Inductive => SingleTransaction
  BY DEF Inductive, Directories
<1> QED
  BY <1>1, AlwaysInductive, PTL

\* Every path of a published intent holds one of its two images, or was
\* written outside of the board lock: recovery can always decide.
THEOREM AlwaysRestorable == Spec => []Restorable
<1>1. Inductive => Restorable
  BY DEF Inductive, Images
<1> QED
  BY <1>1, AlwaysInductive, PTL

\* Outside of an intent a ledger ends in the hash of its task file, for whole
\* batches, unless the file was last written outside of the board lock.
THEOREM LedgerAlwaysSpeaks == Spec => []LedgerSpeaks
<1>1. Inductive => LedgerSpeaks
  BY DEF Inductive, Images
<1> QED
  BY <1>1, AlwaysInductive, PTL

\* The locks and directories each step relies on are there.
THEOREM ProtocolHolds == Spec => []Protocol
<1>1. Inductive => Protocol
  BY DEF Inductive, Images, Directories, Protocol
<1> QED
  BY <1>1, AlwaysInductive, PTL

---------------------------------------------------------------------------
(* What is kept of the past: the invariant History *)

\* HistoryLinked, of the ledger that an image holds.
MayFollow(t, tip, e) ==
    \/ e.before = tip
    \/ e.op = "create"
    \/ WrittenOutside(t) /\ e.op \notin {"update", "reconcile"}

Linked(t, log) == \A i \in 2..Len(log) : MayFollow(t, log[i - 1].after, log[i])

\* The event may come next in the ledger.
Fits(t, log, e) == log = <<>> \/ MayFollow(t, Tip(log), e)

\* new is the ledger old with any number of events appended to it.
Extends(old, new) ==
    /\ Len(old) <= Len(new)
    /\ \A i \in 1..Len(old) : new[i] = old[i]

\* A task of a plan that nobody may edit by hand changes by one call: the
\* plan's after-images are those of a step of AtomicBoard.
Commits(x, kind, t) ==
    LET before == x.before[<<t, "task">>]
        after == x.after[<<t, "task">>]
    IN /\ after # before
       /\ before = None <=> kind = "create"
       /\ after = None <=> kind = "delete"
       /\ x.after[<<t, "ledger">>] =
             Append(x.before[<<t, "ledger">>],
                    [op |-> kind, before |-> before,
                     after |-> IF after = None THEN Tombstone ELSE after])

Chained(x) ==
    /\ \A t \in x.tasks : /\ Linked(t, x.before[<<t, "ledger">>])
                          /\ Linked(t, x.after[<<t, "ledger">>])
                          /\ Extends(x.before[<<t, "ledger">>], x.after[<<t, "ledger">>])
    /\ \E kind \in Kinds : \A t \in x.tasks \ Editable : Commits(x, kind, t)

\* What a process knows of the ledgers it read, or has written.
Knows(p) ==
    /\ pc[p] = "plan" => \A t \in job[p].tasks :
          /\ Fits(t, Ledger(t), [op |-> job[p].kind, before |-> job[p].seen[t]])
          /\ job[p].seen[t] = None <=> job[p].kind = "create"
          /\ t \in Editable \/ job[p].seen[t] = Current(t)
    /\ pc[p] = "staged" => \A t \in plan[p].tasks : plan[p].before[<<t, "ledger">>] = Ledger(t)
    /\ pc[p] = "activate" => \A t \in plan[p].tasks :
          <<t, "ledger">> \in done[p] => Extends(plan[p].after[<<t, "ledger">>], Ledger(t))
    /\ pc[p] \in {"undo", "restore"} => \A t \in plan[p].tasks :
          <<t, "ledger">> \in done[p] => Extends(plan[p].before[<<t, "ledger">>], Ledger(t))
    /\ pc[p] = "append" => plan[p].log = <<>> \/ plan[p].event.before = Tip(plan[p].log)
    /\ pc[p] \in {"compare", "append"} => p \in Reconcilers

History ==
    /\ \A t \in Tasks : Linked(t, Ledger(t))
    /\ \A x \in staging \cup intents : Chained(x)
    /\ \A t \in foreign : WrittenOutside(t)
    /\ \A p \in Procs : Knows(p)

---------------------------------------------------------------------------
(* Lemmas on ledgers *)

\* A ledger that is linked stays so when a fitting event is appended.
LEMMA AppendLinked ==
    ASSUME NEW t, NEW log \in Seq(Event), NEW e, Linked(t, log), Fits(t, log, e)
    PROVE  Linked(t, Append(log, e))
<1> DEFINE new == Append(log, e)
<1>1. /\ Len(log) \in Nat /\ Len(new) = Len(log) + 1 /\ new[Len(log) + 1] = e
      /\ \A i \in 1..Len(log) : new[i] = log[i]
  OBVIOUS
<1> HIDE DEF new
<1> SUFFICES ASSUME NEW i \in 2..Len(new) PROVE MayFollow(t, new[i - 1].after, new[i])
  BY DEF Linked, new
<1>2. CASE i \in 2..Len(log)
  <2>1. new[i] = log[i] /\ new[i - 1] = log[i - 1]
    BY <1>1, <1>2
  <2> QED
    BY <1>2, <2>1 DEF Linked
<1>3. CASE i = Len(log) + 1
  <2>1. log # <<>> /\ Len(log) \in 1..Len(log) /\ i - 1 = Len(log)
    BY <1>1, <1>3
  <2>2. new[i] = e /\ new[i - 1] = log[Len(log)]
    BY <1>1, <1>3, <2>1
  <2> QED
    BY <2>1, <2>2 DEF Fits, Tip
<1> QED
  BY <1>1, <1>2, <1>3

\* Appending only adds, and adding to an extension is an extension.
LEMMA AppendExtends ==
    ASSUME NEW log \in Seq(Event), NEW e
    PROVE  Extends(log, Append(log, e))
<1>1. /\ Len(log) \in Nat /\ Len(Append(log, e)) = Len(log) + 1
      /\ \A i \in 1..Len(log) : Append(log, e)[i] = log[i]
  OBVIOUS
<1> QED
  BY <1>1 DEF Extends

LEMMA ExtendsItself ==
    ASSUME NEW log \in Seq(Event)
    PROVE  Extends(log, log)
  BY DEF Extends

LEMMA ExtendsTransitive ==
    ASSUME NEW a \in Seq(Event), NEW b \in Seq(Event), NEW c \in Seq(Event),
           Extends(a, b), Extends(b, c)
    PROVE  Extends(a, c)
<1>1. Len(a) \in Nat /\ Len(b) \in Nat /\ Len(c) \in Nat
  OBVIOUS
<1>2. \A i \in 1..Len(a) : i \in 1..Len(b)
  BY <1>1 DEF Extends
<1> QED
  BY <1>1, <1>2 DEF Extends

\* An extension begins with the ledger it extends.
LEMMA ExtendsIsPrefix ==
    ASSUME NEW old \in Seq(Event), NEW new \in Seq(Event), Extends(old, new)
    PROVE  Len(old) <= Len(new) /\ SubSeq(new, 1, Len(old)) = old
<1>1. Len(old) \in Nat /\ Len(new) \in Nat /\ Len(old) <= Len(new)
  BY DEF Extends
<1>2. SubSeq(new, 1, Len(old)) \in Seq(Event)
  BY <1>1
<1>3. /\ Len(SubSeq(new, 1, Len(old))) = Len(old)
      /\ \A i \in 1..Len(old) : SubSeq(new, 1, Len(old))[i] = new[i]
  BY <1>1
<1>4. \A i \in 1..Len(old) : SubSeq(new, 1, Len(old))[i] = old[i]
  BY <1>3 DEF Extends
<1> QED
  BY <1>1, <1>2, <1>3, <1>4

\* The ledgers of the board and of its plans are sequences of events.
LEMMA LedgerTypes ==
    ASSUME TypeOK
    PROVE  /\ \A t \in Tasks : Ledger(t) \in Seq(Event) /\ Current(t) \in Contents \cup {None}
           /\ \A x : IsPlan(x) => \A t \in x.tasks :
                 /\ t \in Tasks
                 /\ x.before[<<t, "ledger">>] \in Seq(Event)
                 /\ x.after[<<t, "ledger">>] \in Seq(Event)
           /\ \A p \in Procs : pc[p] \in PlanSteps => IsPlan(plan[p])
  BY PathFacts DEF TypeOK, AreImages, IsPlan, Ledger, Current

---------------------------------------------------------------------------
(* What a step of one process leaves alone of what another knows *)

\* A process outside of the board lock knows nothing of the disk; one inside
\* of it knows ledgers whose task lock it holds, or that may only grow.
LEMMA KnowsFrame ==
    ASSUME Inductive, TypeOK', NEW r \in Procs, Knows(r),
           pc'[r] = pc[r], job'[r] = job[r], plan'[r] = plan[r], done'[r] = done[r],
           \/ pc[r] \notin BoardSteps
           \/ \A t \in Tasks :
                 /\ t \in Editable \/ Current(t)' = Current(t)
                 /\ \/ Ledger(t)' = Ledger(t)
                    \/ taskLock[t] # r /\ Extends(Ledger(t), Ledger(t)')
    PROVE  Knows(r)'
<1>1. CASE pc[r] \notin BoardSteps
  BY <1>1 DEF Knows, BoardSteps
<1>2. CASE pc[r] \in BoardSteps
  <2>1. TypeOK /\ Relies(r) /\ job[r].tasks \subseteq Tasks
    BY DEF Inductive, TypeOK, IsJob
  <2>2. pc[r] \in {"plan", "staged"} => \A t \in job[r].tasks : Ledger(t)' = Ledger(t)
    BY <1>2, <2>1 DEF Relies, LockedSteps
  <2>3. pc[r] = "staged" => plan[r].tasks = job[r].tasks
    BY <2>1 DEF Relies
  <2>4. ASSUME pc[r] \in {"activate", "undo", "restore"}, NEW t \in plan[r].tasks,
               NEW image \in Seq(Event), Extends(image, Ledger(t))
        PROVE  Extends(image, Ledger(t)')
    <3>1. t \in Tasks
      BY <2>1, <2>4, LedgerTypes DEF PlanSteps
    <3>2. Ledger(t) \in Seq(Event) /\ Ledger(t)' \in Seq(Event)
      BY <2>1, <3>1, PathFacts DEF TypeOK, AreImages, Ledger
    <3>3. Ledger(t)' = Ledger(t) \/ Extends(Ledger(t), Ledger(t)')
      BY <1>2, <3>1
    <3> QED
      BY <2>4, <3>2, <3>3, ExtendsTransitive
  <2>5. pc[r] \in {"activate", "undo", "restore"} =>
            \A t \in plan[r].tasks : /\ plan[r].before[<<t, "ledger">>] \in Seq(Event)
                                     /\ plan[r].after[<<t, "ledger">>] \in Seq(Event)
    BY <2>1, LedgerTypes DEF PlanSteps
  <2>6. (pc[r] = "plan" => \A t \in job[r].tasks :
          /\ Fits(t, Ledger(t), [op |-> job[r].kind, before |-> job[r].seen[t]])
          /\ job[r].seen[t] = None <=> job[r].kind = "create"
          /\ t \in Editable \/ job[r].seen[t] = Current(t))'
    BY <1>2, <2>1, <2>2 DEF Knows
  <2>7. (pc[r] = "staged" =>
          \A t \in plan[r].tasks : plan[r].before[<<t, "ledger">>] = Ledger(t))'
    BY <2>2, <2>3 DEF Knows
  <2>8. (pc[r] = "activate" => \A t \in plan[r].tasks :
          <<t, "ledger">> \in done[r] => Extends(plan[r].after[<<t, "ledger">>], Ledger(t)))'
    BY <2>4, <2>5 DEF Knows
  <2>9. (pc[r] \in {"undo", "restore"} => \A t \in plan[r].tasks :
          <<t, "ledger">> \in done[r] => Extends(plan[r].before[<<t, "ledger">>], Ledger(t)))'
    BY <2>4, <2>5 DEF Knows
  <2> QED
    BY <1>2, <2>6, <2>7, <2>8, <2>9 DEF Knows, BoardSteps
<1> QED
  BY <1>1, <1>2

\* While one process is inside the board lock the others are outside of it.
LEMMA OthersKnow ==
    ASSUME Inductive, TypeOK', NEW p \in Procs, pc[p] \in BoardSteps, NEW r \in Procs \ {p},
           Knows(r), pc'[r] = pc[r], job'[r] = job[r], plan'[r] = plan[r], done'[r] = done[r]
    PROVE  Knows(r)'
<1>1. pc[r] \notin BoardSteps
  BY DEF Inductive, Relies
<1> QED
  BY <1>1, KnowsFrame

\* A step that leaves every file alone, to the others.
LEMMA QuietKnow ==
    ASSUME Inductive, TypeOK', NEW r \in Procs, Knows(r), UNCHANGED disk,
           pc'[r] = pc[r], job'[r] = job[r], plan'[r] = plan[r], done'[r] = done[r]
    PROVE  Knows(r)'
  BY KnowsFrame DEF Current, Ledger

\* The history of the files is a matter of files and plans.
LEMMA HistoryFrame ==
    ASSUME History, UNCHANGED disk,
           \A x \in staging' \cup intents' : x \in staging \cup intents \/ Chained(x),
           foreign' \subseteq foreign,
           \A r \in Procs : Knows(r)'
    PROVE  History'
  BY DEF History, Ledger, Chained

---------------------------------------------------------------------------
(* Steps that write no file *)

\* At the start every ledger is empty or holds its first event.
LEMMA InitHistory == Init => History
<1> SUFFICES ASSUME Init PROVE History
  OBVIOUS
<1> DEFINE Made(made, c) ==
        disk = [q \in Paths(Tasks) |->
                    IF q[2] = "task"
                    THEN IF q[1] \in made THEN c[q[1]] ELSE None
                    ELSE IF q[1] \in made
                         THEN << [op |-> "create", before |-> None, after |-> c[q[1]]] >>
                         ELSE <<>>]
<1> PICK made \in SUBSET Tasks : \E c \in [made -> Contents] : Made(made, c)
  BY DEF Init
<1> PICK c \in [made -> Contents] : Made(made, c)
  OBVIOUS
<1>1. ASSUME NEW t \in Tasks PROVE Linked(t, Ledger(t))
  <2>1. Len(Ledger(t)) \in {0, 1}
    BY PathFacts DEF Ledger
  <2> QED
    BY <2>1 DEF Linked
<1>2. \A p \in Procs : Knows(p)
  BY DEF Init, Knows
<1> QED
  BY <1>1, <1>2 DEF Init, History

\* Calling, locking, checking and leaving.
LEMMA QuietHistory ==
    ASSUME Inductive, TypeOK', History, NEW p \in Procs,
           \/ Invoke(p) \/ AcquireBoard(p) \/ RefuseRecovery(p) \/ BeginRestore(p)
           \/ EndRecovery(p) \/ RefuseBinding(p) \/ LockTask(p) \/ LockTimeout(p) \/ Refuse(p)
           \/ CheckIdentity(p) \/ FaultAfterIntent(p) \/ ReconcileStart(p)
           \/ ReconcileAgrees(p) \/ ReconcilePrepare(p) \/ Crash(p)
           \/ DiscardStaging(p) \/ KeepActivated(p) \/ EndRestore(p)
           \/ PublishIntent(p) \/ Complete(p) \/ FaultBeforeIntent(p) \/ EndUndo(p)
    PROVE  History'
<1> USE DEF disks, locks, locals
<1>0. TypeOK /\ Relies(p) /\ Knows(p)
  BY DEF Inductive, History
<1>1. UNCHANGED disk /\ foreign' \subseteq foreign
  BY DEF Invoke, AcquireBoard, RefuseRecovery, BeginRestore, EndRecovery, RefuseBinding,
         LockTask, LockTimeout, Refuse, CheckIdentity, FaultAfterIntent, ReconcileStart,
         ReconcileAgrees, ReconcilePrepare, Crash, DiscardStaging, KeepActivated, EndRestore,
         PublishIntent, Complete, FaultBeforeIntent, EndUndo
<1>2. \A x \in staging' \cup intents' : x \in staging \cup intents
  <2>1. PublishIntent(p) => plan[p] \in staging
    BY <1>0 DEF PublishIntent, Relies
  <2> QED
    BY <2>1
    DEF Invoke, AcquireBoard, RefuseRecovery, BeginRestore, EndRecovery, RefuseBinding,
        LockTask, LockTimeout, Refuse, CheckIdentity, FaultAfterIntent, ReconcileStart,
        ReconcileAgrees, ReconcilePrepare, Crash, DiscardStaging, KeepActivated, EndRestore,
        PublishIntent, Complete, FaultBeforeIntent, EndUndo
<1>3. ASSUME NEW r \in Procs \ {p}
      PROVE  pc'[r] = pc[r] /\ job'[r] = job[r] /\ plan'[r] = plan[r] /\ done'[r] = done[r]
  <2>1. CASE Exit(p)
    BY <1>0, <2>1, ExitType
  <2>2. CASE ~Exit(p)
    BY <1>0, <2>2
    DEF TypeOK, Goto, Invoke, AcquireBoard, RefuseRecovery, BeginRestore, EndRecovery,
        RefuseBinding, LockTask, LockTimeout, Refuse, CheckIdentity, FaultAfterIntent,
        ReconcileStart, ReconcileAgrees, ReconcilePrepare, Crash, DiscardStaging,
        KeepActivated, EndRestore, PublishIntent, Complete, FaultBeforeIntent, EndUndo
  <2> QED
    BY <2>1, <2>2
<1>4. Knows(p)'
  <2>1. CASE Exit(p)
    BY <1>0, <2>1, ExitType DEF Knows
  <2>2. CASE \/ Invoke(p) \/ AcquireBoard(p) \/ EndRecovery(p) \/ LockTask(p)
             \/ DiscardStaging(p) \/ KeepActivated(p) \/ EndRestore(p) \/ PublishIntent(p)
    <3>1. pc'[p] \in {"board", "recover", "lock", "read", "intent"}
      BY <1>0, <2>2
      DEF TypeOK, Goto, Invoke, AcquireBoard, EndRecovery, LockTask, DiscardStaging,
          KeepActivated, EndRestore, PublishIntent
    <3> QED
      BY <3>1 DEF Knows
  <2>3. CASE BeginRestore(p) \/ CheckIdentity(p) \/ FaultAfterIntent(p)
    <3>1. pc'[p] \in {"restore", "activate", "undo"} /\ done'[p] = {}
      BY <1>0, <2>3
      DEF TypeOK, Goto, BeginRestore, CheckIdentity, FaultAfterIntent, Relies
    <3> QED
      BY <3>1 DEF Knows
  <2>4. CASE ReconcileStart(p)
    <3>1. pc'[p] = "compare" /\ p \in Reconcilers
      BY <1>0, <2>4 DEF TypeOK, Goto, ReconcileStart
    <3> QED
      BY <3>1 DEF Knows
  <2>5. CASE ReconcilePrepare(p)
    <3>1. PICK t \in job[p].tasks :
              plan' = [plan EXCEPT ![p] = [log |-> Ledger(t), event |-> ReconcileEvent(t)]]
      BY <2>5 DEF ReconcilePrepare
    <3>2. plan'[p].log = Ledger(t) /\ plan'[p].event = ReconcileEvent(t)
      BY <1>0, <3>1 DEF TypeOK
    <3>3. Ledger(t) = <<>> \/ ReconcileEvent(t).before = Tip(Ledger(t))
      BY DEF ReconcileEvent
    <3>4. pc'[p] = "append" /\ p \in Reconcilers
      BY <1>0, <2>5 DEF TypeOK, Goto, ReconcilePrepare, Knows
    <3> QED
      BY <3>2, <3>3, <3>4 DEF Knows
  <2> QED
    BY <2>1, <2>2, <2>3, <2>4, <2>5
    DEF RefuseRecovery, RefuseBinding, LockTimeout, Refuse, ReconcileAgrees, Crash,
        Complete, FaultBeforeIntent, EndUndo
<1>5. ASSUME NEW r \in Procs PROVE Knows(r)'
  <2>1. CASE r = p
    BY <1>4, <2>1
  <2>2. CASE r # p
    BY <1>1, <1>3, <2>2, QuietKnow DEF History
  <2> QED
    BY <2>1, <2>2
<1> QED
  BY <1>1, <1>2, <1>5, HistoryFrame

---------------------------------------------------------------------------
(* Steps that make or write images *)

\* Writing back the images of a plan, or writing the new ones.
LEMMA PathHistory ==
    ASSUME Inductive, TypeOK', History, NEW p \in Procs, RestorePath(p) \/ Activate(p)
    PROVE  History'
<1> USE DEF locks
<1> DEFINE side == IF pc[p] = "activate" THEN plan[p].after ELSE plan[p].before
<1>0. TypeOK /\ Relies(p) /\ Knows(p)
  BY DEF Inductive, History
<1>1. PICK q \in Paths(plan[p].tasks) :
          disk' = [disk EXCEPT ![q] = side[q]] /\ done' = [done EXCEPT ![p] = @ \cup {q}]
  BY DEF RestorePath, Activate
<1>2. /\ pc[p] \in {"restore", "undo", "activate"}
      /\ UNCHANGED <<staging, intents, pc, job, plan, foreign>>
  BY DEF RestorePath, Activate
<1>3. /\ plan[p] \in intents /\ IsPlan(plan[p]) /\ plan[p].tasks \subseteq Tasks
      /\ Chained(plan[p])
  BY <1>0, <1>2 DEF Relies, TypeOK, IsPlan, History
<1>4. /\ q \in DOMAIN disk /\ DOMAIN disk = Paths(Tasks)
      /\ q[1] \in plan[p].tasks /\ q = <<q[1], q[2]>> /\ q[2] \in {"task", "ledger"}
  BY <1>0, <1>3, PathsMonotone, PathFacts DEF TypeOK, AreImages
<1>5. \A t \in Tasks : Ledger(t)' = IF <<t, "ledger">> = q THEN side[q] ELSE Ledger(t)
  BY <1>1, <1>4, PathFacts DEF Ledger
<1> HIDE DEF side
<1>6. \A t \in Tasks : Linked(t, Ledger(t)')
  <2>1. ASSUME NEW t \in plan[p].tasks
        PROVE  Linked(t, plan[p].before[<<t, "ledger">>]) /\ Linked(t, plan[p].after[<<t, "ledger">>])
    BY <1>3, <2>1 DEF Chained
  <2>2. ASSUME NEW t \in plan[p].tasks PROVE Linked(t, side[<<t, "ledger">>])
    BY <2>1 DEF side
  <2>3. ASSUME NEW t \in Tasks, <<t, "ledger">> = q PROVE t \in plan[p].tasks
    BY <1>4, <2>3
  <2> QED
    BY <1>5, <2>2, <2>3 DEF History
<1>7. Knows(p)'
  <2>1. ASSUME NEW t \in plan[p].tasks, <<t, "ledger">> \in done'[p]
        PROVE  Extends(side[<<t, "ledger">>], Ledger(t)')
    <3>1. t \in Tasks /\ side[<<t, "ledger">>] \in Seq(Event)
      BY <1>0, <1>3, LedgerTypes DEF side
    <3>2. CASE <<t, "ledger">> = q
      BY <1>5, <3>1, <3>2, ExtendsItself
    <3>3. CASE <<t, "ledger">> # q
      <4>1. <<t, "ledger">> \in done[p]
        BY <1>0, <1>1, <2>1, <3>3 DEF TypeOK
      <4> QED
        BY <1>0, <1>2, <1>5, <3>1, <3>3, <4>1 DEF Knows, side
    <3> QED
      BY <3>2, <3>3
  <2> QED
    BY <1>2, <2>1 DEF Knows, side
<1>8. \A r \in Procs : Knows(r)'
  <2>1. ASSUME NEW r \in Procs \ {p} PROVE Knows(r)'
    <3>1. done'[r] = done[r]
      BY <1>0, <1>1 DEF TypeOK
    <3> QED
      BY <1>2, <3>1, OthersKnow DEF History, BoardSteps
  <2> QED
    BY <1>7, <2>1
<1> QED
  BY <1>2, <1>6, <1>8 DEF History, Chained

\* update_task appends the event that its read shows to be missing.
LEMMA ReadHistory ==
    ASSUME Inductive, TypeOK', History, NEW p \in Procs, Read(p)
    PROVE  History'
<1> USE DEF locks
<1> DEFINE behind == {t \in job[p].tasks : job[p].kind = "update" /\ NeedsReconcile(t)}
<1>0. TypeOK /\ Relies(p) /\ LedgerSpeaks
  BY DEF Inductive, Images
<1>1. /\ pc[p] = "read" /\ staging = {} /\ intents = {}
      /\ job[p].tasks \subseteq Tasks /\ job[p].kind \in Kinds
  BY <1>0 DEF Read, Relies, TypeOK, IsJob, Steps
<1>2. /\ disk' = [q \in Paths(Tasks) |->
                      IF q[1] \in behind /\ q[2] = "ledger"
                      THEN Append(disk[q], ReconcileEvent(q[1])) ELSE disk[q]]
      /\ foreign' = foreign \ behind
      /\ job' = [job EXCEPT ![p].seen = [t \in job[p].tasks |-> Current(t)]]
      /\ pc' = [pc EXCEPT ![p] = "plan"]
      /\ UNCHANGED <<staging, intents, plan, done>>
      /\ \A t \in job[p].tasks : (Current(t) = None) <=> (job[p].kind = "create")
  BY DEF Read, Goto
<1>3. \A t \in Tasks : /\ Current(t)' = Current(t)
                       /\ t \in behind => Ledger(t)' = Append(Ledger(t), ReconcileEvent(t))
                       /\ t \notin behind => Ledger(t)' = Ledger(t)
  BY <1>2, PathFacts DEF Current, Ledger
<1>4. ASSUME NEW t \in behind
      PROVE  /\ t \in Tasks /\ Ledger(t) \in Seq(Event) /\ ReconcileEvent(t) \in Event
             /\ ReconcileEvent(t).after = Current(t)
             /\ Fits(t, Ledger(t), ReconcileEvent(t))
  <2>1. t \in Tasks /\ Ledger(t) \in Seq(Event) /\ Current(t) \in Contents \cup {None}
    BY <1>0, <1>1, LedgerTypes
  <2> QED
    BY <2>1, TipIsHash DEF ReconcileEvent, Event, Hash, Fits, MayFollow
<1> HIDE DEF behind
<1>5. ASSUME NEW t \in Tasks PROVE Linked(t, Ledger(t)')
  BY <1>3, <1>4, AppendLinked DEF History
<1>6. Knows(p)'
  <2>1. /\ pc'[p] = "plan" /\ job'[p].tasks = job[p].tasks /\ job'[p].kind = job[p].kind
        /\ job'[p].seen = [t \in job[p].tasks |-> Current(t)]
    BY <1>0, <1>2 DEF TypeOK, IsJob
  <2>2. ASSUME NEW t \in job[p].tasks
        PROVE  Fits(t, Ledger(t)', [op |-> job[p].kind, before |-> Current(t)])
    <3>1. CASE t \in behind
      <4>1. Tip(Ledger(t)') = Current(t)
        BY <1>3, <1>4, <3>1, AppendedTip
      <4> QED
        BY <4>1 DEF Fits, MayFollow
    <3>2. CASE t \notin behind /\ job[p].kind = "update"
      <4>1. Current(t) # None /\ ~NeedsReconcile(t)
        BY <1>2, <3>2 DEF behind
      <4> QED
        BY <1>1, <1>3, <3>2, <4>1 DEF NeedsReconcile, Fits, MayFollow
    <3>3. CASE job[p].kind = "create"
      BY <3>3 DEF Fits, MayFollow
    <3>4. CASE job[p].kind \notin {"create", "update"} /\ WrittenOutside(t)
      <4>1. job[p].kind # "reconcile"
        BY <1>1, KindsAssumption DEF AllKinds
      <4> QED
        BY <3>4, <4>1 DEF Fits, MayFollow
    <3>5. CASE job[p].kind \notin {"create", "update"} /\ ~WrittenOutside(t)
      <4>1. t \in Tasks /\ t \notin foreign /\ ~Covered(t) /\ Current(t) # None
        BY <1>1, <1>2, <3>5 DEF History, Covered
      <4>2. Tip(Ledger(t)) = Current(t)
        BY <1>0, <4>1 DEF LedgerSpeaks, Agrees
      <4>3. t \notin behind
        BY <3>5 DEF behind
      <4> QED
        BY <1>3, <4>1, <4>2, <4>3 DEF Fits, MayFollow
    <3> QED
      BY <3>1, <3>2, <3>3, <3>4, <3>5
  <2>3. ASSUME NEW t \in job'[p].tasks
        PROVE  /\ job'[p].seen[t] = None <=> job'[p].kind = "create"
               /\ t \in Editable \/ job'[p].seen[t] = Current(t)'
               /\ Fits(t, Ledger(t)', [op |-> job'[p].kind, before |-> job'[p].seen[t]])
    BY <1>1, <1>2, <1>3, <2>1, <2>2
  <2> QED
    BY <2>1, <2>3 DEF Knows
<1>7. \A r \in Procs : Knows(r)'
  <2>1. ASSUME NEW r \in Procs \ {p} PROVE Knows(r)'
    <3>1. pc'[r] = pc[r] /\ job'[r] = job[r] /\ plan'[r] = plan[r] /\ done'[r] = done[r]
      BY <1>0, <1>2 DEF TypeOK
    <3> QED
      BY <1>1, <3>1, OthersKnow DEF History, BoardSteps
  <2> QED
    BY <1>6, <2>1
<1> QED
  BY <1>2, <1>5, <1>7 DEF History

\* The images of a new plan continue the ledgers that are on disk.
LEMMA PlanHistory ==
    ASSUME Inductive, TypeOK', History, NEW p \in Procs, MakePlan(p)
    PROVE  History'
<1> USE DEF locks
<1> DEFINE S == job[p].tasks
           x(new) == [by |-> p, tasks |-> S, head |-> head,
                      before |-> [q \in Paths(S) |-> disk[q]],
                      after |-> [q \in Paths(S) |->
                         IF q[2] = "task" THEN new[q[1]]
                         ELSE Append(disk[q], NewEvent(p, q[1], new[q[1]]))]]
<1>0. TypeOK /\ Relies(p) /\ Knows(p)
  BY DEF Inductive, History
<1>1. PICK new \in [S -> Contents \cup {None}] :
          /\ \A t \in S : IF job[p].kind = "delete" THEN new[t] = None
                          ELSE new[t] \notin {None, job[p].seen[t]}
          /\ staging' = staging \cup {x(new)} /\ plan' = [plan EXCEPT ![p] = x(new)]
  BY DEF MakePlan
<1>2. /\ pc[p] = "plan" /\ S \subseteq Tasks /\ job[p].kind \in Kinds
      /\ UNCHANGED <<disk, intents, job, done, foreign>>
      /\ pc' = [pc EXCEPT ![p] = "staged"]
  BY <1>0 DEF MakePlan, Goto, TypeOK, IsJob, Steps
<1>3. \A t \in S : /\ x(new).before[<<t, "task">>] = Current(t)
                   /\ x(new).before[<<t, "ledger">>] = Ledger(t)
                   /\ x(new).after[<<t, "task">>] = new[t]
                   /\ x(new).after[<<t, "ledger">>] = Append(Ledger(t), NewEvent(p, t, new[t]))
  BY PathFacts DEF Current, Ledger
<1>4. x(new).tasks = S
  OBVIOUS
<1> HIDE DEF x
<1>5. Chained(x(new))
  <2>1. ASSUME NEW t \in S
        PROVE  /\ Linked(t, Ledger(t)) /\ Linked(t, Append(Ledger(t), NewEvent(p, t, new[t])))
               /\ Extends(Ledger(t), Append(Ledger(t), NewEvent(p, t, new[t])))
    <3>1. t \in Tasks /\ Ledger(t) \in Seq(Event) /\ Linked(t, Ledger(t))
      BY <1>0, <1>2, LedgerTypes DEF History
    <3>2. Fits(t, Ledger(t), NewEvent(p, t, new[t]))
      BY <1>0, <1>2 DEF Knows, Fits, MayFollow, NewEvent
    <3> QED
      BY <3>1, <3>2, AppendLinked, AppendExtends
  <2>2. ASSUME NEW t \in S \ Editable PROVE Commits(x(new), job[p].kind, t)
    <3>1. /\ job[p].seen[t] = Current(t)
          /\ Current(t) = None <=> job[p].kind = "create"
      BY <1>0, <1>2 DEF Knows
    <3>2. new[t] # Current(t) /\ (new[t] = None <=> job[p].kind = "delete")
      BY <1>1, <3>1
    <3> QED
      BY <1>3, <3>1, <3>2 DEF Commits, NewEvent
  <2> QED
    BY <1>2, <1>3, <1>4, <2>1, <2>2 DEF Chained
<1>6. Knows(p)'
  <2>1. pc'[p] = "staged" /\ plan'[p] = x(new)
    BY <1>0, <1>1, <1>2 DEF TypeOK
  <2> QED
    BY <1>2, <1>3, <1>4, <2>1 DEF Knows, Ledger
<1>7. \A r \in Procs : Knows(r)'
  <2>1. ASSUME NEW r \in Procs \ {p} PROVE Knows(r)'
    <3>1. pc'[r] = pc[r] /\ job'[r] = job[r] /\ plan'[r] = plan[r] /\ done'[r] = done[r]
      BY <1>0, <1>1, <1>2 DEF TypeOK
    <3> QED
      BY <1>2, <3>1, QuietKnow DEF History
  <2> QED
    BY <1>6, <2>1
<1> QED
  BY <1>1, <1>2, <1>5, <1>7, HistoryFrame

\* reconcile appends the event it prepared, to the ledger it was read from.
LEMMA ReconcileHistory ==
    ASSUME Inductive, TypeOK', History, NEW p \in Procs, ReconcileAppend(p)
    PROVE  History'
<1>0. TypeOK /\ Relies(p) /\ Knows(p)
  BY DEF Inductive, History
<1>1. PICK t \in job[p].tasks :
          IF Ledger(t) = plan[p].log
          THEN /\ disk' = [disk EXCEPT ![<<t, "ledger">>] = Append(@, plan[p].event)]
               /\ foreign' = IF Current(t) = plan[p].event.after /\ ~Covered(t)
                             THEN foreign \ {t} ELSE foreign \cup {t}
          ELSE UNCHANGED <<disk, foreign>>
  BY DEF ReconcileAppend
<1>2. /\ pc[p] = "append" /\ p \in Reconcilers /\ Exit(p) /\ UNCHANGED <<staging, intents>>
      /\ taskLock[t] = p /\ t \in Tasks /\ Ledger(t) \in Seq(Event)
  BY <1>0, LedgerTypes DEF ReconcileAppend, Relies, LockedSteps, TypeOK, IsJob, Knows
<1>3. /\ \A u \in Tasks \ {t} : Ledger(u)' = Ledger(u)
      /\ \A u \in Tasks : Current(u)' = Current(u)
  <2>1. \A q \in Paths(Tasks) : q # <<t, "ledger">> => disk'[q] = disk[q]
    BY <1>0, <1>1 DEF TypeOK, AreImages
  <2>2. \A u \in Tasks : /\ <<u, "task">> \in Paths(Tasks) /\ <<u, "task">> # <<t, "ledger">>
                         /\ <<u, "ledger">> \in Paths(Tasks)
                         /\ u # t => <<u, "ledger">> # <<t, "ledger">>
    BY PathFacts
  <2> QED
    BY <2>1, <2>2 DEF Ledger, Current
<1>5. /\ Linked(t, Ledger(t)')
      /\ Ledger(t)' = Ledger(t) \/ Extends(Ledger(t), Ledger(t)')
  <2>1. CASE Ledger(t) = plan[p].log
    <3>1. Ledger(t)' = Append(Ledger(t), plan[p].event)
      BY <1>0, <1>1, <1>2, <2>1, PathFacts DEF TypeOK, AreImages, Ledger
    <3>2. Fits(t, Ledger(t), plan[p].event)
      BY <1>0, <1>2, <2>1 DEF Knows, Fits, MayFollow
    <3> QED
      BY <1>2, <3>1, <3>2, AppendLinked, AppendExtends DEF History
  <2>2. CASE Ledger(t) # plan[p].log
    BY <1>1, <1>2, <2>2 DEF Ledger, History
  <2> QED
    BY <2>1, <2>2
<1>6. \A u \in foreign' : WrittenOutside(u)
  BY <1>1, <1>2 DEF History, WrittenOutside
<1>7. ASSUME NEW r \in Procs PROVE Knows(r)'
  <2>1. CASE r = p
    BY <1>0, <1>2, <2>1, ExitType DEF Knows
  <2>2. CASE r # p
    <3>1. pc'[r] = pc[r] /\ job'[r] = job[r] /\ plan'[r] = plan[r] /\ done'[r] = done[r]
      BY <1>0, <1>2, <2>2, ExitType
    <3> QED
      BY <1>2, <1>3, <1>5, <2>2, <3>1, KnowsFrame DEF History
  <2> QED
    BY <2>1, <2>2
<1> QED
  BY <1>2, <1>3, <1>5, <1>6, <1>7 DEF History

\* A hand that edits a file, and a commit that moves HEAD.
LEMMA OutsideHistory ==
    ASSUME Inductive, TypeOK', History, MoveHead \/ \E t \in Tasks : EditFile(t)
    PROVE  History'
<1> USE DEF disks, locks, locals
<1>0. TypeOK
  BY DEF Inductive
<1>1. CASE MoveHead
  <2>1. \A r \in Procs : Knows(r)'
    BY <1>1, QuietKnow DEF MoveHead, History
  <2> QED
    BY <1>1, <2>1, HistoryFrame DEF MoveHead
<1>2. ASSUME NEW t \in Tasks, EditFile(t) PROVE History'
  <2>1. /\ t \in Editable /\ foreign' = foreign \cup {t}
        /\ UNCHANGED <<staging, intents, pc, job, plan, done>>
        /\ \E c : disk' = [disk EXCEPT ![<<t, "task">>] = c]
    BY <1>2 DEF EditFile
  <2>2. \A u \in Tasks : Ledger(u)' = Ledger(u) /\ (u = t \/ Current(u)' = Current(u))
    <3>1. \A q \in Paths(Tasks) : q # <<t, "task">> => disk'[q] = disk[q]
      BY <1>0, <2>1 DEF TypeOK, AreImages
    <3>2. \A u \in Tasks : /\ <<u, "ledger">> \in Paths(Tasks) /\ <<u, "ledger">> # <<t, "task">>
                           /\ <<u, "task">> \in Paths(Tasks)
                           /\ u # t => <<u, "task">> # <<t, "task">>
      BY PathFacts
    <3> QED
      BY <3>1, <3>2 DEF Ledger, Current
  <2>3. \A r \in Procs : Knows(r)'
    BY <2>1, <2>2, KnowsFrame DEF History
  <2> QED
    BY <2>1, <2>2, <2>3 DEF History, WrittenOutside
<1> QED
  BY <1>1, <1>2

\* Every step keeps the history.
LEMMA StepHistory == Inductive /\ History /\ [Next]_vars => History'
<1> SUFFICES ASSUME Inductive, History, [Next]_vars PROVE History'
  OBVIOUS
<1>1. TypeOK'
  BY StepType DEF Inductive
<1>2. CASE UNCHANGED vars
  <2>1. \A r \in Procs : Knows(r)'
    BY <1>1, <1>2, QuietKnow DEF vars, History
  <2> QED
    BY <1>2, <2>1, HistoryFrame DEF vars
<1>3. ASSUME NEW p \in Procs, Program(p) PROVE History'
  BY <1>1, <1>3, QuietHistory, PathHistory, ReadHistory, PlanHistory, ReconcileHistory
  DEF Program, Recover, Mutate, Reconcile
<1>4. ASSUME NEW p \in Procs,
             ReconcileStart(p) \/ FaultBeforeIntent(p) \/ FaultAfterIntent(p) \/ Crash(p)
      PROVE  History'
  BY <1>1, <1>4, QuietHistory
<1>5. CASE MoveHead \/ \E t \in Tasks : EditFile(t)
  BY <1>1, <1>5, OutsideHistory
<1> QED
  BY <1>2, <1>3, <1>4, <1>5 DEF Next

LEMMA AlwaysHistory == Spec => [](Inductive /\ History)
  BY AlwaysInductive, InitHistory, StepHistory, PTL DEF Spec

---------------------------------------------------------------------------
(* The theorems *)

\* Every event of every ledger starts where the previous one ended, with the
\* two exceptions HistoryLinked names, whatever crashes or is edited by hand.
THEOREM AlwaysLinked == Spec => []HistoryLinked
<1>1. History => HistoryLinked
  BY DEF History, HistoryLinked, Linked, MayFollow
<1> QED
  BY <1>1, AlwaysHistory, PTL

---------------------------------------------------------------------------
(* What is committed, step by step *)

\* With at most one intent, what is committed is that intent's before-image
\* for the tasks it covers, and the file for the others.
LEMMA CommittedIs ==
    ASSUME Directories, NEW t, NEW part
    PROVE  /\ intents = {} => Committed(t, part) = disk[<<t, part>>]
           /\ \A x \in intents :
                 /\ intents = {x} /\ staging = {}
                 /\ Covered(t) <=> t \in x.tasks
                 /\ t \in x.tasks => Committed(t, part) = x.before[<<t, part>>]
                 /\ t \notin x.tasks => Committed(t, part) = disk[<<t, part>>]
<1>1. intents = {} => Committed(t, part) = disk[<<t, part>>]
  BY DEF Committed, Covered
<1>2. ASSUME NEW x \in intents
      PROVE  /\ intents = {x} /\ staging = {}
             /\ Covered(t) <=> t \in x.tasks
             /\ t \in x.tasks => Committed(t, part) = x.before[<<t, part>>]
             /\ t \notin x.tasks => Committed(t, part) = disk[<<t, part>>]
  <2>1. intents = {x} /\ staging = {}
    BY <1>2 DEF Directories, SingleTransaction
  <2>2. Covered(t) <=> t \in x.tasks
    BY <2>1 DEF Covered
  <2>3. t \in x.tasks => (CHOOSE y \in intents : t \in y.tasks) = x
    BY <2>1
  <2> QED
    BY <2>1, <2>2, <2>3 DEF Committed
<1> QED
  BY <1>1, <1>2

\* The same intents, and uncovered ledgers that only grow.
LEMMA SameIntents ==
    ASSUME TypeOK, Directories, Directories', UNCHANGED intents, NEW t \in Tasks,
           Covered(t) \/ Extends(Ledger(t), Ledger(t)')
    PROVE  Extends(Committed(t, "ledger"), Committed(t, "ledger")')
<1>1. CASE Covered(t)
  <2>1. PICK x \in intents : t \in x.tasks
    BY <1>1 DEF Covered
  <2>2. Committed(t, "ledger") = x.before[<<t, "ledger">>]
    BY <2>1, CommittedIs
  <2>3. Committed(t, "ledger")' = Committed(t, "ledger")
    BY <1>1, <2>1 DEF Committed, Covered
  <2>4. x.before[<<t, "ledger">>] \in Seq(Event)
    BY <2>1, LedgerTypes DEF TypeOK
  <2> QED
    BY <2>2, <2>3, <2>4, ExtendsItself
<1>2. CASE ~Covered(t)
  <2>1. Committed(t, "ledger") = Ledger(t)
    BY <1>2 DEF Committed, Ledger
  <2>2. Committed(t, "ledger")' = Ledger(t)'
    BY <1>2 DEF Committed, Covered, Ledger
  <2> QED
    BY <1>2, <2>1, <2>2
<1> QED
  BY <1>1, <1>2

\* An intent that goes, over ledgers that extend its before-images.
LEMMA IntentGone ==
    ASSUME TypeOK, Directories, Directories', UNCHANGED disk, NEW x \in intents,
           intents' = intents \ {x}, NEW t \in Tasks,
           t \in x.tasks => Extends(x.before[<<t, "ledger">>], Ledger(t))
    PROVE  Extends(Committed(t, "ledger"), Committed(t, "ledger")')
<1>1. intents = {x} /\ intents' = {}
  BY CommittedIs
<1>2. Committed(t, "ledger")' = Ledger(t)
  BY <1>1 DEF Committed, Covered, Ledger
<1>3. Extends(Ledger(t), Ledger(t))
  BY LedgerTypes, ExtendsItself
<1> QED
  BY <1>1, <1>2, <1>3, CommittedIs DEF Ledger

\* No step loses a committed event.
LEMMA StepSurvives ==
    ASSUME Inductive, History, Inductive', [Next]_vars, NEW t \in Tasks
    PROVE  Extends(Committed(t, "ledger"), Committed(t, "ledger")')
<1> USE DEF disks, locks, locals
<1>0. TypeOK /\ Directories /\ Directories' /\ Ledger(t) \in Seq(Event)
  BY LedgerTypes DEF Inductive
<1>1. ASSUME UNCHANGED <<disk, intents>>
      PROVE  Extends(Committed(t, "ledger"), Committed(t, "ledger")')
  BY <1>0, <1>1, SameIntents, ExtendsItself DEF Ledger
<1>2. ASSUME NEW p \in Procs,
             \/ Invoke(p) \/ AcquireBoard(p) \/ DiscardStaging(p) \/ RefuseRecovery(p)
             \/ BeginRestore(p) \/ EndRecovery(p) \/ RefuseBinding(p) \/ LockTask(p)
             \/ LockTimeout(p) \/ Refuse(p) \/ MakePlan(p) \/ CheckIdentity(p)
             \/ FaultBeforeIntent(p) \/ FaultAfterIntent(p) \/ ReconcileStart(p)
             \/ ReconcileAgrees(p) \/ ReconcilePrepare(p) \/ Crash(p)
      PROVE  Extends(Committed(t, "ledger"), Committed(t, "ledger")')
  BY <1>1, <1>2
  DEF Invoke, AcquireBoard, DiscardStaging, RefuseRecovery, BeginRestore, EndRecovery,
      RefuseBinding, LockTask, LockTimeout, Refuse, MakePlan, CheckIdentity,
      FaultBeforeIntent, FaultAfterIntent, ReconcileStart, ReconcileAgrees,
      ReconcilePrepare, Crash
<1>3. ASSUME NEW p \in Procs, KeepActivated(p)
      PROVE  Extends(Committed(t, "ledger"), Committed(t, "ledger")')
  <2>1. PICK x \in intents : FullyActivated(x) /\ intents' = intents \ {x}
    BY <1>3 DEF KeepActivated
  <2>2. t \in x.tasks => Extends(x.before[<<t, "ledger">>], Ledger(t))
    BY <2>1, PathFacts DEF FullyActivated, PathState, History, Chained, Ledger
  <2> QED
    BY <1>0, <1>3, <2>1, <2>2, IntentGone DEF KeepActivated
<1>4. ASSUME NEW p \in Procs, EndRestore(p) \/ EndUndo(p)
      PROVE  Extends(Committed(t, "ledger"), Committed(t, "ledger")')
  <2>1. /\ pc[p] \in {"restore", "undo"} /\ done[p] = Paths(plan[p].tasks)
        /\ intents' = intents \ {plan[p]} /\ UNCHANGED disk
    BY <1>4 DEF EndRestore, EndUndo
  <2>2. plan[p] \in intents
    BY <2>1 DEF Inductive, Relies
  <2>3. t \in plan[p].tasks => Extends(plan[p].before[<<t, "ledger">>], Ledger(t))
    <3>1. t \in plan[p].tasks => <<t, "ledger">> \in done[p]
      BY <2>1, PathFacts
    <3> QED
      BY <2>1, <3>1 DEF History, Knows
  <2> QED
    BY <1>0, <2>1, <2>2, <2>3, IntentGone
<1>5. ASSUME NEW p \in Procs, Complete(p)
      PROVE  Extends(Committed(t, "ledger"), Committed(t, "ledger")')
  <2>1. /\ pc[p] = "activate" /\ done[p] = Paths(plan[p].tasks)
        /\ intents' = intents \ {plan[p]} /\ UNCHANGED disk
    BY <1>5 DEF Complete
  <2>2. plan[p] \in intents
    BY <2>1 DEF Inductive, Relies
  <2>3. ASSUME t \in plan[p].tasks PROVE Extends(plan[p].before[<<t, "ledger">>], Ledger(t))
    <3>0. <<t, "ledger">> \in done[p]
      BY <2>1, <2>3, PathFacts
    <3>1. /\ Extends(plan[p].after[<<t, "ledger">>], Ledger(t))
          /\ Extends(plan[p].before[<<t, "ledger">>], plan[p].after[<<t, "ledger">>])
      BY <2>1, <2>2, <2>3, <3>0 DEF History, Knows, Chained
    <3>2. /\ plan[p].before[<<t, "ledger">>] \in Seq(Event)
          /\ plan[p].after[<<t, "ledger">>] \in Seq(Event)
      BY <1>0, <2>1, <2>3, LedgerTypes DEF PlanSteps
    <3> QED
      BY <1>0, <3>1, <3>2, ExtendsTransitive
  <2> QED
    BY <1>0, <2>1, <2>2, <2>3, IntentGone
<1>6. ASSUME NEW p \in Procs, PublishIntent(p)
      PROVE  Extends(Committed(t, "ledger"), Committed(t, "ledger")')
  <2>1. /\ pc[p] = "staged" /\ UNCHANGED disk /\ intents' = intents \cup {plan[p]}
    BY <1>6 DEF PublishIntent
  <2>2. intents = {} /\ \A u \in plan[p].tasks : plan[p].before[<<u, "ledger">>] = Ledger(u)
    BY <2>1 DEF Inductive, Relies, History, Knows
  <2>3. Committed(t, "ledger") = Ledger(t)
    BY <1>0, <2>2, CommittedIs DEF Ledger
  <2>4. intents' = {plan[p]}
    BY <2>1, <2>2
  <2>5. Committed(t, "ledger")' = Ledger(t)
    <3>1. PICK x : x = plan[p]
      OBVIOUS
    <3>2. Covered(t)' <=> t \in x.tasks
      BY <2>4, <3>1 DEF Covered
    <3>3. t \in x.tasks => (CHOOSE y \in intents' : t \in y.tasks) = x
      BY <2>4, <3>1
    <3> QED
      BY <2>1, <2>2, <3>1, <3>2, <3>3 DEF Committed, Ledger
  <2> QED
    BY <1>0, <2>3, <2>5, ExtendsItself
<1>7. ASSUME NEW p \in Procs, RestorePath(p) \/ Activate(p)
      PROVE  Extends(Committed(t, "ledger"), Committed(t, "ledger")')
  <2>1. PICK q \in Paths(plan[p].tasks) :
               \E image \in {plan[p].before[q], plan[p].after[q]} :
                  disk' = [disk EXCEPT ![q] = image]
    BY <1>7 DEF RestorePath, Activate
  <2>2. plan[p] \in intents /\ UNCHANGED intents
    BY <1>7 DEF Inductive, Relies, RestorePath, Activate
  <2>3. CASE t \in plan[p].tasks
    BY <1>0, <2>2, <2>3, SameIntents DEF Covered
  <2>4. CASE t \notin plan[p].tasks
    <3>1. <<t, "ledger">> # q /\ <<t, "ledger">> \in Paths(Tasks)
      <4>1. q[1] \in plan[p].tasks
        BY PathFacts
      <4>2. <<t, "ledger">> \in Paths(Tasks)
        BY PathFacts
      <4> QED
        BY <2>4, <4>1, <4>2
    <3>2. Ledger(t)' = Ledger(t)
      BY <1>0, <2>1, <3>1 DEF Ledger, TypeOK, AreImages
    <3> QED
      BY <1>0, <2>2, <3>2, SameIntents, ExtendsItself
  <2> QED
    BY <2>3, <2>4
<1>8. ASSUME NEW p \in Procs, Read(p)
      PROVE  Extends(Committed(t, "ledger"), Committed(t, "ledger")')
  <2>1. UNCHANGED intents /\ \E e : Ledger(t)' \in {Ledger(t), Append(Ledger(t), e)}
    BY <1>8, PathFacts DEF Read, Ledger
  <2> QED
    BY <1>0, <2>1, SameIntents, ExtendsItself, AppendExtends
<1>9. ASSUME NEW p \in Procs, ReconcileAppend(p)
      PROVE  Extends(Committed(t, "ledger"), Committed(t, "ledger")')
  <2>1. PICK u \in Tasks : \E e :
            \/ disk' = [disk EXCEPT ![<<u, "ledger">>] = Append(@, e)]
            \/ UNCHANGED disk
    BY <1>0, <1>9 DEF ReconcileAppend, TypeOK, IsJob
  <2>2. <<t, "ledger">> \in DOMAIN disk
    BY <1>0, PathFacts DEF TypeOK, AreImages
  <2>3. PICK e : \/ disk' = [disk EXCEPT ![<<u, "ledger">>] = Append(@, e)]
                 \/ UNCHANGED disk
    BY <2>1
  <2>4. Ledger(t)' \in {Ledger(t), Append(Ledger(t), e)}
    BY <2>2, <2>3 DEF Ledger
  <2> QED
    BY <1>0, <1>9, <2>4, SameIntents, ExtendsItself, AppendExtends DEF ReconcileAppend
<1>10. CASE MoveHead
  BY <1>1, <1>10 DEF MoveHead
<1>11. ASSUME NEW u \in Tasks, EditFile(u)
       PROVE  Extends(Committed(t, "ledger"), Committed(t, "ledger")')
  <2>1. PICK c : disk' = [disk EXCEPT ![<<u, "task">>] = c]
    BY <1>11 DEF EditFile
  <2>2. <<t, "ledger">> \in DOMAIN disk /\ <<t, "ledger">> # <<u, "task">>
    BY <1>0, PathFacts DEF TypeOK, AreImages
  <2>3. Ledger(t)' = Ledger(t)
    BY <2>1, <2>2 DEF Ledger
  <2> QED
    BY <1>0, <1>11, <2>3, SameIntents, ExtendsItself DEF EditFile
<1>12. CASE UNCHANGED vars
  BY <1>1, <1>12 DEF vars
<1> QED
  BY <1>2, <1>3, <1>4, <1>5, <1>6, <1>7, <1>8, <1>9, <1>10, <1>11, <1>12
  DEF Next, Program, Recover, Mutate, Reconcile

\* What is committed for a task is a ledger.
LEMMA CommittedType ==
    ASSUME Inductive, NEW t \in Tasks
    PROVE  Committed(t, "ledger") \in Seq(Event)
<1>1. CASE intents = {}
  BY <1>1, CommittedIs, LedgerTypes DEF Inductive, Ledger
<1>2. ASSUME NEW x \in intents PROVE Committed(t, "ledger") \in Seq(Event)
  <2>1. TypeOK /\ Directories /\ IsPlan(x) /\ Ledger(t) \in Seq(Event)
    BY LedgerTypes DEF Inductive, TypeOK
  <2>2. CASE t \in x.tasks
    <3>1. x.before[<<t, "ledger">>] \in Seq(Event)
      BY <2>1, <2>2, LedgerTypes
    <3> QED
      BY <2>1, <2>2, <3>1, CommittedIs
  <2>3. CASE t \notin x.tasks
    BY <2>1, <2>3, CommittedIs DEF Ledger
  <2> QED
    BY <2>2, <2>3
<1> QED
  BY <1>1, <1>2

\* No committed event is ever lost again, whatever fails, crashes or is
\* written outside of the board lock.
THEOREM HistorySurvives == Spec => CommittedHistorySurvives
<1> DEFINE Kept == \A t \in Tasks :
              LET old == Committed(t, "ledger") new == Committed(t, "ledger")'
              IN Len(old) <= Len(new) /\ SubSeq(new, 1, Len(old)) = old
<1>1. Inductive => \A t \in Tasks : Committed(t, "ledger") \in Seq(Event)
  BY CommittedType
<1>2. (Inductive => \A t \in Tasks : Committed(t, "ledger") \in Seq(Event))'
  BY <1>1, PTL
<1>3. ASSUME Inductive, History, Inductive', [Next]_vars PROVE Kept
  BY <1>1, <1>2, <1>3, StepSurvives, ExtendsIsPrefix
<1>4. Inductive /\ History /\ Inductive' /\ [Next]_vars => [Kept]_vars
  BY <1>3
<1> QED
  BY <1>4, AlwaysHistory, PTL DEF Spec, CommittedHistorySurvives

---------------------------------------------------------------------------
(* The refinement, on a board that nobody writes outside of the lock *)

Alone == Editable = {} /\ Reconcilers = {}

Parts == {"task", "ledger"}

\* A step that a reader of the board does not see.
Stutters == \A t \in Tasks : \A part \in Parts : Committed(t, part)' = Committed(t, part)

\* A step that makes the after-images of the intent x the board's state.
TakesEffect(x) ==
    /\ x.tasks \subseteq Tasks
    /\ Chained(x)
    /\ \A t \in Tasks : \A part \in Parts :
          IF t \in x.tasks
          THEN /\ Committed(t, part) = x.before[<<t, part>>]
               /\ Committed(t, part)' = x.after[<<t, part>>]
          ELSE Committed(t, part)' = Committed(t, part)

\* Images of an intent that goes, all of one side.
LEMMA IntentEnds ==
    ASSUME Inductive, History, UNCHANGED disk, NEW x \in intents, intents' = intents \ {x}
    PROVE  /\ (\A q \in Paths(x.tasks) : disk[q] = x.before[q]) => Stutters
           /\ (\A q \in Paths(x.tasks) : disk[q] = x.after[q]) => TakesEffect(x)
<1>1. TypeOK /\ Directories /\ x.tasks \subseteq Tasks /\ Chained(x)
  BY DEF Inductive, TypeOK, IsPlan, History
<1>2. intents' = {}
  BY <1>1, CommittedIs
<1>3. \A t \in Tasks : \A part \in Parts : Committed(t, part)' = disk[<<t, part>>]
  BY <1>2 DEF Committed, Covered
<1>4. \A t \in Tasks : \A part \in Parts :
          /\ t \in x.tasks => Committed(t, part) = x.before[<<t, part>>]
          /\ t \notin x.tasks => Committed(t, part) = disk[<<t, part>>]
  BY <1>1, CommittedIs
<1>5. \A t \in x.tasks : \A part \in Parts : <<t, part>> \in Paths(x.tasks)
  BY PathFacts DEF Parts
<1> QED
  BY <1>1, <1>3, <1>4, <1>5 DEF Stutters, TakesEffect

\* Every step is a commit of one call, or is not seen.
LEMMA StepCommits ==
    ASSUME Alone, Inductive, History, [Next]_vars
    PROVE  Stutters \/ \E x \in intents : TakesEffect(x)
<1> USE DEF disks, locks, locals
<1>0. TypeOK /\ Directories /\ LedgerSpeaks /\ foreign = {}
  <2>1. \A t \in Tasks : ~WrittenOutside(t)
    BY DEF Alone, WrittenOutside
  <2> QED
    BY <2>1 DEF Inductive, Images, History, TypeOK
<1>1. ASSUME UNCHANGED <<disk, intents>> PROVE Stutters
  BY <1>1 DEF Stutters, Committed, Covered
<1>2. ASSUME NEW p \in Procs,
             \/ Invoke(p) \/ AcquireBoard(p) \/ DiscardStaging(p) \/ RefuseRecovery(p)
             \/ BeginRestore(p) \/ EndRecovery(p) \/ RefuseBinding(p) \/ LockTask(p)
             \/ LockTimeout(p) \/ Refuse(p) \/ MakePlan(p) \/ CheckIdentity(p)
             \/ FaultBeforeIntent(p) \/ FaultAfterIntent(p) \/ ReconcileStart(p)
             \/ ReconcileAgrees(p) \/ ReconcilePrepare(p) \/ Crash(p)
      PROVE  Stutters
  BY <1>1, <1>2
  DEF Invoke, AcquireBoard, DiscardStaging, RefuseRecovery, BeginRestore, EndRecovery,
      RefuseBinding, LockTask, LockTimeout, Refuse, MakePlan, CheckIdentity,
      FaultBeforeIntent, FaultAfterIntent, ReconcileStart, ReconcileAgrees,
      ReconcilePrepare, Crash
<1>3. ASSUME NEW p \in Procs, KeepActivated(p) PROVE \E x \in intents : TakesEffect(x)
  <2>1. PICK x \in intents : FullyActivated(x) /\ intents' = intents \ {x}
    BY <1>3 DEF KeepActivated
  <2>2. \A q \in Paths(x.tasks) : disk[q] = x.after[q]
    BY <2>1 DEF FullyActivated, PathState
  <2> QED
    BY <1>3, <2>1, <2>2, IntentEnds DEF KeepActivated
<1>4. ASSUME NEW p \in Procs, EndRestore(p) \/ EndUndo(p) PROVE Stutters
  <2>1. /\ pc[p] \in {"restore", "undo"} /\ done[p] = Paths(plan[p].tasks)
        /\ intents' = intents \ {plan[p]} /\ UNCHANGED disk
    BY <1>4 DEF EndRestore, EndUndo
  <2>2. plan[p] \in intents
    BY <2>1 DEF Inductive, Relies
  <2>3. \A q \in Paths(plan[p].tasks) : disk[q] = plan[p].before[q]
    BY <1>0, <2>1 DEF Inductive, Relies, Holds
  <2> QED
    BY <2>1, <2>2, <2>3, IntentEnds
<1>5. ASSUME NEW p \in Procs, Complete(p) PROVE \E x \in intents : TakesEffect(x)
  <2>1. /\ pc[p] = "activate" /\ done[p] = Paths(plan[p].tasks)
        /\ intents' = intents \ {plan[p]} /\ UNCHANGED disk
    BY <1>5 DEF Complete
  <2>2. plan[p] \in intents
    BY <2>1 DEF Inductive, Relies
  <2>3. \A q \in Paths(plan[p].tasks) : disk[q] = plan[p].after[q]
    BY <1>0, <2>1 DEF Inductive, Relies, Holds
  <2> QED
    BY <2>1, <2>2, <2>3, IntentEnds
<1>6. ASSUME NEW p \in Procs, PublishIntent(p) PROVE Stutters
  <2>1. /\ pc[p] = "staged" /\ UNCHANGED disk /\ intents' = intents \cup {plan[p]}
    BY <1>6 DEF PublishIntent
  <2>2. intents = {} /\ \A q \in Paths(plan[p].tasks) : disk[q] = plan[p].before[q]
    BY <1>0, <2>1 DEF Inductive, Relies, Holds
  <2>3. PICK x : x = plan[p]
    OBVIOUS
  <2>4. intents' = {x}
    BY <2>1, <2>2, <2>3
  <2> SUFFICES ASSUME NEW t \in Tasks, NEW part \in Parts
               PROVE  Committed(t, part)' = Committed(t, part)
    BY DEF Stutters
  <2>5. Committed(t, part) = disk[<<t, part>>]
    BY <1>0, <2>2, CommittedIs
  <2>6. t \in x.tasks => /\ (CHOOSE y \in intents' : t \in y.tasks) = x
                         /\ x.before[<<t, part>>] = disk[<<t, part>>]
    BY <2>2, <2>3, <2>4, PathFacts DEF Parts
  <2>7. Covered(t)' <=> t \in x.tasks
    BY <2>4 DEF Covered
  <2> QED
    BY <2>1, <2>5, <2>6, <2>7 DEF Committed
<1>7. ASSUME NEW p \in Procs, RestorePath(p) \/ Activate(p) PROVE Stutters
  <2>1. PICK q \in Paths(plan[p].tasks) :
               \E image \in {plan[p].before[q], plan[p].after[q]} :
                  disk' = [disk EXCEPT ![q] = image]
    BY <1>7 DEF RestorePath, Activate
  <2>2. plan[p] \in intents /\ UNCHANGED intents
    BY <1>7 DEF Inductive, Relies, RestorePath, Activate
  <2> SUFFICES ASSUME NEW t \in Tasks, NEW part \in Parts
               PROVE  Committed(t, part)' = Committed(t, part)
    BY DEF Stutters
  <2>3. CASE t \in plan[p].tasks
    BY <2>2, <2>3 DEF Committed, Covered
  <2>4. CASE t \notin plan[p].tasks
    <3>1. q[1] \in plan[p].tasks
      BY PathFacts
    <3>2. <<t, part>> \in Paths(Tasks)
      BY PathFacts DEF Parts
    <3>3. disk'[<<t, part>>] = disk[<<t, part>>]
      BY <1>0, <2>1, <2>4, <3>1, <3>2 DEF TypeOK, AreImages
    <3> QED
      BY <2>2, <3>3 DEF Committed, Covered
  <2> QED
    BY <2>3, <2>4
<1>8. ASSUME NEW p \in Procs, Read(p) PROVE Stutters
  <2>1. pc[p] = "read" /\ intents = {} /\ job[p].tasks \subseteq Tasks
    BY <1>0, <1>8 DEF Read, Inductive, Relies, TypeOK, IsJob
  <2>2. \A t \in job[p].tasks : ~NeedsReconcile(t)
    BY <1>0, <2>1 DEF NeedsReconcile, LedgerSpeaks, Covered, Agrees
  <2>3. \A q \in Paths(Tasks) : disk'[q] = disk[q]
    BY <1>8, <2>2 DEF Read
  <2>4. \A t \in Tasks : \A part \in Parts : <<t, part>> \in Paths(Tasks)
    BY PathFacts DEF Parts
  <2> QED
    BY <1>8, <2>3, <2>4 DEF Read, Stutters, Committed, Covered
<1>9. ASSUME NEW p \in Procs, ReconcileAppend(p) PROVE FALSE
  BY <1>9 DEF ReconcileAppend, History, Knows, Alone
<1>10. CASE MoveHead
  BY <1>1, <1>10 DEF MoveHead
<1>11. ASSUME NEW u \in Tasks, EditFile(u) PROVE FALSE
  BY <1>11 DEF EditFile, Alone
<1>12. CASE UNCHANGED vars
  BY <1>1, <1>12 DEF vars
<1> QED
  BY <1>2, <1>3, <1>4, <1>5, <1>6, <1>7, <1>8, <1>9, <1>10, <1>11, <1>12
  DEF Next, Program, Recover, Mutate, Reconcile

---------------------------------------------------------------------------
(* AtomicBoard, under the mapping of BoardStore *)

LEMMA InitAtomic == Init => Atomic!Init
<1> SUFFICES ASSUME Init PROVE Atomic!Init
  OBVIOUS
<1> DEFINE Made(made, c) ==
        disk = [q \in Paths(Tasks) |->
                    IF q[2] = "task"
                    THEN IF q[1] \in made THEN c[q[1]] ELSE None
                    ELSE IF q[1] \in made
                         THEN << [op |-> "create", before |-> None, after |-> c[q[1]]] >>
                         ELSE <<>>]
<1> PICK made \in SUBSET Tasks : \E c \in [made -> Contents] : Made(made, c)
  BY DEF Init
<1> PICK c \in [made -> Contents] : Made(made, c)
  OBVIOUS
<1>1. \A t \in Tasks :
          /\ Committed(t, "task") = IF t \in made THEN c[t] ELSE None
          /\ Committed(t, "ledger") =
                IF t \in made
                THEN << [op |-> "create", before |-> None, after |-> c[t]] >>
                ELSE <<>>
  <2>1. \A t, part : Committed(t, part) = disk[<<t, part>>]
    BY DEF Init, Committed, Covered
  <2> QED
    BY <2>1, PathFacts
<1> DEFINE file == [t \in Tasks |-> Committed(t, "task")]
           log == [t \in Tasks |-> Committed(t, "ledger")]
<1>2. file \in [Tasks -> Contents \cup {None}]
  BY <1>1
<1>3. \A t \in Tasks : file[t] # None <=> t \in made
  BY <1>1, ContentsAssumption
<1>4. log = [t \in Tasks |->
               IF t \in made
               THEN << [op |-> "create", before |-> None, after |-> file[t]] >>
               ELSE <<>>]
  BY <1>1
<1> QED
  BY <1>2, <1>3, <1>4 DEF Atomic!Init

LEMMA CommitAtomic ==
    ASSUME Alone, Inductive, NEW x \in intents, TakesEffect(x)
    PROVE  \/ Atomic!Next
           \/ Stutters
<1>1. PICK kind \in Kinds : \A t \in x.tasks : Commits(x, kind, t)
  BY DEF TakesEffect, Chained, Alone
<1>2. CASE x.tasks = {}
  BY <1>2 DEF TakesEffect, Stutters
<1>3. CASE x.tasks # {}
  <2> DEFINE S == x.tasks
             new == [t \in S |-> x.after[<<t, "task">>]]
  <2>1. S \in (SUBSET Tasks) \ {{}}
    BY <1>3 DEF TakesEffect
  <2>2. new \in [S -> Contents \cup {None}]
    <3>1. \A t \in S : <<t, "task">> \in Paths(S) /\ <<t, "task">>[2] = "task"
      BY PathFacts
    <3>2. \A t \in S : x.after[<<t, "task">>] \in Contents \cup {None}
      BY <3>1 DEF Inductive, TypeOK, IsPlan, AreImages
    <3> QED
      BY <3>2
  <2>3. \A t \in S :
            /\ new[t] # Committed(t, "task")
            /\ Committed(t, "task") = None <=> kind = "create"
            /\ new[t] = None <=> kind = "delete"
            /\ Committed(t, "task")' = new[t]
            /\ Committed(t, "ledger")' =
                  Append(Committed(t, "ledger"),
                         [op |-> kind, before |-> Committed(t, "task"),
                          after |-> IF new[t] = None THEN Tombstone ELSE new[t]])
    BY <1>1, <2>1 DEF TakesEffect, Commits, Parts
  <2>4. \A t \in Tasks \ S : /\ Committed(t, "task")' = Committed(t, "task")
                             /\ Committed(t, "ledger")' = Committed(t, "ledger")
    BY DEF TakesEffect, Parts
  <2>5. Atomic!Commit(kind, S)
    BY <2>1, <2>2, <2>3, <2>4 DEF Atomic!Commit, Atomic!EventFor
  <2> QED
    BY <2>1, <2>5 DEF Atomic!Next
<1> QED
  BY <1>2, <1>3

\* A board that nobody writes outside of the board lock is atomic: every call
\* takes effect on all of its tasks in one step or not at all, through
\* crashes, failed activations and recoveries.
THEOREM BoardIsAtomic ==
    ASSUME Editable = {}, Reconcilers = {}
    PROVE  Spec => ImplementsAtomicBoard
<1>1. Stutters => UNCHANGED <<[t \in Tasks |-> Committed(t, "task")],
                              [t \in Tasks |-> Committed(t, "ledger")]>>
  BY DEF Stutters, Parts
<1>2. Inductive /\ History /\ [Next]_vars =>
          [Atomic!Next]_<<[t \in Tasks |-> Committed(t, "task")],
                          [t \in Tasks |-> Committed(t, "ledger")]>>
  BY <1>1, StepCommits, CommitAtomic DEF Alone
<1> QED
  BY <1>2, InitAtomic, AlwaysHistory, PTL DEF Spec, ImplementsAtomicBoard, Atomic!Spec

=============================================================================
