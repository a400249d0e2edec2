---------------------------- MODULE ArchiveProofs ----------------------------
(***************************************************************************)
(* A task that no two processes worked on at once is in exactly one tier   *)
(* whenever nothing is moved or frozen; Git's HEAD holds what a freeze     *)
(* covers; a committed pack stays.  For any tasks and writers, under every *)
(* failure, interrupt and kill of Archive.                                 *)
(***************************************************************************)
EXTENDS Archive, FiniteSetTheorems, TLAPS

---------------------------------------------------------------------------
(* The inductive invariant *)

Packs == [by : {"pack", "record"}, records : Records, whole : BOOLEAN]

Undoing == {"undoing", "undoing copy"}
Recovering == {"restored", "cleared"}

Types ==
    /\ hot \in [Tasks -> Versions \cup {None}] /\ acked \in [Tasks -> Versions]
    /\ packs \subseteq Packs
    /\ head \in Nat /\ tree = [hot |-> tree.hot, packs |-> tree.packs]
    /\ tree.hot \in [Tasks -> Versions \cup {None}]
    /\ freeze \in Markers \cup {None} /\ stage \in Records \cup {None}
    /\ plan \in ReviewedPlans \cup {None}
    /\ writer \in [Writers -> Tasks \cup {None}]
    /\ mover \in Moves \cup {None}
    /\ step \in {"idle", "examined"} \cup BeforeCommit \cup AfterCommit \cup Undoing \cup Recovering

\* What the owner of the lock has on the disk: staging directory and marker.
Owned ==
    /\ freeze # None /\ stage # None => stage = freeze.records
    /\ step = "examined" => freeze = None /\ stage # None /\ plan # None
    /\ step \in BeforeCommit \cup AfterCommit \cup Undoing \cup {"restored"} => freeze # None /\ stage # None
    /\ step = "cleared" => freeze # None
    /\ step = "idle" /\ freeze = None => stage = None
    /\ step \in BeforeCommit \cup {"committed"} \cup Undoing \cup Recovering => Uncommitted
    /\ step \in {"recorded", "verified"} => ~Uncommitted

\* The selected tasks, with what was read of them.
Selected == IF freeze # None THEN freeze.records ELSE stage
Own == Pack("pack", Selected, TRUE)

\* Where a task is that nobody moves,
Rests(t) ==
    IF hot[t] # None THEN hot[t] = acked[t] /\ Holding(t) = {}
    ELSE \E k \in packs : Holding(t) = {k} /\ k.records[t] = acked[t]
\* that record archive moves,
Recorded(t) ==
    /\ hot[t] = mover.version /\ acked[t] = mover.version
    /\ Holding(t) = IF mover.at = "published" THEN {MoverPack(TRUE)} ELSE {}
\* and that archive-pack moves, or died moving.
Transferred(t) ==
    /\ Selected[t] = acked[t]
    /\ step \in {"examined", "frozen", "activating", "copying", "copied", "cleared", "restored"} \cup Undoing =>
          hot[t] = acked[t]
    /\ step \in {"examined", "frozen", "activating", "copying", "undoing copy", "cleared"} => Holding(t) = {}
    /\ step \in {"copied", "unlinked"} \cup AfterCommit => Holding(t) = {Own}
    /\ step \in {"unlinked"} \cup AfterCommit => hot[t] = None
    /\ Holding(t) \subseteq {Own}
    /\ freeze # None /\ ~Uncommitted => hot[t] = None /\ Holding(t) = {Own}

Placed(t) ==
    IF mover # None /\ mover.task = t THEN Recorded(t)
    ELSE IF t \in Moving THEN Transferred(t)
    ELSE Rests(t)

\* Each task that was not raced is where it should be.
Tiers ==
    /\ mover # None /\ mover.task \in Moving => mover.task \in raced
    /\ \A t \in Tasks \ raced : Placed(t)

\* What HEAD holds of the selected tasks.
HeadHolds ==
    \A t \in Moving \ raced :
        \/ tree.hot[t] = acked[t]
        \/ freeze # None /\ Own \in tree.packs

\* A pack of the transaction under way is not committed before HEAD has moved.
NotCommitted == \A k \in tree.packs : ~(k.by = "pack" /\ k.records = Selected)

\* HEAD as the plan and the marker know it.
Heads ==
    /\ plan # None => plan.head <= head
    /\ freeze # None => freeze.source <= head
    /\ freeze # None /\ step \in AfterCommit => freeze.source < head

Committed ==
    /\ \A k \in tree.packs : k.by = "pack" => k \in packs
    /\ plan # None => DOMAIN plan.records \cap plan.cold = {}
    /\ step = "examined" => \A k \in packs : ~(k.by = "pack" /\ k.records = stage)
    /\ step \in BeforeCommit \cup Undoing \cup Recovering => NotCommitted
    /\ step = "idle" /\ freeze # None /\ Uncommitted /\ head = freeze.source => NotCommitted
    /\ step \in {"copied", "unlinked"} => Own \in packs

ArchiveInv == Types /\ Owned /\ Heads /\ Committed /\ Tiers /\ HeadHolds

---------------------------------------------------------------------------
(* Types *)

LEMMA NoneIsNothing ==
    /\ \A v \in Versions : v # None /\ v \in Nat
    /\ \A r \in Records : r # None
    /\ \A f \in Markers : f # None
    /\ \A p \in ReviewedPlans : p # None
    /\ \A m \in Moves : m # None
    /\ \A t \in Tasks : t # None
BY NoneAssumption, BoundsAssumption DEF Versions

\* What a partial board holds.
LEMMA RecordsHold ==
    ASSUME NEW r \in Records
    PROVE  DOMAIN r \subseteq Tasks /\ r \in [DOMAIN r -> Versions]
BY DEF Records

LEMMA RecordsAre == \A S \in SUBSET Tasks : \A r \in [S -> Versions] : r \in Records
BY DEF Records

LEMMA RestoredIsTyped ==
    ASSUME Types, NEW r \in Records
    PROVE  Restored(r) \in [Tasks -> Versions \cup {None}]
BY RecordsHold DEF Restored, Types

\* The packs that either move writes.
LEMMA PacksAreTyped ==
    ASSUME NEW r \in Records, NEW w \in BOOLEAN
    PROVE  Pack("pack", r, w) \in Packs /\ Pack("record", r, w) \in Packs
BY DEF Pack, Packs

LEMMA MoverPackIsTyped ==
    ASSUME Types, mover # None, NEW w \in BOOLEAN
    PROVE  MoverPack(w) \in Packs
<1>1. mover \in Moves /\ mover.task \in Tasks /\ mover.version \in Versions
    BY DEF Types, Moves
<1>2. [t \in {mover.task} |-> mover.version] \in Records
    BY <1>1, RecordsAre
<1> QED
    BY <1>2, PacksAreTyped DEF MoverPack

LEMMA TypesStart == Init => Types
<1> SUFFICES ASSUME Init PROVE Types
    OBVIOUS
<1>1. 0 \in Versions
    BY BoundsAssumption DEF Versions
<1> QED
    BY <1>1 DEF Init, Types

LEMMA TypesKeep == Types /\ Owned /\ [Next]_vars => Types'
<1> SUFFICES ASSUME Types, Owned, [Next]_vars PROVE Types'
    OBVIOUS
<1> USE NoneIsNothing
<1>1. ASSUME NEW w \in Writers, StartWrite(w) PROVE Types'
    BY <1>1 DEF StartWrite, Types, worktree, git, owner
<1>2. ASSUME NEW w \in Writers, Write(w) PROVE Types'
  <2>1. writer[w] \in Tasks
      BY <1>2 DEF Write, Types
  <2>2. CASE hot[writer[w]] = None
      BY <1>2, <2>2 DEF Write, Types, git, owner
  <2>3. CASE hot[writer[w]] # None
    <3>1. hot[writer[w]] \in Versions /\ hot[writer[w]] + 1 \in Versions
        BY <1>2, <2>1, <2>3, BoundsAssumption DEF Write, Types, Versions
    <3>2. hot' \in [Tasks -> Versions \cup {None}] /\ hot'[writer[w]] \in Versions
        BY <1>2, <2>1, <2>3, <3>1 DEF Write, Types
    <3> QED
        BY <1>2, <2>1, <2>3, <3>2 DEF Write, Types, git, owner
  <2> QED
      BY <2>2, <2>3
<1>3. CASE CommitWork
    BY <1>3 DEF CommitWork, Types, worktree, owner
<1>4. CASE MakePlan
  <2>1. PICK S \in SUBSET {t \in Tasks \ Cold : hot[t] # None} :
            plan' = [records |-> Snapshot(S), head |-> head, cold |-> Cold]
      BY <1>4 DEF MakePlan
  <2>2. Snapshot(S) \in Records
      BY <2>1, RecordsAre DEF Snapshot, Types
  <2>3. Cold \subseteq Tasks
      BY RecordsHold DEF Cold, Types, Packs
  <2>4. plan' \in ReviewedPlans
      BY <2>1, <2>2, <2>3 DEF ReviewedPlans, Types
  <2> QED
      BY <1>4, <2>4 DEF MakePlan, Types, worktree, git, owner
<1>5. CASE Examine
    BY <1>5 DEF Examine, Types, worktree, git, ReviewedPlans
<1>6. CASE Freeze
    BY <1>6 DEF Freeze, Types, Owned, worktree, git, Markers, ReviewedPlans, BeforeCommit
<1>7. CASE Verify
    BY <1>7 DEF Verify, Continue, Types, Owned, worktree, git, Markers, BeforeCommit
<1>8. CASE CopySome
  <2>1. Pack("pack", Packed, FALSE) \in Packs
      BY <1>8, PacksAreTyped DEF CopySome, Continue, Types, Owned, BeforeCommit, Markers, Packed
  <2> QED
      BY <1>8, <2>1 DEF CopySome, Continue, Types, git, BeforeCommit
<1>9. CASE CopyRest
  <2>1. Pack("pack", Packed, TRUE) \in Packs
      BY <1>9, PacksAreTyped DEF CopyRest, Continue, Types, Owned, BeforeCommit, Markers, Packed
  <2> QED
      BY <1>9, <2>1 DEF CopyRest, Continue, Types, git, BeforeCommit
<1>10. CASE UnlinkHot
    BY <1>10 DEF UnlinkHot, Continue, Types, git, BeforeCommit, Removed
<1>11. CASE Commit
    BY <1>11 DEF Commit, Continue, Types, worktree, AfterCommit, Removed
<1>12. CASE RecordCommit
    BY <1>12 DEF RecordCommit, Continue, Types, Owned, worktree, git, Markers, AfterCommit
<1>13. CASE Inspect
    BY <1>13 DEF Inspect, Continue, Types, Owned, worktree, git, Markers, AfterCommit
<1>14. CASE Unfreeze
    BY <1>14 DEF Unfreeze, Continue, Types, worktree, git
<1>15. CASE Rollback
    BY <1>15, RestoredIsTyped DEF Rollback, Types, Owned, git, Undoing
<1>16. CASE EndRollback
    BY <1>16 DEF EndRollback, Types, git
<1>17. CASE Fail
    BY <1>17 DEF Fail, Types, worktree, git
<1>18. CASE Interrupt
    BY <1>18 DEF Interrupt, Types, worktree, git
<1>19. CASE Kill
    BY <1>19 DEF Kill, Types, worktree, git
<1>20. CASE RecoverHot
    BY <1>20, RestoredIsTyped DEF RecoverHot, CanUndo, Types, git, Recovering
<1>21. CASE RecoverPacks
    BY <1>21 DEF RecoverPacks, Continue, Types, git, Recovering
<1>22. CASE EndRecovery
    BY <1>22 DEF EndRecovery, Continue, Types, worktree, git
<1>23. CASE RecoverCommitted
    BY <1>23 DEF RecoverCommitted, Types, worktree, git
<1>24. CASE MoveStart
    BY <1>24 DEF MoveStart, Types, worktree, git, owner, Moves
<1>25. CASE PublishSome
  <2>1. mover' \in Moves /\ mover'.at = "publishing"
      BY <1>25 DEF PublishSome, MoveTo, Types, Moves
  <2> QED
      BY <1>25, <2>1, MoverPackIsTyped DEF PublishSome, MoveTo, Types, git, owner
<1>26. CASE Publish
  <2>1. mover' \in Moves /\ mover'.at = "published"
      BY <1>26 DEF Publish, MoveTo, Types, Moves
  <2> QED
      BY <1>26, <2>1, MoverPackIsTyped DEF Publish, MoveTo, Types, git, owner
<1>27. CASE RemoveHot
    BY <1>27 DEF RemoveHot, Types, git, owner, Removed
<1>28. CASE MoveFail
    BY <1>28 DEF MoveFail, Types, git, owner, Moves
<1>29. CASE MoveKill
    BY <1>29 DEF MoveKill, Types, worktree, git, owner
<1>30. CASE UNCHANGED vars
    BY <1>30 DEF vars, Types
<1> QED
    BY <1>1, <1>2, <1>3, <1>4, <1>5, <1>6, <1>7, <1>8, <1>9, <1>10, <1>11, <1>12, <1>13, <1>14,
       <1>15, <1>16, <1>17, <1>18, <1>19, <1>20, <1>21, <1>22, <1>23, <1>24, <1>25, <1>26, <1>27,
       <1>28, <1>29, <1>30 DEF Next

---------------------------------------------------------------------------
(* The owner's lock, directory and marker *)

LEMMA OwnedStarts == Init => Owned
BY DEF Init, Owned, BeforeCommit, AfterCommit, Undoing, Recovering

LEMMA OwnedKeeps == Types /\ Owned /\ [Next]_vars => Owned'
<1> SUFFICES ASSUME Types, Owned, [Next]_vars PROVE Owned'
    OBVIOUS
<1> USE NoneIsNothing DEF Owned, BeforeCommit, AfterCommit, Undoing, Recovering, Uncommitted
<1>1. ASSUME UNCHANGED owner, plan' = plan \/ step = "idle" PROVE Owned'
    BY <1>1 DEF owner
<1>2. CASE Examine
    BY <1>2 DEF Examine, Types, ReviewedPlans
<1>3. CASE Freeze
  <2>1. freeze' \in Markers
      BY <1>3 DEF Freeze, Types, Markers, ReviewedPlans
  <2> QED
      BY <1>3, <2>1 DEF Freeze
<1>4. CASE Verify
    BY <1>4 DEF Verify, Continue, Types, Markers
<1>5. CASE CopySome \/ CopyRest \/ UnlinkHot \/ Commit
    BY <1>5 DEF CopySome, CopyRest, UnlinkHot, Commit, Continue
<1>6. CASE RecordCommit
    BY <1>6 DEF RecordCommit, Continue, Types, Markers
<1>7. CASE Inspect
    BY <1>7 DEF Inspect, Continue, Types, Markers
<1>8. CASE Unfreeze
    BY <1>8 DEF Unfreeze, Continue
<1>9. CASE Rollback \/ EndRollback
    BY <1>9 DEF Rollback, EndRollback
<1>10. CASE Fail \/ Interrupt \/ Kill
    BY <1>10 DEF Fail, Interrupt, Kill
<1>11. CASE RecoverHot \/ RecoverPacks
    BY <1>11 DEF RecoverHot, CanUndo, RecoverPacks, Continue
<1>12. CASE EndRecovery \/ RecoverCommitted
    BY <1>12 DEF EndRecovery, RecoverCommitted, Continue
<1>13. CASE MakePlan
    BY <1>1, <1>13 DEF MakePlan
<1>14. CASE CommitWork \/ \E w \in Writers : StartWrite(w) \/ Write(w)
    BY <1>1, <1>14 DEF CommitWork, StartWrite, Write
<1>15. CASE MoveStart \/ PublishSome \/ Publish \/ RemoveHot \/ MoveFail \/ MoveKill
    BY <1>1, <1>15 DEF MoveStart, PublishSome, Publish, RemoveHot, MoveFail, MoveKill
<1>16. CASE UNCHANGED vars
    BY <1>1, <1>16 DEF vars, owner
<1> QED
    BY <1>2, <1>3, <1>4, <1>5, <1>6, <1>7, <1>8, <1>9, <1>10, <1>11, <1>12, <1>13, <1>14, <1>15,
       <1>16 DEF Next

---------------------------------------------------------------------------
(* Committed packs *)

\* While the board is frozen the selection stays, and only Commit moves HEAD.
LEMMA CommittedStarts == Init => Committed /\ Heads
BY DEF Init, Committed, Heads, BeforeCommit, AfterCommit, Undoing, Recovering

LEMMA MoverPackIsRecord == \A w \in BOOLEAN : MoverPack(w).by = "record"
BY DEF MoverPack, Pack

LEMMA OwnPacksAre ==
    ASSUME freeze # None
    PROVE  /\ \A k \in OwnPacks : k.by = "pack" /\ k.records = Selected
           /\ Own \in OwnPacks /\ Pack("pack", Packed, TRUE) = Own
<1>1. Selected = Packed
    BY DEF Selected, Packed
<1>2. Own = Pack("pack", Packed, TRUE)
    BY <1>1 DEF Own
<1>3. Own \in OwnPacks
    BY <1>2 DEF OwnPacks
<1>4. ASSUME NEW k \in OwnPacks PROVE k.by = "pack" /\ k.records = Packed
    BY DEF OwnPacks, Pack
<1> QED
    BY <1>1, <1>2, <1>3, <1>4

\* HEAD only grows, and not while the board is frozen, but for the commit.
LEMMA HeadsKeep == Types /\ Owned /\ Heads /\ [Next]_vars => Heads'
<1> SUFFICES ASSUME Types, Owned, Heads, [Next]_vars PROVE Heads'
    OBVIOUS
<1> USE NoneIsNothing DEF Heads, AfterCommit
<1>1. /\ head \in Nat
      /\ freeze # None => freeze.source \in Nat
      /\ plan # None => plan.head \in Nat
    BY DEF Types, Markers, ReviewedPlans
<1>2. CASE CommitWork
    BY <1>1, <1>2 DEF CommitWork, owner
<1>3. CASE Commit
    BY <1>1, <1>3 DEF Commit, Continue
<1>4. CASE MakePlan
    BY <1>1, <1>4 DEF MakePlan, git, owner
<1>5. CASE Freeze
  <2>1. freeze' \in Markers
      BY <1>5 DEF Freeze, Types, Owned, Markers, ReviewedPlans
  <2> QED
      BY <1>5, <2>1 DEF Freeze, Owned, git
<1>6. ASSUME UNCHANGED <<head, plan>>, step' \in AfterCommit => step \in AfterCommit,
             \/ freeze' = None
             \/ freeze # None /\ freeze'.source = freeze.source
      PROVE  Heads'
    BY <1>6
<1>7. CASE Examine \/ CopySome \/ CopyRest \/ UnlinkHot
    BY <1>6, <1>7 DEF Examine, CopySome, CopyRest, UnlinkHot, Continue, git
<1>8. CASE Verify \/ RecordCommit \/ Inspect
  <2>1. freeze # None /\ freeze \in Markers
      BY <1>8 DEF Verify, RecordCommit, Inspect, Continue, Owned, Types, BeforeCommit
  <2>2. freeze'.source = freeze.source
      BY <1>8, <2>1 DEF Verify, RecordCommit, Inspect, Markers
  <2>3. UNCHANGED <<head, plan>> /\ (step' \in AfterCommit => step \in AfterCommit)
      BY <1>8 DEF Verify, RecordCommit, Inspect, Continue, git
  <2> QED
      BY <1>6, <2>1, <2>2, <2>3
<1>9. CASE Rollback \/ EndRollback \/ Fail \/ Interrupt \/ Kill
    BY <1>6, <1>9 DEF Rollback, EndRollback, Fail, Interrupt, Kill, git
<1>10. CASE RecoverHot \/ RecoverPacks \/ EndRecovery \/ RecoverCommitted \/ Unfreeze
    BY <1>6, <1>10 DEF RecoverHot, RecoverPacks, EndRecovery, RecoverCommitted, Unfreeze, Continue, git
<1>11. CASE MoveStart \/ PublishSome \/ Publish \/ RemoveHot \/ MoveFail \/ MoveKill
    BY <1>6, <1>11 DEF MoveStart, PublishSome, Publish, RemoveHot, MoveFail, MoveKill, owner, git
<1>12. CASE \E w \in Writers : StartWrite(w) \/ Write(w)
    BY <1>6, <1>12 DEF StartWrite, Write, owner, git
<1>13. CASE UNCHANGED vars
    BY <1>6, <1>13 DEF vars
<1> QED
    BY <1>2, <1>3, <1>4, <1>5, <1>7, <1>8, <1>9, <1>10, <1>11, <1>12, <1>13 DEF Next

LEMMA HeadMoved ==
    ASSUME Types, Heads
    PROVE  freeze # None /\ step \in AfterCommit => freeze.source # head
<1>1. head \in Nat /\ (freeze # None => freeze.source \in Nat)
    BY DEF Types, Markers
<1> QED
    BY <1>1 DEF Heads

LEMMA CommittedKeeps == Types /\ Owned /\ Heads /\ Committed /\ [Next]_vars => Committed'
<1> SUFFICES ASSUME Types, Owned, Heads, Committed, [Next]_vars PROVE Committed'
    OBVIOUS
<1> USE NoneIsNothing DEF Committed, BeforeCommit, AfterCommit, Undoing, Recovering
<1>1. freeze # None /\ step \in AfterCommit => freeze.source # head
    BY HeadMoved
<1>2. ASSUME UNCHANGED <<git, owner, plan>>,
             \A k \in packs : k.by = "pack" => k \in packs',
             \A k \in packs' : k.by = "pack" => k \in packs
      PROVE  Committed'
  <2>1. Selected' = Selected /\ Own' = Own /\ NotCommitted' = NotCommitted /\ Uncommitted' = Uncommitted
      BY <1>2 DEF git, owner, Selected, Own, Pack, NotCommitted, Uncommitted
  <2>2. Own.by = "pack"
      BY DEF Own, Pack
  <2> QED
      BY <1>2, <2>1, <2>2 DEF git, owner
<1>3. CASE CommitWork
  <2>1. freeze = None /\ step \in {"idle", "examined"}
      BY <1>3 DEF CommitWork, Owned, Types
  <2>2. UNCHANGED <<packs, freeze, stage, step, plan>> /\ tree'.packs = packs /\ head' = head + 1
      BY <1>3 DEF CommitWork, owner, worktree
  <2> QED
      BY <2>1, <2>2
<1>4. CASE MakePlan
  <2>1. PICK S \in SUBSET {t \in Tasks \ Cold : hot[t] # None} :
            plan' = [records |-> Snapshot(S), head |-> head, cold |-> Cold]
      BY <1>4 DEF MakePlan
  <2>2. DOMAIN plan'.records \cap plan'.cold = {}
      BY <2>1 DEF Snapshot
  <2>3. Selected' = Selected /\ NotCommitted' = NotCommitted /\ Uncommitted' = Uncommitted
      BY <1>4 DEF MakePlan, git, owner, Selected, NotCommitted, Uncommitted
  <2> QED
      BY <1>1, <1>4, <2>2, <2>3 DEF MakePlan, worktree, git, owner
<1>5. CASE Examine
  <2>1. DOMAIN plan.records \cap Cold = {} /\ DOMAIN plan.records # {}
      BY <1>5 DEF Examine, Fresh
  <2>2. \A k \in packs : DOMAIN k.records \subseteq Cold
      BY DEF Cold
  <2>3. \A k \in packs : k.records # plan.records
      BY <2>1, <2>2
  <2> QED
      BY <1>5, <2>3 DEF Examine, worktree, git
<1>6. CASE Freeze
  <2>1. freeze'.records = stage /\ freeze' # None /\ step' = "frozen"
    <3>1. freeze' \in Markers
        BY <1>6 DEF Freeze, Types, Owned, Markers, ReviewedPlans
    <3> QED
        BY <1>6, <3>1 DEF Freeze
  <2>2. NotCommitted'
      BY <1>6, <2>1 DEF Freeze, NotCommitted, Selected, git
  <2> QED
      BY <1>6, <2>1, <2>2 DEF Freeze, Owned, worktree, git
<1>7. ASSUME freeze # None, freeze' # None, freeze'.records = freeze.records,
             UNCHANGED <<git, plan>>,
             \A k \in tree.packs : k.by = "pack" => k \in packs',
             step' \in {"copied", "unlinked"} => Own \in packs',
             step' # "examined",
             \/ NotCommitted
             \/ step' \in AfterCommit
             \/ step' = "idle" /\ (freeze'.source # head \/ ~Uncommitted')
      PROVE  Committed'
  <2>1. Selected' = Selected /\ Own' = Own /\ NotCommitted' = NotCommitted
      BY <1>7 DEF git, Selected, Own, Pack, NotCommitted
  <2> QED
      BY <1>7, <2>1 DEF git
<1>8. CASE Verify
    BY <1>7, <1>8 DEF Verify, Continue, Types, Owned, Markers, worktree
<1>9. CASE CopySome
    BY <1>7, <1>9 DEF CopySome, Continue, Types, Owned
<1>10. CASE CopyRest
    BY <1>7, <1>10, OwnPacksAre DEF CopyRest, Continue, Types, Owned, NotCommitted
<1>11. CASE UnlinkHot
    BY <1>7, <1>11 DEF UnlinkHot, Continue, Types, Owned
<1>12. CASE Commit
  <2>1. freeze # None /\ Own \in packs /\ tree'.packs = tree.packs \cup {Own} /\ head' = head + 1
      BY <1>12, OwnPacksAre DEF Commit, Continue, Owned
  <2>2. UNCHANGED <<packs, freeze, stage, plan>> /\ step' = "committed"
      BY <1>12 DEF Commit, Continue, worktree
  <2> QED
      BY <2>1, <2>2
<1>13. CASE RecordCommit
    BY <1>7, <1>13 DEF RecordCommit, Continue, Types, Owned, Markers, worktree
<1>14. CASE Inspect
    BY <1>7, <1>14 DEF Inspect, Continue, Types, Owned, Markers, worktree
<1>15. CASE Rollback
    BY <1>7, <1>15 DEF Rollback, Types, Owned
<1>16. CASE RecoverHot
    BY <1>7, <1>16 DEF RecoverHot, CanUndo, Types, Owned
<1>17. CASE RecoverPacks
    BY <1>7, <1>17, OwnPacksAre DEF RecoverPacks, Continue, Types, Owned, NotCommitted
<1>18. CASE (Fail \/ Interrupt \/ Kill) /\ step # "examined"
    BY <1>1, <1>7, <1>18 DEF Fail, Interrupt, Kill, Types, Owned, worktree
<1>19. ASSUME freeze' = None, step' = "idle", UNCHANGED <<git, plan>>,
             \A k \in tree.packs : k.by = "pack" => k \in packs'
       PROVE Committed'
    BY <1>19 DEF git
<1>20. CASE (Fail \/ Interrupt \/ Kill) /\ step = "examined"
    BY <1>19, <1>20 DEF Fail, Interrupt, Kill, Owned, worktree
<1>21. CASE EndRollback
    BY <1>19, <1>21, OwnPacksAre DEF EndRollback, Owned, NotCommitted
<1>22. CASE Unfreeze \/ RecoverCommitted
    BY <1>19, <1>22 DEF Unfreeze, RecoverCommitted, Continue, worktree
<1>23. CASE EndRecovery
    BY <1>7, <1>19, <1>23 DEF EndRecovery, Continue, Owned, worktree
<1>24. CASE \E w \in Writers : StartWrite(w) \/ Write(w)
    BY <1>2, <1>24 DEF StartWrite, Write, worktree
<1>25. CASE MoveStart \/ RemoveHot \/ MoveKill
    BY <1>2, <1>25 DEF MoveStart, RemoveHot, MoveKill, worktree
<1>26. CASE PublishSome \/ Publish \/ MoveFail
    BY <1>2, <1>26, MoverPackIsRecord DEF PublishSome, Publish, MoveFail
<1>27. CASE UNCHANGED vars
    BY <1>2, <1>27 DEF vars, git, owner
<1> QED
    BY <1>3, <1>4, <1>5, <1>6, <1>8, <1>9, <1>10, <1>11, <1>12, <1>13, <1>14, <1>15, <1>16, <1>17,
       <1>18, <1>20, <1>21, <1>22, <1>23, <1>24, <1>25, <1>26, <1>27 DEF Next

---------------------------------------------------------------------------
(* Where the tasks are *)

LEMMA MovingAre ==
    /\ freeze = None /\ stage = None => Moving = {}
    /\ freeze # None \/ stage # None => Moving = DOMAIN Selected
BY DEF Moving, Selected

\* Moved tasks that nobody raced.
LEMMA MovedAre ==
    ASSUME Types, Tiers, NEW t \in Moving \ raced
    PROVE  t \in Tasks /\ Transferred(t) /\ (freeze # None \/ stage # None) /\ t \in DOMAIN Selected
<1>1. t \in Tasks
    BY RecordsHold, NoneIsNothing DEF Moving, Types, Markers
<1>2. mover # None => mover.task # t
    BY DEF Tiers
<1> QED
    BY <1>1, <1>2, MovingAre DEF Tiers, Placed

\* Half a pack holds nothing; the transaction's packs hold what it moves.
LEMMA HalfHoldsNothing ==
    ASSUME NEW k, ~k.whole, \/ packs' = packs \cup {k}
                            \/ packs' = packs \ {k}
                            \/ packs' = packs
    PROVE  \A t : Holding(t)' = Holding(t)
BY DEF Holding

LEMMA OwnHold ==
    ASSUME freeze # None
    PROVE  /\ packs' = (packs \ OwnPacks) \cup {Own} =>
                /\ \A t : t \notin DOMAIN Selected => Holding(t)' = Holding(t)
                /\ \A t \in DOMAIN Selected : Holding(t) \subseteq {Own} => Holding(t)' = {Own}
           /\ packs' = packs \ OwnPacks =>
                /\ \A t : t \notin DOMAIN Selected => Holding(t)' = Holding(t)
                /\ \A t : Holding(t) \subseteq {Own} => Holding(t)' = {}
<1>1. Own \in OwnPacks /\ Own.records = Selected /\ Own.whole
    BY OwnPacksAre DEF Own, Pack
<1>2. \A k \in OwnPacks : k.records = Selected
    BY OwnPacksAre
<1>3. \A k \in OwnPacks : k.whole => k = Own
    BY DEF OwnPacks, Own, Pack, Selected, Packed
<1> QED
    BY <1>1, <1>2, <1>3 DEF Holding

\* A step beside a task.
LEMMA Beside ==
    ASSUME NEW t, Placed(t), t \notin Moving, t \notin Moving', UNCHANGED <<acked, mover>>,
           hot'[t] = hot[t], Holding(t)' = Holding(t)
    PROVE  Placed(t)'
<1>1. CASE mover # None /\ mover.task = t
    BY <1>1 DEF Placed, Recorded, MoverPack
<1>2. CASE ~(mover # None /\ mover.task = t)
  <2>1. Rests(t)
      BY <1>2 DEF Placed
  <2>2. \A k \in Holding(t)' : k \in packs'
      BY DEF Holding
  <2>3. Rests(t)'
      BY <2>1, <2>2 DEF Rests
  <2> QED
      BY <1>2, <2>3 DEF Placed
<1> QED
    BY <1>1, <1>2

\* A step of the transaction or of its recovery.
LEMMA OwnerTiers ==
    ASSUME Types, Tiers, UNCHANGED <<acked, mover, raced>>, Moving' \subseteq Moving,
           \A t \in Tasks : t \notin Moving => hot'[t] = hot[t] /\ Holding(t)' = Holding(t),
           \A t \in Moving \ raced : t \in Moving' => Transferred(t)',
           \A t \in Moving \ raced : t \notin Moving' => Rests(t)'
    PROVE  Tiers'
<1>1. ASSUME NEW t \in Tasks \ raced' PROVE Placed(t)'
  <2>1. CASE t \notin Moving
      BY <2>1, Beside DEF Tiers
  <2>2. CASE t \in Moving
    <3>1. ~(mover' # None /\ mover'.task = t)
        BY <2>2 DEF Tiers
    <3> QED
        BY <2>2, <3>1 DEF Placed
  <2> QED
      BY <2>1, <2>2
<1>2. mover' # None /\ mover'.task \in Moving' => mover'.task \in raced'
    BY DEF Tiers
<1> QED
    BY <1>1, <1>2 DEF Tiers

\* A task at rest in one tier or the other.
LEMMA RestsHot == \A t : hot[t] # None /\ hot[t] = acked[t] /\ Holding(t) = {} => Rests(t)
BY DEF Rests

LEMMA RestsCold ==
    \A t : hot[t] = None /\ Holding(t) = {Own} /\ Selected[t] = acked[t] => Rests(t)
<1>1. Own.records = Selected
    BY DEF Own, Pack
<1>2. \A t : Holding(t) = {Own} => Own \in packs
    BY DEF Holding
<1> QED
    BY <1>1, <1>2 DEF Rests

LEMMA WriteTiers ==
    ASSUME Types, Tiers, NEW w \in Writers, Write(w)
    PROVE  Tiers'
<1> DEFINE u == writer[w]
<1>1. u \in Tasks /\ (mover # None => mover.task # u)
    BY DEF Write, Types
<1>2. UNCHANGED <<packs, freeze, stage, step, mover>>
    BY DEF Write, owner
<1>3. Moving' = Moving /\ \A t : Holding(t)' = Holding(t)
    BY <1>2 DEF Moving, Holding
<1>4. \A t \in Tasks : t # u => hot'[t] = hot[t] /\ acked'[t] = acked[t]
    BY <1>1 DEF Write, Types
<1>5. raced' = IF hot[u] = None THEN raced ELSE raced \cup ({u} \cap Moving)
    BY DEF Write
<1>6. hot[u] = None => hot' = hot /\ acked' = acked
    BY DEF Write
<1>7. hot[u] # None => hot'[u] # None /\ hot'[u] = acked'[u]
    BY <1>1, NoneIsNothing, BoundsAssumption DEF Write, Types, Versions
<1>8. ASSUME NEW t \in Tasks \ raced, hot'[t] = hot[t], acked'[t] = acked[t] PROVE Placed(t)'
  <2>1. Placed(t)
      BY DEF Tiers
  <2> QED
      BY <1>2, <1>3, <1>8, <2>1
      DEF Placed, Recorded, Transferred, Rests, MoverPack, Selected, Own, Pack, Uncommitted
<1>9. ASSUME NEW t \in Tasks \ raced' PROVE Placed(t)'
  <2>1. t \notin raced
      BY <1>5
  <2>2. CASE t # u \/ hot[u] = None
      BY <1>4, <1>6, <1>8, <2>1, <2>2
  <2>3. CASE t = u /\ hot[u] # None
    <3>1. t \notin Moving
        BY <1>5, <2>3
    <3>2. Rests(t)
        BY <1>1, <2>1, <2>3, <3>1 DEF Tiers, Placed
    <3>3. Rests(t)'
        BY <1>3, <1>7, <2>3, <3>2 DEF Rests
    <3> QED
        BY <1>1, <1>2, <1>3, <2>3, <3>1, <3>3 DEF Placed
  <2> QED
      BY <2>2, <2>3
<1> QED
    BY <1>2, <1>3, <1>5, <1>9 DEF Tiers

LEMMA ExamineTiers ==
    ASSUME Types, Owned, Tiers, Examine
    PROVE  Tiers'
<1>1. freeze = None /\ stage = None /\ Moving = {}
    BY MovingAre DEF Examine, Owned
<1>2. /\ UNCHANGED <<hot, packs, freeze, mover, acked>>
      /\ stage' = plan.records /\ step' = "examined"
    BY DEF Examine, worktree
<1>3. plan \in ReviewedPlans /\ plan.records \in Records /\ stage' # None
    BY <1>2, NoneIsNothing DEF Examine, Types, ReviewedPlans
<1>4. Moving' = DOMAIN plan.records /\ Selected' = plan.records
    BY <1>1, <1>2, <1>3 DEF Moving, Selected
<1>5. raced' = IF mover = None THEN raced ELSE raced \cup ({mover.task} \cap Moving')
    BY <1>4 DEF Examine
<1>6. \A t : Holding(t)' = Holding(t)
    BY <1>2 DEF Holding
<1>7. ASSUME NEW t \in Tasks \ raced' PROVE Placed(t)'
  <2>1. Placed(t)
      BY <1>5 DEF Tiers
  <2>2. CASE t \notin Moving'
      BY <1>1, <1>2, <1>6, <2>1, <2>2, Beside
  <2>3. CASE t \in Moving'
    <3>1. ~(mover # None /\ mover.task = t)
        BY <1>5, <2>3
    <3>2. Rests(t)
        BY <1>1, <2>1, <3>1 DEF Placed
    <3>3. hot[t] = plan.records[t] /\ plan.records[t] \in Versions
        BY <1>3, <1>4, <2>3, RecordsHold DEF Examine, Fresh
    <3>4. hot[t] = acked[t] /\ Holding(t) = {}
        BY <3>2, <3>3, NoneIsNothing DEF Rests
    <3>5. Transferred(t)'
        BY <1>1, <1>2, <1>4, <1>6, <3>3, <3>4 DEF Transferred, AfterCommit
    <3> QED
        BY <1>2, <2>3, <3>1, <3>5 DEF Placed
  <2> QED
      BY <2>2, <2>3
<1> QED
    BY <1>2, <1>5, <1>7 DEF Tiers

\* A step that leaves the board frozen: the selection stays.
LEMMA FrozenTiers ==
    ASSUME Types, Tiers, freeze # None, freeze' # None, freeze'.records = freeze.records,
           UNCHANGED <<acked, mover, raced>>,
           \A t \in Tasks : t \notin DOMAIN Selected => hot'[t] = hot[t] /\ Holding(t)' = Holding(t),
           ASSUME NEW t \in Moving \ raced, Transferred(t), t \in DOMAIN Selected, t \in Tasks,
                  Selected' = Selected, Own' = Own
           PROVE  Transferred(t)'
    PROVE  Tiers'
<1>1. Selected' = Selected /\ Own' = Own
    BY DEF Selected, Own, Pack
<1>2. Moving' = Moving /\ Moving = DOMAIN Selected
    BY <1>1 DEF Moving, Selected
<1>3. \A t \in Moving \ raced : Transferred(t)'
    BY <1>1, MovedAre
<1> QED
    BY <1>2, <1>3, OwnerTiers

\* A step that ends with nothing frozen.
LEMMA ThawTiers ==
    ASSUME Types, Tiers, freeze' = None, stage' = None,
           UNCHANGED <<acked, mover, raced>>,
           \A t \in Tasks : t \notin Moving => hot'[t] = hot[t] /\ Holding(t)' = Holding(t),
           ASSUME NEW t \in Moving \ raced, Transferred(t), t \in DOMAIN Selected, t \in Tasks
           PROVE  Rests(t)'
    PROVE  Tiers'
<1>1. Moving' = {}
    BY DEF Moving
<1>2. \A t \in Moving \ raced : Rests(t)'
    BY MovedAre
<1> QED
    BY <1>1, <1>2, OwnerTiers

\* The marker that Freeze writes.
LEMMA FreezeMarks ==
    ASSUME Types, Owned, Freeze
    PROVE  /\ freeze = None /\ stage # None
           /\ freeze' # None /\ freeze'.records = stage /\ freeze'.phase = "frozen"
<1>1. freeze = None /\ stage # None
    BY DEF Freeze, Owned
<1>2. freeze' = [phase |-> "frozen", records |-> stage, source |-> plan.head, commit |-> None]
    BY DEF Freeze
<1>3. freeze' \in Markers
    BY <1>1, <1>2, NoneIsNothing DEF Freeze, Types, Owned, Markers, ReviewedPlans
<1> QED
    BY <1>1, <1>2, <1>3, NoneIsNothing

LEMMA ActivationTiers ==
    ASSUME Types, Owned, Tiers, Freeze \/ Verify \/ CopySome \/ CopyRest \/ UnlinkHot
    PROVE  Tiers'
<1> USE DEF BeforeCommit, AfterCommit, Undoing, Recovering
<1>1. CASE Freeze
  <2>1. freeze = None /\ stage # None
      BY <1>1, FreezeMarks
  <2>2. UNCHANGED <<hot, packs, stage, mover, acked, raced>> /\ step = "examined" /\ step' = "frozen"
      BY <1>1 DEF Freeze, worktree
  <2>3. freeze' # None /\ freeze'.records = stage /\ freeze'.phase = "frozen"
      BY <1>1, FreezeMarks
  <2>4. Moving' = Moving /\ Selected' = Selected /\ Own' = Own /\ \A t : Holding(t)' = Holding(t)
      BY <2>1, <2>2, <2>3 DEF Moving, Selected, Own, Pack, Holding
  <2>5. \A t \in Moving \ raced : Transferred(t)'
      BY <2>1, <2>2, <2>3, <2>4, MovedAre DEF Transferred, Uncommitted
  <2> QED
      BY <2>2, <2>4, <2>5, OwnerTiers
<1>2. CASE Verify
  <2>1. freeze # None /\ freeze \in Markers
      BY <1>2 DEF Verify, Continue, Owned, Types
  <2>2. freeze' \in Markers /\ freeze'.records = freeze.records /\ freeze'.phase = "activating"
      BY <1>2, <2>1 DEF Verify, Markers
  <2>3. UNCHANGED <<hot, mover, acked, raced>> /\ \A t : Holding(t)' = Holding(t)
      BY <1>2 DEF Verify, worktree, Holding
  <2>4. step = "frozen" /\ step' = "activating"
      BY <1>2 DEF Verify, Continue
  <2> QED
      BY <2>1, <2>2, <2>3, <2>4, FrozenTiers, NoneIsNothing DEF Transferred, Uncommitted
<1>3. CASE CopySome
  <2>1. freeze # None /\ Uncommitted
      BY <1>3 DEF CopySome, Continue, Owned
  <2>2. UNCHANGED <<hot, freeze, mover, acked, raced>> /\ step = "activating" /\ step' = "copying"
      BY <1>3 DEF CopySome, Continue
  <2>3. \A t : Holding(t)' = Holding(t)
    <3> DEFINE k == Pack("pack", Packed, FALSE)
    <3>1. ~k.whole /\ packs' = packs \cup {k}
        BY <1>3 DEF CopySome, Pack
    <3> HIDE DEF k
    <3> QED
        BY <3>1, HalfHoldsNothing
  <2> QED
      BY <2>1, <2>2, <2>3, FrozenTiers DEF Transferred, Uncommitted
<1>4. CASE CopyRest
  <2>1. freeze # None /\ Uncommitted
      BY <1>4 DEF CopyRest, Continue, Owned
  <2>2. UNCHANGED <<hot, freeze, mover, acked, raced>> /\ step = "copying" /\ step' = "copied"
      BY <1>4 DEF CopyRest, Continue
  <2>3. packs' = (packs \ OwnPacks) \cup {Own}
      BY <1>4, <2>1, OwnPacksAre DEF CopyRest
  <2>4. /\ \A t : t \notin DOMAIN Selected => Holding(t)' = Holding(t)
        /\ \A t \in DOMAIN Selected : Holding(t) \subseteq {Own} => Holding(t)' = {Own}
      BY <2>1, <2>3, OwnHold
  <2> QED
      BY <2>1, <2>2, <2>4, FrozenTiers DEF Transferred, Uncommitted
<1>5. CASE UnlinkHot
  <2>1. freeze # None /\ Uncommitted
      BY <1>5 DEF UnlinkHot, Continue, Owned
  <2>2. /\ UNCHANGED <<freeze, mover, acked, raced>> /\ step = "copied" /\ step' = "unlinked"
        /\ \A t : Holding(t)' = Holding(t)
      BY <1>5 DEF UnlinkHot, Continue, Holding
  <2>3. Packed = Selected /\ hot' = Removed(hot, DOMAIN Packed)
      BY <1>5, <2>1 DEF UnlinkHot, Packed, Selected
  <2>4. /\ \A t \in Tasks : t \notin DOMAIN Selected => hot'[t] = hot[t]
        /\ \A t \in Tasks : t \in DOMAIN Selected => hot'[t] = None
      BY <2>3 DEF Removed, Types
  <2> QED
      BY <2>1, <2>2, <2>4, FrozenTiers DEF Transferred, Uncommitted
<1> QED
    BY <1>1, <1>2, <1>3, <1>4, <1>5

LEMMA CommitTiers ==
    ASSUME Types, Owned, Tiers, Commit \/ RecordCommit \/ Inspect \/ Unfreeze
    PROVE  Tiers'
<1> USE DEF BeforeCommit, AfterCommit, Undoing, Recovering
<1>1. freeze # None /\ freeze \in Markers
    BY DEF Commit, RecordCommit, Inspect, Unfreeze, Continue, Owned, Types
<1>2. UNCHANGED <<hot, mover, acked, raced>> /\ \A t : Holding(t)' = Holding(t)
    BY DEF Commit, RecordCommit, Inspect, Unfreeze, worktree, Holding
<1>3. CASE Commit
  <2>1. UNCHANGED freeze /\ step = "unlinked" /\ step' = "committed"
      BY <1>3 DEF Commit, Continue
  <2> QED
      BY <1>1, <1>2, <2>1, FrozenTiers DEF Transferred, Uncommitted
<1>4. CASE RecordCommit
  <2>1. step = "committed" /\ step' = "recorded"
      BY <1>4 DEF RecordCommit, Continue
  <2>2. freeze' # None /\ freeze'.records = freeze.records /\ freeze'.phase = "committed"
    <3>1. freeze' \in Markers
        BY <1>1, <1>4 DEF RecordCommit, Types, Markers
    <3> QED
        BY <1>1, <1>4, <3>1, NoneIsNothing DEF RecordCommit, Markers
  <2> QED
      BY <1>1, <1>2, <2>1, <2>2, FrozenTiers DEF Transferred, Uncommitted
<1>5. CASE Inspect
  <2>1. step = "recorded" /\ step' = "verified"
      BY <1>5 DEF Inspect, Continue
  <2>2. freeze' # None /\ freeze'.records = freeze.records
    <3>1. freeze' \in Markers
        BY <1>1, <1>5 DEF Inspect, Types, Markers
    <3> QED
        BY <1>1, <1>5, <3>1, NoneIsNothing DEF Inspect, Markers
  <2> QED
      BY <1>1, <1>2, <2>1, <2>2, FrozenTiers DEF Transferred, Uncommitted
<1>6. CASE Unfreeze
  <2>1. step = "verified" /\ freeze' = None /\ stage' = None
      BY <1>6 DEF Unfreeze, Continue
  <2>2. ASSUME NEW t \in Moving \ raced, Transferred(t) PROVE Rests(t)
      BY <2>1, <2>2, RestsCold DEF Transferred
  <2>3. \A t \in Moving \ raced : Transferred(t) => Rests(t)'
      BY <1>2, <2>2 DEF Rests, Holding
  <2> QED
      BY <1>2, <2>1, <2>3, ThawTiers
<1> QED
    BY <1>3, <1>4, <1>5, <1>6

LEMMA RestoredHot ==
    ASSUME Types, Owned, freeze # None, stage # None, hot' = Restored(stage)
    PROVE  /\ \A t \in Tasks : t \notin DOMAIN Selected => hot'[t] = hot[t]
           /\ \A t \in Tasks : t \in DOMAIN Selected => hot'[t] = Selected[t]
BY DEF Owned, Restored, Selected

LEMMA FailureTiers ==
    ASSUME Types, Owned, Tiers, Rollback \/ EndRollback \/ Fail \/ Interrupt \/ Kill
    PROVE  Tiers'
<1> USE DEF BeforeCommit, AfterCommit, Undoing, Recovering
<1>1. UNCHANGED <<mover, acked, raced>>
    BY DEF Rollback, EndRollback, Fail, Interrupt, Kill
<1>2. CASE Rollback
  <2>1. freeze # None /\ stage # None /\ Uncommitted /\ UNCHANGED freeze
      BY <1>2 DEF Rollback, Owned
  <2>2. \A t : Holding(t)' = Holding(t)
      BY <1>2 DEF Rollback, Holding
  <2>3. /\ \A t \in Tasks : t \notin DOMAIN Selected => hot'[t] = hot[t]
        /\ \A t \in Tasks : t \in DOMAIN Selected => hot'[t] = Selected[t]
      BY <1>2, <2>1, RestoredHot DEF Rollback
  <2>4. step' = IF step = "copying" THEN "undoing copy" ELSE "undoing"
      BY <1>2 DEF Rollback
  <2> QED
      BY <1>1, <2>1, <2>2, <2>3, <2>4, FrozenTiers DEF Transferred, Uncommitted
<1>3. CASE EndRollback
  <2>1. freeze # None /\ freeze' = None /\ stage' = None /\ UNCHANGED hot /\ step \in Undoing
      BY <1>3 DEF EndRollback, Owned
  <2>2. Moving = DOMAIN Selected
      BY <2>1, MovingAre
  <2>3. packs' = packs \ OwnPacks \/ (step = "undoing copy" /\ packs' = packs)
      BY <1>3 DEF EndRollback
  <2>4. \A t : t \notin Moving => Holding(t)' = Holding(t)
      BY <2>1, <2>2, <2>3, OwnHold DEF Holding
  <2>5. ASSUME NEW t \in Moving \ raced, Transferred(t), t \in DOMAIN Selected, t \in Tasks
        PROVE  Rests(t)'
    <3>1. hot'[t] = acked'[t] /\ acked[t] \in Versions
        BY <1>1, <2>1, <2>5 DEF Transferred, Types
    <3>2. Holding(t)' = {}
      <4>1. CASE packs' = packs \ OwnPacks
          BY <2>1, <2>5, <4>1, OwnHold DEF Transferred
      <4>2. CASE step = "undoing copy" /\ packs' = packs
          BY <2>5, <4>2 DEF Transferred, Holding
      <4> QED
          BY <2>3, <4>1, <4>2
    <3> QED
        BY <1>1, <3>1, <3>2, NoneIsNothing DEF Rests
  <2> QED
      BY <1>1, <2>1, <2>4, <2>5, ThawTiers
<1>4. CASE Fail \/ Interrupt \/ Kill
  <2>1. UNCHANGED <<hot, freeze>> /\ step' = "idle" /\ \A t : Holding(t)' = Holding(t)
      BY <1>4 DEF Fail, Interrupt, Kill, worktree, Holding
  <2>2. CASE freeze # None
    <3>1. ~Uncommitted => step \in {"idle", "committed", "recorded", "verified"}
        BY <2>2 DEF Owned, Types
    <3>2. ASSUME NEW t \in Moving \ raced, Transferred(t), t \in DOMAIN Selected, t \in Tasks,
                 Selected' = Selected, Own' = Own
          PROVE  Transferred(t)'
        BY <1>1, <2>1, <2>2, <3>2 DEF Transferred, Uncommitted
    <3> QED
        BY <1>1, <2>1, <2>2, <3>2, FrozenTiers
  <2>3. CASE freeze = None
    <3>1. step = "examined" /\ stage' = None
        BY <1>4, <2>3 DEF Fail, Interrupt, Kill, Owned, Types
    <3>2. ASSUME NEW t \in Moving \ raced, Transferred(t), t \in DOMAIN Selected, t \in Tasks
          PROVE  Rests(t)'
      <4>1. hot'[t] = acked'[t] /\ acked[t] \in Versions /\ Holding(t)' = {}
          BY <1>1, <2>1, <3>1, <3>2 DEF Transferred, Types
      <4> QED
          BY <1>1, <4>1, NoneIsNothing DEF Rests
    <3> QED
        BY <1>1, <2>1, <2>3, <3>1, <3>2, ThawTiers
  <2> QED
      BY <2>2, <2>3
<1> QED
    BY <1>2, <1>3, <1>4

LEMMA RecoveryTiers ==
    ASSUME Types, Owned, Tiers, RecoverHot \/ RecoverPacks \/ EndRecovery \/ RecoverCommitted
    PROVE  Tiers'
<1> USE DEF BeforeCommit, AfterCommit, Undoing, Recovering
<1>1. UNCHANGED <<mover, acked, raced>> /\ freeze # None
    BY DEF RecoverHot, RecoverPacks, EndRecovery, RecoverCommitted, Continue, Owned
<1>2. CASE RecoverHot
  <2>1. stage # None /\ Uncommitted /\ UNCHANGED freeze /\ step' = "restored"
      BY <1>2 DEF RecoverHot, CanUndo
  <2>2. \A t : Holding(t)' = Holding(t)
      BY <1>2 DEF RecoverHot, Holding
  <2>3. /\ \A t \in Tasks : t \notin DOMAIN Selected => hot'[t] = hot[t]
        /\ \A t \in Tasks : t \in DOMAIN Selected => hot'[t] = Selected[t]
      BY <1>1, <1>2, <2>1, RestoredHot DEF RecoverHot
  <2> QED
      BY <1>1, <2>1, <2>2, <2>3, FrozenTiers DEF Transferred, Uncommitted
<1>3. CASE RecoverPacks
  <2>1. Uncommitted /\ UNCHANGED <<hot, freeze>> /\ step = "restored" /\ step' = "cleared"
      BY <1>3 DEF RecoverPacks, Continue, Owned
  <2>2. packs' = packs \ OwnPacks
      BY <1>3 DEF RecoverPacks
  <2>3. /\ \A t : t \notin DOMAIN Selected => Holding(t)' = Holding(t)
        /\ \A t : Holding(t) \subseteq {Own} => Holding(t)' = {}
      BY <1>1, <2>2, OwnHold
  <2> QED
      BY <1>1, <2>1, <2>3, FrozenTiers DEF Transferred, Uncommitted
<1>4. CASE EndRecovery
  <2>1. /\ Uncommitted /\ UNCHANGED <<hot, stage>> /\ step = "cleared" /\ step' = "idle"
        /\ \A t : Holding(t)' = Holding(t)
      BY <1>4 DEF EndRecovery, Continue, Owned, worktree, Holding
  <2>2. CASE stage = None
    <3>1. freeze' = None
        BY <1>4, <2>2 DEF EndRecovery
    <3>2. ASSUME NEW t \in Moving \ raced, Transferred(t), t \in DOMAIN Selected, t \in Tasks
          PROVE  Rests(t)'
      <4>1. hot'[t] = acked'[t] /\ acked[t] \in Versions /\ Holding(t)' = {}
          BY <1>1, <2>1, <3>2 DEF Transferred, Types
      <4> QED
          BY <1>1, <4>1, NoneIsNothing DEF Rests
    <3> QED
        BY <1>1, <2>1, <2>2, <3>1, <3>2, ThawTiers
  <2>3. CASE stage # None
    <3>1. freeze' = freeze
        BY <1>4, <2>3 DEF EndRecovery
    <3> QED
        BY <1>1, <2>1, <3>1, FrozenTiers DEF Transferred, Uncommitted
  <2> QED
      BY <2>2, <2>3
<1>5. CASE RecoverCommitted
  <2>1. ~Uncommitted /\ UNCHANGED hot /\ freeze' = None /\ stage' = None /\ \A t : Holding(t)' = Holding(t)
      BY <1>5 DEF RecoverCommitted, CanFinish, worktree, Holding
  <2>2. ASSUME NEW t \in Moving \ raced, Transferred(t) PROVE Rests(t)
      BY <1>1, <2>1, <2>2, RestsCold DEF Transferred
  <2>3. \A t \in Moving \ raced : Transferred(t) => Rests(t)'
    <3>1. packs' = packs
        BY <1>5 DEF RecoverCommitted, worktree
    <3> QED
        BY <1>1, <2>1, <2>2, <3>1 DEF Rests
  <2> QED
      BY <1>1, <2>1, <2>3, ThawTiers
<1> QED
    BY <1>2, <1>3, <1>4, <1>5

LEMMA MoverTiers ==
    ASSUME Types, Tiers, MoveStart \/ PublishSome \/ Publish \/ RemoveHot \/ MoveFail \/ MoveKill
    PROVE  Tiers'
<1>1. UNCHANGED <<freeze, stage, step, acked>> /\ raced \subseteq raced'
    BY DEF MoveStart, PublishSome, Publish, RemoveHot, MoveFail, MoveKill, owner
<1>2. Moving' = Moving /\ Selected' = Selected /\ Own' = Own /\ Uncommitted' = Uncommitted
    BY <1>1 DEF Moving, Selected, Own, Pack, Uncommitted
<1>3. /\ mover # None => mover \in Moves /\ mover.task \in Tasks /\ mover.version \in Versions
      /\ mover.at = "published" => mover.at # "sealed" /\ mover.at # "publishing"
    BY DEF Types, Moves
<1>0. PICK u : u = mover.task
    OBVIOUS
\* The tasks that are not the mover's.
<1>4. ASSUME NEW t \in Tasks \ raced', mover # None => mover.task # t, mover' # None => mover'.task # t,
             hot'[t] = hot[t], Holding(t)' = Holding(t)
      PROVE  Placed(t)'
  <2>1. t \notin raced /\ Placed(t)
      BY <1>1 DEF Tiers
  <2>2. \A k \in Holding(t)' : k \in packs'
      BY DEF Holding
  <2>3. Rests(t) => Rests(t)'
      BY <1>1, <1>4, <2>2 DEF Rests
  <2>4. Transferred(t) => Transferred(t)'
      BY <1>1, <1>2, <1>4 DEF Transferred
  <2> QED
      BY <1>2, <1>4, <2>1, <2>3, <2>4 DEF Placed
\* The mover's own, if no other process touched it.
<1>5. ASSUME mover # None, mover.task \notin raced PROVE Recorded(mover.task) /\ mover.task \notin Moving
    BY <1>3, <1>5 DEF Tiers, Placed
<1>6. ASSUME mover # None, mover' = None, u \notin raced' => Rests(u)',
             \A t \in Tasks : t # u => hot'[t] = hot[t] /\ Holding(t)' = Holding(t)
      PROVE  Tiers'
  <2>1. ASSUME NEW t \in Tasks \ raced' PROVE Placed(t)'
    <3>1. CASE t # u
        BY <1>0, <1>4, <1>6, <3>1
    <3>2. CASE t = u
      <4>1. t \notin Moving'
          BY <1>0, <1>1, <1>2, <1>5, <1>6, <3>2
      <4> QED
          BY <1>6, <3>2, <4>1 DEF Placed
    <3> QED
        BY <3>1, <3>2
  <2> QED
      BY <1>6, <2>1 DEF Tiers
<1>7. ASSUME mover # None, mover' # None, mover'.task = mover.task, raced' = raced,
             mover.task \notin raced => Recorded(mover.task)',
             \A t \in Tasks : t # mover.task => hot'[t] = hot[t] /\ Holding(t)' = Holding(t)
      PROVE  Tiers'
  <2>1. ASSUME NEW t \in Tasks \ raced' PROVE Placed(t)'
    <3>1. CASE t # mover.task
        BY <1>4, <1>7, <3>1
    <3>2. CASE t = mover.task
        BY <1>7, <3>2 DEF Placed
    <3> QED
        BY <3>1, <3>2
  <2> QED
      BY <1>2, <1>7, <2>1 DEF Tiers
<1>8. CASE MoveStart
  <2>1. mover = None /\ UNCHANGED <<hot, packs>> /\ \A t : Holding(t)' = Holding(t)
      BY <1>8 DEF MoveStart, worktree, Holding
  <2>2. PICK v \in Tasks \ Cold :
            /\ hot[v] # None
            /\ mover' = [task |-> v, version |-> hot[v], at |-> "sealed"]
            /\ raced' = raced \cup ({v} \cap Moving)
      BY <1>8 DEF MoveStart
  <2>3. mover' # None /\ mover'.task = v /\ mover'.version = hot[v] /\ mover'.at = "sealed"
    <3>1. hot[v] \in Versions
        BY <2>2 DEF Types
    <3>2. mover' \in Moves
        BY <2>2, <3>1 DEF Moves
    <3> QED
        BY <2>2, <3>2, NoneIsNothing
  <2>4. ASSUME v \notin raced' PROVE Recorded(v)'
    <3>1. Rests(v)
        BY <2>1, <2>2, <2>4 DEF Tiers, Placed
    <3> QED
        BY <1>1, <2>1, <2>2, <2>3, <3>1 DEF Rests, Recorded
  <2>5. ASSUME NEW t \in Tasks \ raced' PROVE Placed(t)'
    <3>1. CASE t # v
        BY <1>4, <2>1, <2>3, <3>1
    <3>2. CASE t = v
        BY <2>3, <2>4, <2>5, <3>2 DEF Placed
    <3> QED
        BY <3>1, <3>2
  <2> QED
      BY <1>2, <2>2, <2>3, <2>5 DEF Tiers
<1>9. CASE PublishSome
  <2>1. mover # None /\ mover.at = "sealed" /\ mover' = [mover EXCEPT !.at = "publishing"]
      BY <1>9 DEF PublishSome, MoveTo
  <2>2. /\ mover' # None /\ mover'.task = mover.task /\ mover'.version = mover.version
        /\ mover'.at = "publishing"
    <3>1. mover' \in Moves
        BY <1>3, <2>1 DEF Moves
    <3> QED
        BY <1>3, <2>1, <3>1, NoneIsNothing DEF Moves
  <2>3. raced' = raced /\ hot' = hot /\ \A t : Holding(t)' = Holding(t)
    <3> DEFINE k == MoverPack(FALSE)
    <3>1. ~k.whole /\ packs' = packs \cup {k}
        BY <1>9 DEF PublishSome, MoverPack, Pack
    <3> HIDE DEF k
    <3> QED
        BY <1>9, <3>1, HalfHoldsNothing DEF PublishSome
  <2>4. mover.task \notin raced => Recorded(mover.task)'
      BY <1>1, <1>5, <2>1, <2>2, <2>3 DEF Recorded
  <2> QED
      BY <1>7, <2>1, <2>2, <2>3, <2>4
<1>10. CASE Publish
  <2>1. mover # None /\ mover.at = "publishing" /\ mover' = [mover EXCEPT !.at = "published"]
      BY <1>10 DEF Publish, MoveTo
  <2>2. /\ mover' # None /\ mover'.task = mover.task /\ mover'.version = mover.version
        /\ mover'.at = "published"
    <3>1. mover' \in Moves
        BY <1>3, <2>1 DEF Moves
    <3> QED
        BY <1>3, <2>1, <3>1, NoneIsNothing DEF Moves
  <2>3. MoverPack(TRUE)' = MoverPack(TRUE)
      BY <2>2 DEF MoverPack
  <2>4. raced' = raced /\ hot' = hot /\ packs' = (packs \ {MoverPack(FALSE)}) \cup {MoverPack(TRUE)}
      BY <1>10 DEF Publish
  <2>5. /\ MoverPack(TRUE).whole /\ ~MoverPack(FALSE).whole
        /\ DOMAIN MoverPack(TRUE).records = {mover.task}
      BY DEF MoverPack, Pack
  <2>6. /\ \A t \in Tasks : t # mover.task => Holding(t)' = Holding(t)
        /\ Holding(mover.task)' = Holding(mover.task) \cup {MoverPack(TRUE)}
    <3> DEFINE k == MoverPack(TRUE)
               l == MoverPack(FALSE)
    <3>1. packs' = (packs \ {l}) \cup {k} /\ k.whole /\ ~l.whole /\ DOMAIN k.records = {mover.task}
        BY <2>4, <2>5
    <3>2. mover.task' = mover.task
        BY <2>2
    <3> HIDE DEF k, l
    <3>3. /\ \A t \in Tasks : t # mover.task => Holding(t)' = Holding(t)
          /\ Holding(mover.task)' = Holding(mover.task) \cup {k}
        BY <3>1, <3>2 DEF Holding
    <3> QED
        BY <3>3 DEF k
  <2>7. mover.task \notin raced => Recorded(mover.task)'
      BY <1>1, <1>5, <2>1, <2>2, <2>3, <2>4, <2>6 DEF Recorded
  <2> QED
      BY <1>7, <2>1, <2>2, <2>4, <2>6, <2>7
<1>11. CASE RemoveHot
  <2>1. mover # None /\ mover.at = "published" /\ mover' = None /\ raced' = raced /\ packs' = packs
      BY <1>11 DEF RemoveHot
  <2>2. \A t : Holding(t)' = Holding(t)
      BY <2>1 DEF Holding
  <2>3. \A t \in Tasks : hot'[t] = IF t = mover.task THEN None ELSE hot[t]
      BY <1>11 DEF RemoveHot, Removed
  <2>4. ASSUME u \notin raced PROVE Rests(u)'
    <3>1. PICK k : k = MoverPack(TRUE)
        OBVIOUS
    <3>2. Holding(u) = {k} /\ acked[u] = mover.version
        BY <1>0, <1>5, <2>1, <2>4, <3>1 DEF Recorded
    <3>3. k.records[u] = mover.version
        BY <1>0, <3>1 DEF MoverPack, Pack
    <3>4. k \in packs /\ Holding(u)' = {k}
        BY <2>2, <3>2 DEF Holding
    <3>5. k \in packs' /\ k.records[u] = acked'[u] /\ hot'[u] = None
        BY <1>0, <1>1, <1>3, <2>1, <2>3, <3>2, <3>3, <3>4
    <3> QED
        BY <3>4, <3>5 DEF Rests
  <2> QED
      BY <1>0, <1>6, <2>1, <2>2, <2>3, <2>4
<1>12. CASE MoveFail
  <2>1. /\ mover # None /\ mover.at # "published" /\ mover' = None /\ raced' = raced
        /\ hot' = [hot EXCEPT ![mover.task] = mover.version]
        /\ packs' = packs \ {MoverPack(FALSE)} \/ packs' = packs
      BY <1>12 DEF MoveFail
  <2>2. \A t : Holding(t)' = Holding(t)
    <3> DEFINE k == MoverPack(FALSE)
    <3>1. ~k.whole /\ (packs' = packs \ {k} \/ packs' = packs)
        BY <2>1 DEF MoverPack, Pack
    <3> HIDE DEF k
    <3> QED
        BY <3>1, HalfHoldsNothing
  <2>3. \A t \in Tasks : hot'[t] = IF t = mover.task THEN mover.version ELSE hot[t]
      BY <2>1 DEF Types
  <2>4. ASSUME u \notin raced PROVE Rests(u)'
      BY <1>0, <1>1, <1>3, <1>5, <2>1, <2>2, <2>3, <2>4, NoneIsNothing DEF Recorded, Rests
  <2> QED
      BY <1>0, <1>6, <2>1, <2>2, <2>3, <2>4
<1>13. CASE MoveKill
  <2>1. /\ mover # None /\ mover' = None /\ UNCHANGED <<hot, packs>>
        /\ raced' = IF mover.at = "published" THEN raced \cup {mover.task} ELSE raced
      BY <1>13 DEF MoveKill, worktree
  <2>2. \A t : Holding(t)' = Holding(t)
      BY <2>1 DEF Holding
  <2>3. ASSUME u \notin raced' PROVE Rests(u)'
      BY <1>0, <1>1, <1>3, <1>5, <2>1, <2>2, <2>3, NoneIsNothing DEF Recorded, Rests
  <2> QED
      BY <1>0, <1>6, <2>1, <2>2, <2>3
<1> QED
    BY <1>8, <1>9, <1>10, <1>11, <1>12, <1>13

LEMMA TiersKeep == Types /\ Owned /\ Tiers /\ [Next]_vars => Tiers'
<1> SUFFICES ASSUME Types, Owned, Tiers, [Next]_vars PROVE Tiers'
    OBVIOUS
<1> USE NoneIsNothing
<1>1. ASSUME UNCHANGED <<hot, packs, freeze, stage, step, mover, acked, raced>> PROVE Tiers'
    BY <1>1 DEF Tiers, Placed, Recorded, Transferred, Rests, Holding, MoverPack, Moving, Selected, Own,
                Pack, Uncommitted
<1>2. ASSUME NEW w \in Writers, StartWrite(w) PROVE Tiers'
    BY <1>1, <1>2 DEF StartWrite, worktree, owner
<1>3. ASSUME NEW w \in Writers, Write(w) PROVE Tiers'
    BY <1>3, WriteTiers
<1>4. CASE CommitWork \/ MakePlan \/ UNCHANGED vars
    BY <1>1, <1>4 DEF CommitWork, MakePlan, worktree, owner, vars
<1>5. CASE Examine
    BY <1>5, ExamineTiers
<1>6. CASE Freeze \/ Verify \/ CopySome \/ CopyRest \/ UnlinkHot
    BY <1>6, ActivationTiers
<1>7. CASE Commit \/ RecordCommit \/ Inspect \/ Unfreeze
    BY <1>7, CommitTiers
<1>8. CASE Rollback \/ EndRollback \/ Fail \/ Interrupt \/ Kill
    BY <1>8, FailureTiers
<1>9. CASE RecoverHot \/ RecoverPacks \/ EndRecovery \/ RecoverCommitted
    BY <1>9, RecoveryTiers
<1>10. CASE MoveStart \/ PublishSome \/ Publish \/ RemoveHot \/ MoveFail \/ MoveKill
    BY <1>10, MoverTiers
<1> QED
    BY <1>2, <1>3, <1>4, <1>5, <1>6, <1>7, <1>8, <1>9, <1>10 DEF Next

---------------------------------------------------------------------------
(* What HEAD holds of the tasks under way *)

LEMMA HeadHoldsKeep ==
    Types /\ Owned /\ Tiers /\ HeadHolds /\ [Next]_vars => HeadHolds'
<1> SUFFICES ASSUME Types, Owned, Tiers, HeadHolds, [Next]_vars PROVE HeadHolds'
    OBVIOUS
<1> USE NoneIsNothing DEF BeforeCommit, AfterCommit, Undoing, Recovering
\* Most steps leave HEAD alone and the board as frozen as it was, or thaw it.
<1>1. ASSUME UNCHANGED <<tree, acked, raced>>, Moving' \subseteq Moving,
             Moving' # {} /\ freeze # None => freeze' # None /\ freeze'.records = freeze.records
      PROVE  HeadHolds'
  <2>1. Moving' # {} /\ freeze # None => freeze' # None /\ Own' = Own
      BY <1>1 DEF Own, Pack, Selected
  <2> QED
      BY <1>1, <2>1 DEF HeadHolds
<1>2. ASSUME UNCHANGED <<tree, freeze, stage>>, raced \subseteq raced',
             \A t \in Moving \ raced' : acked'[t] = acked[t]
      PROVE  HeadHolds'
  <2>1. Moving' = Moving /\ Own' = Own
      BY <1>2 DEF Moving, Own, Pack, Selected
  <2> QED
      BY <1>2, <2>1 DEF HeadHolds
<1>3. ASSUME NEW w \in Writers, StartWrite(w) PROVE HeadHolds'
    BY <1>2, <1>3 DEF StartWrite, git, owner
<1>4. ASSUME NEW w \in Writers, Write(w) PROVE HeadHolds'
  <2>1. writer[w] \in Tasks /\ UNCHANGED <<tree, freeze, stage>>
      BY <1>4 DEF Write, Types, git, owner
  <2>2. CASE hot[writer[w]] = None
      BY <1>2, <1>4, <2>1, <2>2 DEF Write
  <2>3. CASE hot[writer[w]] # None
    <3>1. /\ raced' = raced \cup ({writer[w]} \cap Moving)
          /\ \A t \in Tasks : t # writer[w] => acked'[t] = acked[t]
        BY <1>4, <2>3 DEF Write, Types
    <3>2. \A t \in Moving \ raced' : t # writer[w] /\ t \in Tasks
        BY <3>1, MovedAre
    <3> QED
        BY <1>2, <2>1, <3>1, <3>2
  <2> QED
      BY <2>2, <2>3
<1>5. CASE CommitWork
  <2>1. UNCHANGED <<freeze, stage, acked, raced>> /\ tree'.hot = hot /\ freeze = None
      BY <1>5 DEF CommitWork, owner
  <2>2. \A t \in Moving \ raced : hot[t] = acked[t]
    <3>1. stage # None => step = "examined"
        BY <2>1 DEF Owned, Types
    <3> QED
        BY <2>1, <3>1, MovedAre DEF Transferred
  <2>3. Moving' = Moving
      BY <2>1 DEF Moving
  <2> QED
      BY <2>1, <2>2, <2>3 DEF HeadHolds
<1>6. CASE MakePlan
    BY <1>2, <1>6 DEF MakePlan, git, owner
<1>7. CASE Examine
  <2>1. Tiers' /\ Types'
      BY <1>7, ExamineTiers, TypesKeep
  <2>2. /\ UNCHANGED <<tree, hot, freeze, acked>> /\ freeze = None /\ step' = "examined"
        /\ tree.hot = hot
      BY <1>7 DEF Examine, Clean, worktree, git
  <2>3. \A t \in Moving' \ raced' : Transferred(t)'
    <3>1. ASSUME NEW t \in Moving' \ raced' PROVE Transferred(t)'
      <4>1. t \in Tasks
          BY <2>1, RecordsHold DEF Moving, Types, Markers
      <4>2. ~(mover' # None /\ mover'.task = t)
          BY <2>1 DEF Tiers
      <4> QED
          BY <2>1, <4>1, <4>2 DEF Tiers, Placed
    <3> QED
        BY <3>1
  <2> QED
      BY <2>2, <2>3 DEF HeadHolds, Transferred
<1>8. CASE Freeze
  <2>1. freeze = None /\ UNCHANGED <<tree, stage, acked, raced>> /\ freeze'.records = stage /\ stage # None
      BY <1>8, FreezeMarks DEF Freeze, git
  <2>2. Moving' = Moving
      BY <1>8, <2>1, FreezeMarks DEF Moving
  <2> QED
      BY <2>1, <2>2 DEF HeadHolds
<1>9. CASE Commit
  <2>1. freeze # None /\ UNCHANGED <<freeze, stage, acked, raced>>
      BY <1>9 DEF Commit, Continue, Owned
  <2>2. Own \in tree'.packs /\ Own' = Own /\ freeze' # None
      BY <1>9, <2>1, OwnPacksAre DEF Commit, Own, Selected, Pack
  <2> QED
      BY <2>1, <2>2 DEF HeadHolds
<1>10. CASE CopySome \/ CopyRest \/ UnlinkHot \/ RecoverHot
    BY <1>2, <1>10 DEF CopySome, CopyRest, UnlinkHot, RecoverHot, git
<1>11. CASE Verify \/ RecordCommit \/ Inspect
  <2>1. freeze # None /\ freeze \in Markers /\ UNCHANGED <<tree, acked, raced>>
      BY <1>11 DEF Verify, RecordCommit, Inspect, Continue, Owned, Types, git
  <2>2. freeze'.records = freeze.records /\ freeze' # None
    <3>1. freeze' \in Markers
        BY <1>11, <2>1 DEF Verify, RecordCommit, Inspect, Markers, Types
    <3> QED
        BY <1>11, <2>1, <3>1 DEF Verify, RecordCommit, Inspect, Markers
  <2>3. Moving' = Moving
      BY <2>1, <2>2 DEF Moving
  <2> QED
      BY <1>1, <2>1, <2>2, <2>3
<1>12. ASSUME UNCHANGED <<tree, acked, raced>>, freeze' = None, stage' = None PROVE HeadHolds'
    BY <1>12 DEF HeadHolds, Moving
<1>13. CASE Unfreeze \/ EndRollback \/ RecoverCommitted
    BY <1>12, <1>13 DEF Unfreeze, EndRollback, RecoverCommitted, git
<1>14. CASE Rollback \/ Fail \/ Interrupt \/ Kill
  <2>1. UNCHANGED <<tree, freeze, acked, raced>>
      BY <1>14 DEF Rollback, Fail, Interrupt, Kill, git
  <2>2. CASE freeze # None
      BY <1>1, <2>1, <2>2 DEF Moving
  <2>3. CASE freeze = None
    <3>1. stage' = None
        BY <1>14, <2>3 DEF Rollback, Fail, Interrupt, Kill, Owned
    <3> QED
        BY <1>12, <2>1, <2>3, <3>1
  <2> QED
      BY <2>2, <2>3
<1>15. CASE RecoverPacks
  <2>1. freeze # None /\ UNCHANGED <<tree, freeze, acked, raced>>
      BY <1>15 DEF RecoverPacks, Continue, Owned, git
  <2> QED
      BY <1>1, <2>1 DEF Moving
<1>16. CASE EndRecovery
  <2>1. /\ freeze # None /\ UNCHANGED <<tree, stage, acked, raced>>
        /\ freeze' = IF stage = None THEN None ELSE freeze
      BY <1>16 DEF EndRecovery, Continue, Owned, git
  <2> QED
      BY <1>1, <1>12, <2>1 DEF Moving
<1>17. CASE MoveStart \/ PublishSome \/ Publish \/ RemoveHot \/ MoveFail \/ MoveKill
    BY <1>2, <1>17 DEF MoveStart, PublishSome, Publish, RemoveHot, MoveFail, MoveKill, git, owner
<1>18. CASE UNCHANGED vars
    BY <1>2, <1>18 DEF vars
<1> QED
    BY <1>3, <1>4, <1>5, <1>6, <1>7, <1>8, <1>9, <1>10, <1>11, <1>13, <1>14, <1>15, <1>16, <1>17,
       <1>18 DEF Next

---------------------------------------------------------------------------
(* The theorems *)

LEMMA ArchiveStarts == Init => ArchiveInv
<1> SUFFICES ASSUME Init PROVE ArchiveInv
    OBVIOUS
<1>1. Moving = {}
    BY DEF Init, Moving
<1>2. \A t \in Tasks : Rests(t)
    BY BoundsAssumption, NoneAssumption DEF Init, Rests, Holding
<1>3. Tiers
    BY <1>1, <1>2 DEF Init, Tiers, Placed
<1>4. HeadHolds
    BY <1>1 DEF HeadHolds
<1> QED
    BY <1>3, <1>4, TypesStart, OwnedStarts, CommittedStarts DEF ArchiveInv

LEMMA ArchiveKeeps == ArchiveInv /\ [Next]_vars => ArchiveInv'
BY TypesKeep, OwnedKeeps, HeadsKeep, CommittedKeeps, TiersKeep, HeadHoldsKeep DEF ArchiveInv

LEMMA ArchiveAlways == Spec => []ArchiveInv
BY ArchiveStarts, ArchiveKeeps, PTL DEF Spec

LEMMA InvExactlyOnce == ArchiveInv => ExactlyOnce
<1> SUFFICES ASSUME ArchiveInv, Quiet, NEW t \in Tasks \ raced PROVE Single(t)
    BY DEF ExactlyOnce
<1>1. mover = None /\ Moving = {}
    BY MovingAre DEF ArchiveInv, Owned, Quiet
<1>2. Rests(t)
    BY <1>1 DEF ArchiveInv, Tiers, Placed
<1>3. \A k : Cardinality({k}) = 1
    BY FS_Singleton
<1> QED
    BY <1>2, <1>3 DEF Rests, Single

LEMMA InvHeadHolds == ArchiveInv => HeadHoldsFrozen
<1> SUFFICES ASSUME ArchiveInv, freeze # None, NEW t \in DOMAIN freeze.records \ raced
             PROVE  /\ freeze.records[t] = acked[t]
                    /\ \/ tree.hot[t] = acked[t]
                       \/ Pack("pack", freeze.records, TRUE) \in tree.packs
    BY DEF HeadHoldsFrozen
<1>1. t \in Moving /\ Selected = freeze.records
    BY DEF Moving, Selected
<1>2. freeze.records[t] = acked[t]
    BY <1>1, MovedAre DEF ArchiveInv, Transferred
<1> QED
    BY <1>1, <1>2 DEF ArchiveInv, HeadHolds, Own

\* HEAD's packs only grow, so what is committed now is in the worktree next.
LEMMA PackStays ==
    ArchiveInv /\ ArchiveInv' /\ [Next]_vars => [\A k \in tree.packs : k.by = "pack" => k \in packs']_vars
<1> SUFFICES ASSUME ArchiveInv, ArchiveInv', [Next]_vars, NEW k \in tree.packs, k.by = "pack"
             PROVE  k \in packs'
    OBVIOUS
<1>1. CASE UNCHANGED tree
    BY <1>1 DEF ArchiveInv, Committed
<1>2. CASE CommitWork \/ Commit
    BY <1>2 DEF ArchiveInv, Committed, CommitWork, Commit, worktree
<1>3. ~(CommitWork \/ Commit) => UNCHANGED tree
  <2> USE DEF git
  <2>1. ASSUME NEW w \in Writers, StartWrite(w) \/ Write(w) PROVE UNCHANGED tree
      BY <2>1 DEF StartWrite, Write
  <2>2. CASE MakePlan \/ Examine \/ Freeze \/ Verify \/ CopySome \/ CopyRest \/ UnlinkHot
      BY <2>2 DEF MakePlan, Examine, Freeze, Verify, CopySome, CopyRest, UnlinkHot
  <2>3. CASE RecordCommit \/ Inspect \/ Unfreeze \/ Rollback \/ EndRollback \/ Fail \/ Interrupt \/ Kill
      BY <2>3 DEF RecordCommit, Inspect, Unfreeze, Rollback, EndRollback, Fail, Interrupt, Kill
  <2>4. CASE RecoverHot \/ RecoverPacks \/ EndRecovery \/ RecoverCommitted
      BY <2>4 DEF RecoverHot, RecoverPacks, EndRecovery, RecoverCommitted
  <2>5. CASE MoveStart \/ PublishSome \/ Publish \/ RemoveHot \/ MoveFail \/ MoveKill
      BY <2>5 DEF MoveStart, PublishSome, Publish, RemoveHot, MoveFail, MoveKill
  <2>6. CASE UNCHANGED vars
      BY <2>6 DEF vars
  <2> QED
      BY <2>1, <2>2, <2>3, <2>4, <2>5, <2>6 DEF Next
<1> QED
    BY <1>1, <1>2, <1>3

\* However archive-pack, record archive and their recoveries fail, are
\* interrupted or killed, a task that no two processes worked on at once is, when
\* nothing is under way or frozen, in one tier, as last acknowledged.
THEOREM OneTier == Spec => []ExactlyOnce
<1>1. Spec => []ArchiveInv
    BY ArchiveAlways
<1>2. ArchiveInv => ExactlyOnce
    BY InvExactlyOnce
<1> QED
    BY <1>1, <1>2, PTL

\* While the board is frozen HEAD holds every selected task, so that recovery can
\* go either way.
THEOREM HeadHoldsSafe == Spec => []HeadHoldsFrozen
<1>1. Spec => []ArchiveInv
    BY ArchiveAlways
<1>2. ArchiveInv => HeadHoldsFrozen
    BY InvHeadHolds
<1> QED
    BY <1>1, <1>2, PTL

\* No rollback and no recovery takes a committed pack out of the worktree.
THEOREM PacksStay == Spec => CommittedPacksStay
<1>1. Spec => []ArchiveInv
    BY ArchiveAlways
<1> QED
    BY <1>1, PackStays, PTL DEF Spec, CommittedPacksStay

=============================================================================
