------------------------------- MODULE Archive -------------------------------
(***************************************************************************)
(* Moving tasks from hot files to sealed cold packs (archive.py).          *)
(* archive-pack create works through a reviewed plan as one Git            *)
(* transaction behind a freeze marker, with a staging directory to undo it *)
(* from; recover_archive finishes or undoes one that died.  `record task   *)
(* archive` moves one task at once, under a lock of its own.  Neither      *)
(* takes the board lock: writers look at the freeze marker before they     *)
(* queue for that lock, and not again.                                     *)
(*                                                                         *)
(* A task is its version: Markdown file and ledger change together, since  *)
(* a writer's call is one step (BoardStore implements AtomicBoard).        *)
(***************************************************************************)
EXTENDS Naturals, FiniteSets

CONSTANTS
    Tasks,       \* IDs of existing tasks; a new task only adds a hot file
    Writers,     \* processes that update tasks
    None,        \* no file, no marker, no process
    MaxVersion,  \* bound: updates of a task
    MaxHead,     \* bound: commits
    Interrupts,  \* whether people press Ctrl-C on archive-pack create
    Kills,       \* whether processes are killed
    Recorders    \* whether `record task archive` is used

\* What a pack, a plan, a backup or a marker may hold of some of the tasks.
Versions == 0..MaxVersion
Records == UNION {[S -> Versions] : S \in SUBSET Tasks}
Markers == [phase : {"frozen", "activating", "committed", "verified"}, records : Records,
            source : Nat, commit : Nat \cup {None}]
ReviewedPlans == [records : Records, head : Nat, cold : SUBSET Tasks]
Moves == [task : Tasks, version : Versions, at : {"sealed", "publishing", "published"}]

ASSUME NoneAssumption ==
    None \notin Nat \cup Tasks \cup Records \cup Markers \cup ReviewedPlans \cup Moves
ASSUME BoundsAssumption == MaxVersion \in Nat /\ MaxHead \in Nat
ASSUME UseAssumption == {Interrupts, Kills, Recorders} \subseteq BOOLEAN

VARIABLES
    hot,     \* task -> version in the worktree, or None
    packs,   \* the packs in the worktree
    tree,    \* what HEAD holds: [hot, packs]
    head,    \* HEAD, as the number of commits
    freeze,  \* ARCHIVE_PACK_FREEZE.json, or None
    stage,   \* the hot backups in the staging directory, or None
    plan,    \* the reviewed plan, or None
    step,    \* how far the owner of juno-archive-pack.lock is; "idle": nobody owns it
    writer,  \* writer -> the task it saw no freeze for and will update, or None
    mover,   \* the owner of record-archive.lock: [task, version, at], or None
    acked,   \* history: task -> the last acknowledged version
    raced    \* history: tasks another process touched while they were moved

worktree == <<hot, packs>>
git == <<tree, head>>
owner == <<freeze, stage, step>>
vars == <<hot, packs, tree, head, freeze, stage, plan, step, writer, mover, acked, raced>>

---------------------------------------------------------------------------

Snapshot(S) == [t \in S |-> hot[t]]
Restored(r) == [t \in Tasks |-> IF t \in DOMAIN r THEN r[t] ELSE hot[t]]
Removed(h, S) == [t \in Tasks |-> IF t \in S THEN None ELSE h[t]]

\* `whole`: pack, manifest and checksum are all there.
Pack(by, r, whole) == [by |-> by, records |-> r, whole |-> whole]
Packed == freeze.records
OwnPacks == {Pack("pack", Packed, w) : w \in BOOLEAN}

\* scan_archive_index raises on a missing sidecar and on an ID in two packs.
ColdReadable ==
    /\ \A k \in packs : k.whole
    /\ \A k, l \in packs : k # l => DOMAIN k.records \cap DOMAIN l.records = {}

Cold == UNION {DOMAIN k.records : k \in packs}

Clean == hot = tree.hot /\ packs = tree.packs

\* archive_doctor and doctor.
Healthy == ColdReadable /\ \A t \in Cold : hot[t] = None

\* The tasks that archive-pack create is moving, or died moving.
Moving == IF freeze # None THEN DOMAIN freeze.records
          ELSE IF stage # None THEN DOMAIN stage ELSE {}

---------------------------------------------------------------------------

Init ==
    /\ hot = [t \in Tasks |-> 0] /\ packs = {}
    /\ tree = [hot |-> hot, packs |-> packs] /\ head = 0
    /\ freeze = None /\ stage = None /\ plan = None /\ step = "idle"
    /\ writer = [w \in Writers |-> None]
    /\ mover = None
    /\ acked = hot /\ raced = {}

---------------------------------------------------------------------------
(* Writers and people *)

\* _assert_not_frozen; then the writer waits for the board lock.
StartWrite(w) ==
    /\ writer[w] = None
    /\ freeze = None
    /\ \E t \in Tasks : writer' = [writer EXCEPT ![w] = t]
    /\ UNCHANGED <<worktree, git, owner, plan, mover, acked, raced>>

\* The update under both locks; an archived task is refused.
Write(w) ==
    LET t == writer[w]
    IN /\ t # None
       /\ mover # None => mover.task # t
       /\ hot[t] # None => hot[t] < MaxVersion
       /\ writer' = [writer EXCEPT ![w] = None]
       /\ IF hot[t] = None THEN UNCHANGED <<hot, acked, raced>>
          ELSE /\ hot' = [hot EXCEPT ![t] = @ + 1]
               /\ acked' = [acked EXCEPT ![t] = hot'[t]]
               /\ raced' = raced \cup ({t} \cap Moving)
       /\ UNCHANGED <<packs, git, owner, plan, mover>>

\* Somebody commits the worktree.  A frozen board is left alone: recovery
\* refuses a HEAD that others moved.
CommitWork ==
    /\ freeze = None
    /\ ~Clean /\ head < MaxHead
    /\ tree' = [hot |-> hot, packs |-> packs]
    /\ head' = head + 1
    /\ UNCHANGED <<worktree, owner, plan, writer, mover, acked, raced>>

---------------------------------------------------------------------------
(* archive-pack plan and create *)

\* plan_archive: some of the hot tasks (age, status, reservations and size
\* choose which), bound to HEAD and to the cold inventory.  A plan made during
\* a transaction that fails can be made after it, too.
MakePlan ==
    /\ step = "idle"
    /\ ColdReadable
    /\ \E S \in SUBSET {t \in Tasks \ Cold : hot[t] # None} :
          plan' = [records |-> Snapshot(S), head |-> head, cold |-> Cold]
    /\ UNCHANGED <<worktree, git, owner, writer, mover, acked, raced>>

\* verify_archive_plan.
Fresh(p) ==
    /\ p.head = head
    /\ ColdReadable /\ p.cold = Cold
    /\ \A t \in DOMAIN p.records : hot[t] = p.records[t]

\* Wrong: uncommitted work is no reason to refuse.
ExamineDirty ==
    /\ step = "idle" /\ freeze = None
    /\ plan # None /\ Fresh(plan) /\ DOMAIN plan.records # {}
    /\ stage' = plan.records
    /\ step' = "examined"
    /\ raced' = IF mover = None THEN raced ELSE raced \cup ({mover.task} \cap DOMAIN plan.records)
    /\ UNCHANGED <<worktree, git, freeze, plan, writer, mover, acked>>

\* Under archive-pack.lock: refuse a dirty worktree or a stale plan, copy the
\* selected files to the staging directory.
Examine ==
    /\ step = "idle" /\ freeze = None
    /\ Clean
    /\ plan # None /\ Fresh(plan) /\ DOMAIN plan.records # {}
    /\ stage' = plan.records
    /\ step' = "examined"
    /\ raced' = IF mover = None THEN raced ELSE raced \cup ({mover.task} \cap DOMAIN plan.records)
    /\ UNCHANGED <<worktree, git, freeze, plan, writer, mover, acked>>

\* The marker names HEAD as Examine saw it: the plan's.
Freeze ==
    /\ step = "examined"
    /\ freeze' = [phase |-> "frozen", records |-> stage, source |-> plan.head, commit |-> None]
    /\ step' = "frozen"
    /\ UNCHANGED <<worktree, git, stage, plan, writer, mover, acked, raced>>

Continue(from, to) == step = from /\ step' = to

\* The packs are sealed in the staging directory, and the plan still holds.
Verify ==
    /\ Continue("frozen", "activating")
    /\ Fresh([plan EXCEPT !.records = Packed])
    /\ freeze' = [freeze EXCEPT !.phase = "activating"]
    /\ UNCHANGED <<worktree, git, stage, plan, writer, mover, acked, raced>>

CopySome ==
    /\ Continue("activating", "copying")
    /\ packs' = packs \cup {Pack("pack", Packed, FALSE)}
    /\ UNCHANGED <<hot, git, freeze, stage, plan, writer, mover, acked, raced>>

CopyRest ==
    /\ Continue("copying", "copied")
    /\ packs' = (packs \ OwnPacks) \cup {Pack("pack", Packed, TRUE)}
    /\ UNCHANGED <<hot, git, freeze, stage, plan, writer, mover, acked, raced>>

\* unlink raises when a file is gone already.
UnlinkHot ==
    /\ Continue("copied", "unlinked")
    /\ \A t \in DOMAIN Packed : hot[t] # None
    /\ hot' = Removed(hot, DOMAIN Packed)
    /\ UNCHANGED <<packs, git, freeze, stage, plan, writer, mover, acked, raced>>

\* git add, git rm and git commit of exactly the transaction's paths.  git rm
\* refuses a file that came back.
Commit ==
    /\ Continue("unlinked", "committed")
    /\ head < MaxHead
    /\ \A t \in DOMAIN Packed : hot[t] = None
    /\ tree' = [hot |-> Removed(tree.hot, DOMAIN Packed),
                packs |-> tree.packs \cup {Pack("pack", Packed, TRUE)}]
    /\ head' = head + 1
    /\ UNCHANGED <<worktree, freeze, stage, plan, writer, mover, acked, raced>>

RecordCommit ==
    /\ Continue("committed", "recorded")
    /\ freeze' = [freeze EXCEPT !.phase = "committed", !.commit = head]
    /\ UNCHANGED <<worktree, git, stage, plan, writer, mover, acked, raced>>

\* Doctors and receipt.
Inspect ==
    /\ Continue("recorded", "verified")
    /\ Healthy
    /\ freeze' = [freeze EXCEPT !.phase = "verified"]
    /\ UNCHANGED <<worktree, git, stage, plan, writer, mover, acked, raced>>

Unfreeze ==
    /\ Continue("verified", "idle")
    /\ freeze' = None /\ stage' = None
    /\ UNCHANGED <<worktree, git, plan, writer, mover, acked, raced>>

---------------------------------------------------------------------------
(* Failures of archive-pack create *)

BeforeCommit == {"frozen", "activating", "copying", "copied", "unlinked"}
AfterCommit == {"committed", "recorded", "verified"}

\* Wrong: the files are left as they are.
RollbackNothing ==
    /\ step \in BeforeCommit
    /\ step' = IF step = "copying" THEN "undoing copy" ELSE "undoing"
    /\ UNCHANGED <<worktree, git, freeze, stage, plan, writer, mover, acked, raced>>

\* An exception before the commit: the files come back from memory,
Rollback ==
    /\ step \in BeforeCommit
    /\ step' = IF step = "copying" THEN "undoing copy" ELSE "undoing"
    /\ hot' = Restored(stage)
    /\ UNCHANGED <<packs, git, freeze, stage, plan, writer, mover, acked, raced>>

\* then packs, marker and staging directory go.  A file that was being copied
\* when the exception came is not among those taken back.
EndRollback ==
    /\ step \in {"undoing", "undoing copy"}
    /\ step' = "idle"
    /\ \/ packs' = packs \ OwnPacks
       \/ step = "undoing copy" /\ UNCHANGED packs
    /\ freeze' = None /\ stage' = None
    /\ UNCHANGED <<hot, git, plan, writer, mover, acked, raced>>

\* An exception after the commit keeps the marker; before the marker it leaves
\* nothing.
Fail ==
    /\ step \in AfterCommit \cup {"examined"}
    /\ step' = "idle" /\ stage' = None
    /\ UNCHANGED <<worktree, git, freeze, plan, writer, mover, acked, raced>>

\* KeyboardInterrupt is no Exception: only the `finally` runs.
Interrupt ==
    /\ Interrupts
    /\ step \in BeforeCommit \cup {"undoing", "undoing copy"}
    /\ step' = "idle" /\ stage' = None
    /\ UNCHANGED <<worktree, git, freeze, plan, writer, mover, acked, raced>>

\* The process is killed; a staging directory no marker names is forgotten.
Kill ==
    /\ Kills /\ step # "idle"
    /\ step' = "idle"
    /\ stage' = IF freeze = None THEN None ELSE stage
    /\ UNCHANGED <<worktree, git, freeze, plan, writer, mover, acked, raced>>

---------------------------------------------------------------------------
(* recover_archive *)

Uncommitted == freeze.phase \in {"frozen", "activating"}

CanUndo == Uncommitted /\ head = freeze.source /\ stage # None
CanFinish == ~Uncommitted /\ head = freeze.commit /\ Healthy

\* Wrong: HEAD may have moved.
RecoverHotAnywhere ==
    /\ step = "idle" /\ freeze # None
    /\ Uncommitted /\ stage # None
    /\ hot' = Restored(stage)
    /\ step' = "restored"
    /\ UNCHANGED <<packs, git, freeze, stage, plan, writer, mover, acked, raced>>

RecoverHot ==
    /\ step = "idle" /\ freeze # None
    /\ CanUndo
    /\ hot' = Restored(stage)
    /\ step' = "restored"
    /\ UNCHANGED <<packs, git, freeze, stage, plan, writer, mover, acked, raced>>

\* The packs go; the files must be as in HEAD before the staging directory goes.
RecoverPacks ==
    /\ Continue("restored", "cleared")
    /\ packs' = packs \ OwnPacks
    /\ stage' = IF \A t \in DOMAIN Packed : hot[t] = tree.hot[t] THEN None ELSE stage
    /\ UNCHANGED <<hot, git, freeze, plan, writer, mover, acked, raced>>

EndRecovery ==
    /\ Continue("cleared", "idle")
    /\ freeze' = IF stage = None THEN None ELSE freeze
    /\ UNCHANGED <<worktree, git, stage, plan, writer, mover, acked, raced>>

RecoverCommitted ==
    /\ step = "idle" /\ freeze # None
    /\ CanFinish
    /\ freeze' = None /\ stage' = None
    /\ UNCHANGED <<worktree, git, step, plan, writer, mover, acked, raced>>

---------------------------------------------------------------------------
(* record task archive: under record-archive.lock and the task's lock *)

MoveStart ==
    /\ Recorders /\ mover = None
    /\ ColdReadable
    /\ \E t \in Tasks \ Cold :
          /\ hot[t] # None
          /\ mover' = [task |-> t, version |-> hot[t], at |-> "sealed"]
          /\ raced' = raced \cup ({t} \cap Moving)
    /\ UNCHANGED <<worktree, git, owner, plan, writer, acked>>

MoverPack(whole) == Pack("record", [t \in {mover.task} |-> mover.version], whole)

MoveTo(from, to) == mover # None /\ mover.at = from /\ mover' = [mover EXCEPT !.at = to]

PublishSome ==
    /\ MoveTo("sealed", "publishing")
    /\ packs' = packs \cup {MoverPack(FALSE)}
    /\ UNCHANGED <<hot, git, owner, plan, writer, acked, raced>>

\* With the whole pack the cold record has authority.
Publish ==
    /\ MoveTo("publishing", "published")
    /\ packs' = (packs \ {MoverPack(FALSE)}) \cup {MoverPack(TRUE)}
    /\ UNCHANGED <<hot, git, owner, plan, writer, acked, raced>>

\* Exceptions and Ctrl-C end here too.
RemoveHot ==
    /\ mover # None /\ mover.at = "published"
    /\ hot' = Removed(hot, {mover.task})
    /\ mover' = None
    /\ UNCHANGED <<packs, git, owner, plan, writer, acked, raced>>

\* An exception or Ctrl-C before that: the published files go (but for one that
\* was being copied), the hot ones are written again.
MoveFail ==
    /\ mover # None /\ mover.at # "published"
    /\ \/ packs' = packs \ {MoverPack(FALSE)}
       \/ mover.at = "publishing" /\ UNCHANGED packs
    /\ hot' = [hot EXCEPT ![mover.task] = mover.version]
    /\ mover' = None
    /\ UNCHANGED <<git, owner, plan, writer, acked, raced>>

\* Killed: a published task is left in both tiers.
MoveKill ==
    /\ Kills /\ mover # None
    /\ raced' = IF mover.at = "published" THEN raced \cup {mover.task} ELSE raced
    /\ mover' = None
    /\ UNCHANGED <<worktree, git, owner, plan, writer, acked>>

---------------------------------------------------------------------------

Next ==
    \/ \E w \in Writers : StartWrite(w) \/ Write(w)
    \/ CommitWork \/ MakePlan
    \/ Examine \/ Freeze \/ Verify \/ CopySome \/ CopyRest \/ UnlinkHot \/ Commit
    \/ RecordCommit \/ Inspect \/ Unfreeze
    \/ Rollback \/ EndRollback \/ Fail \/ Interrupt \/ Kill
    \/ RecoverHot \/ RecoverPacks \/ EndRecovery \/ RecoverCommitted
    \/ MoveStart \/ PublishSome \/ Publish \/ RemoveHot \/ MoveFail \/ MoveKill

Spec == Init /\ [][Next]_vars

---------------------------------------------------------------------------
(* Properties *)

Quiet == step = "idle" /\ freeze = None /\ mover = None

Holding(t) == {k \in packs : k.whole /\ t \in DOMAIN k.records}

\* t is in exactly one tier, as the last call that was acknowledged left it.
Single(t) ==
    IF hot[t] # None THEN hot[t] = acked[t] /\ Holding(t) = {}
    ELSE /\ Cardinality(Holding(t)) = 1
         /\ \A k \in Holding(t) : k.records[t] = acked[t]

\* When no move is under way or frozen, every task is in exactly one tier with
\* its last acknowledged content, whatever failed or was killed and recovered,
\* unless two processes worked on the task at once or archive_record was killed
\* between publishing and removing.
ExactlyOnce == Quiet => \A t \in Tasks \ raced : Single(t)

\* While the board is frozen, however the owner died, Git's HEAD holds every
\* selected task with its last acknowledged content, in one tier or the other.
HeadHoldsFrozen ==
    freeze # None =>
        \A t \in DOMAIN freeze.records \ raced :
            /\ freeze.records[t] = acked[t]
            /\ \/ tree.hot[t] = acked[t]
               \/ Pack("pack", freeze.records, TRUE) \in tree.packs

\* A pack that archive-pack create committed is never taken out of the worktree.
CommittedPacksStay ==
    [][\A k \in tree.packs : k.by = "pack" => k \in packs']_vars

==============================================================================
