# Verification of yylo-ledger

yylo-ledger keeps a task board and other Records as plain files inside a Git
working tree. Every CLI invocation is a process of its own; processes meet only
in the file system: canonical files, per-task ledgers, lock files, write-ahead
directories, freeze markers, the Git index and HEAD. There is no server but a
read-only one, and nothing but the next process repairs what a killed one left.
These modules model that: what the processes do to each other and to what a dead
one left behind.

Paths below are relative to the repository; `storage.py` and the like are in
`src/yylo_ledger/`.

## 1. Inventory

| Component | State | Operations | Correct when |
|---|---|---|---|
| Mutation core (`storage.py`, `ledger.py`) | `tasks/<shard>/<ID>.md`, the ledger segments under `ledger/`, `transactions/<uuid>/plan.json`, `locks/board-mutation.lock`, one lock per task | create, update, exact replace, umbrella batch, delete; recovery at the head of each; `reconcile` | a call changes all of its files or none; the ledger speaks for the file; an abandoned plan can always be decided; a segment keeps its limit, a torn line is never mistaken for an event |
| Task lifecycle and dependencies (`storage.py`, `cli.py`) | status, `blocked_by`, fields, revision, tier | mark, update, `deps add/remove`, `update --field`, exact replace, delete, import, `create --reject-duplicates` | a done task has only finished blockers; no cycles; concurrent edits add up |
| Umbrella finalization (`storage.py`) | admission receipt | admit, finalize (one batch) | the batch obeys the same rule |
| archive-pack (`archive.py`) | `ARCHIVE_PACK_FREEZE.json`, staging directory, packs, manifests, checksums, Git index and HEAD | plan, create, recover, doctor | a task is in exactly one tier with its last content; the freeze can be lifted; the packs are the reviewed ones |
| Record archive (`archive.py`) | one pack per Record, receipt, `record-archive.lock` | archive_record | the same |
| Exact lookup (`storage.py`, `archive.py`) | a rebuildable index of the packs | resolve_task | the answer was true at some time of the call |
| Artifact store (`artifacts.py`, `content_objects.py`) | revision manifests, events, content objects shared by hash | create, revise, successor, archive | revisions are immutable, numbered, and have their bytes |
| Document store (`documents.py`, `record_cli.py`, `frontmatter.py`) | revision files, events | create, update, front-matter import, archive | the same |
| Query cache (`cache.py`) | SQLite rows and the HEAD, index and directory signatures they were built from | refresh, upsert, queries | a reader is told what a file said during its command |
| Board merge (`merge.py`) | sealed plan, staged copy, backup directories | plan, review, apply (two directory swaps, undone when it fails) | nothing any board holds vanishes; a failed apply leaves the old board |
| Record migration (`migration.py`) | plan, status receipt, target board | inventory, plan, apply (resumable), verify | re-running converges; nothing is copied twice; the receipt is true |
| Legacy cutover (`storage.py`) | conversion and rollback freeze markers, receipts, backups, compatibility window | convert, immediate rollback, post-write rollback, accept, lift | no acknowledged write is lost; a lift is earned by this board |
| Dependency graph algorithms (`graph.py`, `cli.py`) | none | readiness, order, cycle path, critical path | agree with their definitions |
| Search and projections (`record_search.py`, `record_cli.py`, `search.py`) | a disposable index of all Records | search, walk by pages | nothing that rests is overlooked; pages add up |
| Lists of the CLI (`cli.py`) | a signed cursor | list by pages | a walk shows one board |
| Read-only host (`hosting.py`) | none | resolve, content, history | a reply was true at some time of the request |
| Package wiki (`package_wiki.py`) | one lock per identity, revisions and events of Documents | publish, verify | no two publications wait for each other; a receipt stays true |
| Skills installation (`skills.py`) | skill directories, install record | install, update | failure restores; the user's work is kept |
| Project registry (`project_registry.py`) | one JSON file under one lock | add, remove, route | confirmed changes stay |
| Controller binding (`storage.py`, `git_creation.py`) | worktree binding, creation context | revalidation before a mutation | a call into the wrong tree is refused |
| Record model and exact replacement (`records.py`, `record_content.py`, `pdr.py`, `profiles.py`, `identity.py`) | none of its own | validation, JSON pointers | data rules |
| Models, validators, codecs, benchmarks, scripts | none | parsing, printing | out of scope, see section 8 |

How they interact. A CLI handler reads the query cache or the files without a
lock, decides, then calls the storage layer, which looks at the freeze markers,
takes `board-mutation.lock`, recovers whatever plan it finds, takes the task
locks in ID order, reconciles a hand-edited file into its ledger, validates,
writes `plan.json`, activates the paths one by one, refreshes the cache and
removes the plan. `archive-pack`, `record archive`, merge and cutover work on the
same files under *other* locks or none; a freeze marker is what keeps writers
out, and a writer looks at it before it queues for the board lock. `reconcile`
takes the task lock only. Documents and Artifacts have locks and rollbacks of
their own. Readers (lookup, search, lists, the host) take no lock of a writer's.
People edit the files and commit them at any time.

What is hard to test. Two processes at every interleaving of those steps; an
exception, Ctrl-C or kill at each of them, and again inside the recovery from
it; answers read before a lock and used after it; one of several files written;
limits that are met exactly. `PROJECT.json` lists 40 such places, each at its
line, with the properties that cover it.

## 2. The modules

| Module | What it is |
|---|---|
| `AtomicBoard` | the promise of the mutation core: calls are atomic on all of their tasks |
| `BoardStore` | the mutation core, one action per step between two effects on the disk; implements `AtomicBoard` |
| `LedgerFile` | one ledger in bytes: segments, roll-over, lines that arrive in parts |
| `Lifecycle` | completion, reopening, dependency edits, umbrella batches, tiers: a board of `AtomicBoard` calls, with requests prepared outside the lock |
| `Sessions` | values computed from an unlocked read: dependency and field edits, duplicate checks |
| `Archive` | archive-pack, its recovery, record archive of tasks, against writers |
| `Packing` | how the plan and the creation of an archive split records into packs |
| `Lookup` | exact lookup of a task that moves between the tiers |
| `RevisionLines` | the promise of the Record stores: a line of immutable revisions |
| `RecordStore` | Documents, Artifacts, content objects and their archival; implements `RevisionLines` |
| `QueryCache` | the cache against readers, writers, people and Git |
| `MergePlan` | what a merge decides, and what its apply accepts |
| `BoardFiles` | a board's directories and the mutations on them, as the tools that replace them whole see them |
| `Merge`, `Cutover` | the tools: apply of a merge; conversion and its two rollbacks. Both extend `BoardFiles` |
| `WholeBoard` | mutations, merge and cutover on one board |
| `Window` | the compatibility window after a conversion |
| `Migration` | the resumable migration of files into Records |
| `DependencyGraph` | order, critical path |
| `Paging`, `RecordIndex` | lists by pages; record search and its index |
| `Publication`, `SkillInstall`, `Registry`, `Host` | package wiki, skills, registry, HTTP host |
| `Ordering` | the order in which a command takes or lists what the model numbers |
| `BoardStoreProofs`, `LifecycleProofs`, `RecordStoreProofs`, `ArchiveProofs` | the theorems on the modules they are named after |
| `CommandProofs` | theorems on `Registry`, `Sessions`, `Window`, `Publication`, `SkillInstall`, `RecordIndex` |
| `ToolProofs` | theorems on `WholeBoard`, `LedgerFile`, `MergePlan`, `Migration`, `Paging`, `DependencyGraph`, `Packing` |
| `ReaderProofs` | theorems on `Lookup`, `Host`, `QueryCache` |
| `NumberLemmas` | least and last of a set of numbers, its ascending sequence, lists by time, and parts of a sequence |
| `MC*` | model values, symmetry and compositions for the runs |

How they fit. `BoardStore` shows that a writer's call, however it is interrupted,
takes effect in one step. `Lifecycle`, `Sessions` and `Archive` build on that and
take a writer's call as one step; `BoardFiles` takes it as two activations,
because what replaces a whole board can come between them. `LedgerFile` lies
below `BoardStore`, whose ledgers are sequences of events. `RecordStore` stands
beside: Documents and Artifacts use neither the board lock nor the write-ahead
plan. `Host`, `Migration` and `Publication` use Records and keep of `RecordStore`
what they can observe: in which order a revision's files appear and go.
`MCTools` and `MCCommands` put machines that share nothing into one run: `Init`
picks the machine of a behaviour, and the others rest in one initial state.

### BoardStore

| Variable | Code |
|---|---|
| `disk` | task files (a content or `None`) and ledgers (a sequence of events with the hash before and after) |
| `staging`, `intents` | transaction directories before and after `plan.json` is published |
| `boardLock`, `taskLock` | the `fcntl` locks; a kill releases them |
| `pc`, `job`, `plan`, `done` | the process: where it is, its call, its plan, the paths activated or restored |
| `head` | Git HEAD, part of a plan's identity |
| `foreign` | history: tasks last written without the board lock |

`Invoke`, `AcquireBoard` start a call. `DiscardStaging`, `KeepActivated`,
`BeginRestore`, `RestorePath`, `EndRestore`, `RefuseRecovery`, `EndRecovery` are
`_recover_transactions_locked`; `NextTask`/`LockTask`/`LockTimeout`, `Read`,
`Refuse`, `MakePlan`, `PublishIntent`, `CheckIdentity`, `Activate`, `Complete`
are the callers' bodies and `_apply_batch_transaction`; `FaultBeforeIntent`,
`FaultAfterIntent`, `EndUndo` its exception paths; `ReconcileStart` to
`ReconcileAppend` are `reconcile`; `Crash`, `MoveHead`, `EditFile` the outside.

### LedgerFile

`segments` holds for each file its bytes, its whole lines and the line it may end
inside of. `PrepareLine` draws an event's size, `Replace` is the replacement
of the last segment inside a transaction, `Open`, `Write`, `Acknowledge` an append
in place, whose `os.write` may take part of a line; `StopAppend` is a kill. `log`
and `stopped` are history. `LedgerIsLog` says: what reads is what was written
whole, and only a stopped append makes a ledger unreadable.

### Lifecycle and Sessions

`request` holds what a client has decided and not yet applied: `AskDepsAdd`,
`AskDepsRemove`, `AskUpdate` are the CLI handlers with their unlocked cycle
check, `ApplyRequest` the locked `update_task`. `SetStatus`, `ExactReplace`,
`Create`, `ReplaceRecord`, `Delete`, `Admit`, `Finalize`, `ArchivePack` and
`ArchiveRecord` are the other calls. `blamed` and `untested` are history: what an
unchecked call broke, and which edges no up-to-date cycle check has seen.
`replace_task_record` and `delete_task` have no caller in the CLI and are
modelled as the public methods they are. `todo` stands for the three open
statuses, which no rule tells apart.

`Sessions` keeps one task with its blockers, fields and revision, and the drafts
of one body. `ReadDeps`, `ReadFields`, `ReadDrafts` are the unlocked halves of the
handlers, `WriteDeps`, `WriteFields`, `WriteDraft` the locked ones; `WriteOther` and
`WriteBlockers` are anybody else's updates. The revision stands for the content
hash that `--expected-revision` names; the hash covers `last_modified`, so no two
states share one. Reopening a finished draft is left out. `EditsAddUp` compares
the task with the calls done one at a time, apart from what a call without a
revision wrote from an outdated read (`overtaken`).

### Archive, Packing and Lookup

A task of `Archive` is a version number, its Markdown and ledger together. `step`
is how far the owner of `juno-archive-pack.lock` is: `Examine`, `Freeze`, `Verify`,
`CopySome`, `CopyRest`, `UnlinkHot`, `Commit`, `RecordPhase`, `RecordCommit`,
`Inspect`, `Unfreeze` follow `create_archive`; `Fail`, `Interrupt`, `Kill`,
`Rollback`, `EndRollback` its ends; `RecoverHot`, `RecoverPacks`, `EndRecovery`,
`RecoverCommitted` are `recover_archive`; `MoveStart` to `MoveKill` are
`archive_record`. `StartWrite` is a writer's look at the freeze marker, `Write`
the rest of its call. `raced` is history: a task that two processes worked on at
once. Assumed: nobody commits while the board is frozen (recovery says it
refuses then, and does), and no task is created meanwhile (a new file is not in
the plan and touches nothing of it). `recover_archive` has no CLI command; it is
the function.

`Packing` runs the one loop that the plan and create share, a record a step
(`TakeNext`): over the selected records in the order of their terminal transitions
(`EndPlan`), and then over each reviewed batch in the order of the IDs (`SplitBatch`,
`WritePacks`). Records are numbered by their IDs; `oldest` is the other order. Both
loops see the same size of a record, for both put the plan's `created_at` into its
envelope.

`Lookup` follows one task while `BeginMove` to `DropPack` move it to the cold tier
or back. `LookHot` to `ReadLast` are the stages of `resolve_task`, one per read:
the hot file, the index (`Audit`, `CompareTree`, `CompareWorktree`, and `TakeLease`,
`ScanHot`, `ScanPacks`, `FillRows` to rebuild it), the sealed manifests, the index
again, the pack. `takenBack` marks calls during which a move was taken back.

### RecordStore

`op[c]` is the call of a process and its next step. A call writes (`object`,)
`revision`, `event`, one step each, and its rollback (`Undo`) takes them back in
the order of the code, one step each; a kill (`Kill`) leaves what is there. `kind`
is drawn in `Init`, so that one module compares both stores: a Document has its
own lock and reads under it; all Artifacts share one, and `revise` reads and
stores its bytes before it takes it. A cold pack is whole (`sealed`) or lacks
some of its three files (`torn`). Left out: slugs and aliases (resolved before any
lock), receipts, the difference between inline, linked and external payloads
(none has local bytes).

### QueryCache

`files`, `commits`, `head` are the board and its history; `cache` is the database:
rows, the HEAD and the untracked files they were taken at, and whether its
metadata are there. `Begin`, `Examine`, `ReadChanged`, `Store` are `ensure_fresh` under the
refresh lease; `Collect`, `Erase`, `Fill` a rebuild; `Query` the answer, after the
lease is given up. `Activate`, `Upsert`, `UpsertFails` are a mutation, `Edit`, `Remove`,
`Commit`, `Checkout`, `Restore`, `DropCache` people. `unnoticed` is history: tasks
whose last change no signature shows.

### MergePlan, BoardFiles, Merge, Cutover, WholeBoard

`MergePlan` is the decision: `Combined` takes the version of the last source of the
command line that has an ID, `Conflicts` and `Final` are the comparison with the target under
either strategy, `ApplyPlan` rebuilds the plan and refuses if it is not the
reviewed one; `EditBoard` changes any board in between. Each board is a function
from IDs to versions, a version a time and whether it is done.

In `BoardFiles` a directory is a record of who made it (`by`), what it holds of
each mutation (`rev`, `has`) and its form, legacy or Markdown. A mutation is
`PassFreeze`, `Prepare`, `WriteTask`, `WriteLedger`, each write only over what was
read. `tool` is the running tool with its step and the directories it has put
away. `Merge` is `apply_plan`: copies, two comparisons, two swaps in two moves
each, verification. `Cutover` is `convert_legacy` (`Convert...`), `immediate_rollback`
(`Immediate...`) and `execute_post_write_rollback` (`Rollback...`). `...Fails` is an
exception and its undo, `...Stops` Ctrl-C or a kill. `exposed` is history: mutations
that wrote after a tool's last look at the board and before its end.

### Window

`RunGate`, `AcceptGates`, `LiftCompare`, `LiftSave` read and write without a lock;
`EditFields`, `ReplaceFields`, `Environment` run between them. Custom-field shapes
stand for all of a task's content. In the code the lift compares the receipt's
items one by one; each is compared with the receipt and not with another item, so
that one step stands for them.

### Migration

`plan` gives each source an ID from its candidates, `receipt` is the status file,
read whole (`ReadStatus`, `VerifyRead`) and written whole (`CreateStatus`,
`MarkCopying`, `WriteOutcome`, `VerifyWrite`) without a lock. `TakeId`, `LinkRevision`,
`LinkEvent`, `Created` create a Record under its lock; `Check` verifies it; `Fail`
and `KillMover` stop a command anywhere. `MakePlan` and `ReusePlan` plan again over
what is there; `Edit`, `ReviseRecord`, `OtherRecord` are other people. `takenBack`
and `told` are history.

### DependencyGraph

The state is Kahn's algorithm at work: `degree`, `queue`, `listed`, a task a step
(`ListNext`) until `Accept` or `RefuseOrder`; then the critical path, `longest` and
`parent`, with the loop over the order (`Relax`), the choice of the end (`FindEnd`) and
the way back from it (`Trace`). `Init` draws every board of four tasks: open,
done, cold or absent, with every set of blockers. `OrderOrReason` and
`CriticalPathIsLongest` compare the result with definitions that do not mention
the algorithm. `Waiting` is what the depth-first search of `get_priority_score`
reaches, the least set that is closed under dependents.

### Paging and RecordIndex

`Paging` is the list command: `Continue` checks the cursor, `Query` reads a page,
`Seal` takes the revision for the next cursor, three transactions; `Change`,
`Rebuild`, `Recreate` happen between them. `RecordIndex` is `record search`: `Ensure`
compares the signature, `ReadCold`, `ReadHot` and `ReplaceIndex` build, `Select` and
`AnswerPage` cut the page by rows and by bytes; `Modify`, `Publish`, `RemoveHot` change
and archive Records meanwhile.

### Publication, SkillInstall, Registry, Host

`Publication`: `TakeLock` takes one lock after the other, `CheckPlan` verifies what
the plan pins, `WriteRevision` and `WriteEvent` write, `FailEvent` takes the revision
back, `KillPublisher` leaves a prefix that the same plan takes up again.
`SkillInstall`: `SetAside`, `PutNew`, `RetireOld`, `WriteRecord`, `Clean` are the steps
of `install`, `FailInstall`, `PutBack`, `PutBackRecord` its undo, `EditSkill` the
user. `Registry`: `TakeGate` loads under the lock, `SaveRegistry` replaces the file,
`StopRequest` is a refusal, a timeout or a kill. `Host`: `ReadTier`, `Resolve`,
`ReadContent`, `ReadHistory` are the reads of one request, while `WriteManifest`,
`EndRevise`, `BeginPack`, `EndPack`, `Unlink` write and archive the Artifact.

## 3. The runs

| Run | Shows | Bounds |
|---|---|---|
| `board_crash` | creates and two-task batches are atomic: `ImplementsAtomicBoard`; `SingleTransaction`; an abandoned intent is eventually resolved: `IntentResolved` | 2 tasks, 2 processes, 2 contents, 2 events per ledger, 1 HEAD move, 2 kills |
| `board_outside` | with hand edits and `reconcile`: `Restorable`, `LedgerSpeaks`, `HistoryLinked`, `Protocol`, `CommittedHistorySurvives`, `TypeOK` | 1 task, 2 processes, 3 events, 1 HEAD move, 1 kill |
| `board_reconcile_stuck` | *violation*: with `reconcile` it may never be resolved | 1 task |
| `lifecycle_calls` | `DoneIsUnblocked` under all calls, `CyclesAreUntested` under concurrent dependency edits, `TypeOK` | 3 tasks, open and done, 2 clients, one umbrella |
| `archive_moves` | `ExactlyOnce`, `HeadHoldsFrozen`, `CommittedPacksStay` | 2 tasks, 1 writer, 1 update each, 2 commits, all failures |
| `records_calls` | `ImplementsRevisionLines`, `BytesKept`, `RecordsSettle` | 1 Record of either kind, 3 processes, 2 contents, 2 revisions, kills |
| `records_bytes_lost` | *violation*: a stale `revise` removes another revision's bytes | 2 Artifacts, 2 processes |
| `cache_reads` | `ReadsAreExplained` | 2 tasks, 2 readers, 2 contents, 2 commits, 2 changes |
| `cache_stale` | *violation*: a stale cache is taken for fresh | 2 tasks, 1 reader |
| `whole_interrupted` | *violation*: Ctrl-C between two swaps undoes nothing | 2 mutations, 1 tool |
| `tools` | eleven properties of seven machines: `AcknowledgedSurvive`, `WholeOrUndone` (board), `MergeAddsUp`, `VerifiedHolds`, `OneRecordPerSource` (migration), `OrderOrReason`, `CriticalPathIsLongest`, `SegmentsWithinLimit`, `LedgerIsLog`, `WalkIsExact`, `PacksFollowThePlan` | see below |
| `commands` | ten properties of eight machines: `EditsAddUp`, `DuplicatesOverlap`, `LiftIsEarned`, `SearchAddsUp`, `ReceiptStaysTrue`, `NoCircularWait`, `InstallKeepsWork`, `ConfirmedChangesStay`, `AnswersAreTrue`, `HostTellsTheTruth` | see below |

Why the bounds are enough.

* The mutation core: two processes give every pair of conflicting steps, and the
  board lock admits no third party; two kills are needed for a kill inside the
  recovery from a kill. Two tasks make a batch torn; order among more adds
  nothing, for paths are activated in one fixed order. The theorems below
  cover every size.
* `lifecycle_calls`: a behaviour is either "edges", two clients that edit edges of
  open tasks at once, or "calls", every call in one step. (Bound of the second: an
  unchecked call makes no task its own blocker.) A request ends in the
  same `Update` that `SetStatus` and `ReplaceRecord` make with *every* status and
  every edge set, so requests can reach no board that breaks the completion
  rule and those two do not. Three tasks let a cycle be longer than a direct
  edge back. Its theorems cover both parts together.
* `archive_moves`: each transaction has one owner of each of the two archive
  locks; two tasks let a selection be partial and a copy be half done.
* `records_calls`: calls on different Records meet only in the lock and in the
  object store, and both are shared by calls on one Record too. Three processes
  are one that stores, one that finds, one that archives.
* `cache_reads`: two tasks, so that an answer can mix one that is fresh with one
  that is not; a second reader is needed to rebuild under the first one's query.
* `tools`: a board with one creating and one updating mutation and three tool runs
  (a conversion, a merge or writes, a rollback); two sources, three candidate
  IDs and two migration commands, one outside event; a merge of two sources with
  two IDs and two times, so older, equal and newer all occur, of which one task
  waits for the other; every dependency graph of four tasks, which is where a
  chain and a cycle can meet; five events of 2, 3, 6 or 7 bytes in segments of 6:
  below, at and above the limit, alone and together; three rows by pages of one;
  three records of 1 to 4 bytes under every limit up to 4.
* `commands`: two processes each. Three writes of a task make one client's value
  outdated twice; three tasks of one body; one task of a window's two may bring
  the new shape; three Records, three changes, pages of one or two; two
  manifests that share a Document, where the first and last identity may share
  a lock; two skills and one directory of an old release; two aliases and
  projects; two moves of a task; three revisions of an Artifact.

Symmetry is used over processes, contents and (where they are alike) tasks, in
runs of safety properties only; `board_crash` and `board_reconcile_stuck` check
liveness and have none. Refinements into a specification without fairness are
safety properties.

`CHECK_DEADLOCK FALSE` stands where the modelled system may really stop: all
tasks cold, commits and versions used up, every Record archived, an order
printed. The `BoardStore` and `QueryCache` runs check for deadlock; circular waiting
among publications is the property `NoCircularWait`.

Fairness. Only `FairSpec` of `BoardStore` assumes any: weak fairness of each
process's program, that is, a process that is running goes on, and clients keep
calling. Locks are waited for with a timeout in the code; a call that gives up
is followed by another. Nothing is assumed of kills, faults, HEAD or people.
There is no weaker assumption under which an abandoned intent could go away:
only the next writer removes it. `IntentResolved` leaves out an intent that was
made at another HEAD: recovery refuses that one by design until HEAD is back.

What the properties excuse, because the code does not promise more; each window
is as small as a history variable makes it:

* `LedgerSpeaks`, `Restorable`: tasks written without the board lock (`foreign`).
* `ExactlyOnce`: a task two processes worked on at once (`raced`).
* `BytesKept`: objects that a stale `revise` takes back (`contested`, what
  `records_bytes_lost` finds); `RecordsSettle`: Records a call was killed on, and
  tiers of those that were revised after they were archived.
* `AcknowledgedSurvive`: mutations between a tool's last comparison and its end
  (`exposed`); a merge takes no lock that would keep them out.
* `ReadsAreExplained`: changes that no signature shows, a database that one row
  made (`excused`); these are what `cache_stale` finds.
* `EditsAddUp`: writes computed from an outdated read, without a revision.
* `WalkIsExact`: a change inside a command of the walk; `SearchSeesAll`: another
  process replaced the index between the check and the query; `PagesAddUp`: a
  last row that the output budget cuts is lost (section 6).
* `VerifiedIsThere`, `AnswersAreTrue`: a Record or a move that was taken back.
* `HostTellsTheTruth`: ETag and bytes may differ when the Artifact was revised
  meanwhile, the history may be short when it was archived meanwhile.
* `ReceiptStaysTrue`: Documents that were archived (section 6).

Each property is also run against a mutated definition, a plausible slip in the
code (a dropped guard, a swapped order, a forgotten reset), which TLC finds; the
mutated forms stand in the modules next to the real ones, marked "Wrong:".

## 4. What is proved

For every number of tasks, processes, contents and every bound, from the named
assumptions on the constants (distinct special values, sets of the right kind):

| Theorem | Says |
|---|---|
| `BoardStoreProofs!TypeCorrect` | types |
| `BoardStoreProofs!ProtocolHolds` | what each process relies on at each step |
| `BoardStoreProofs!OneTransaction` | there is at most one transaction directory |
| `BoardStoreProofs!AlwaysRestorable` | recovery can always decide, foreign writes aside |
| `BoardStoreProofs!LedgerAlwaysSpeaks` | the ledger ends in the hash of the file |
| `BoardStoreProofs!AlwaysLinked` | `HistoryLinked` |
| `BoardStoreProofs!HistorySurvives` | `CommittedHistorySurvives` |
| `BoardStoreProofs!BoardIsAtomic` | without hand edits and `reconcile`, `BoardStore` implements `AtomicBoard` |
| `LifecycleProofs!TypeCorrect` | types |
| `LifecycleProofs!CompletionRule` | `DoneIsUnblocked` |
| `LifecycleProofs!OnlyUntestedCycles` | `CyclesAreUntested` |
| `ArchiveProofs!OneTier` | `ExactlyOnce` |
| `ArchiveProofs!HeadHoldsSafe` | `HeadHoldsFrozen` |
| `ArchiveProofs!PacksStay` | `CommittedPacksStay` |
| `RecordStoreProofs!AlwaysSettles` | `RecordsSettle` |
| `RecordStoreProofs!RecordsAreLines` | `RecordStore` implements `RevisionLines` |
| `RecordStoreProofs!AlwaysBytesKept` | `BytesKept` |
| `ToolProofs!FileSafe` | `SegmentsWithinLimit`, for every limit and all sizes |
| `ToolProofs!LogSafe` | `LedgerIsLog`, likewise |
| `ToolProofs!MergeSafe` | `MergeAddsUp` |
| `ToolProofs!AcknowledgedSafe` | `AcknowledgedSurvive`, for all numbers of mutations and tool runs |
| `ToolProofs!WholeSafe` | `WholeOrUndone` |
| `ToolProofs!VerifiedSafe` | `VerifiedHolds` |
| `ToolProofs!OneRecordSafe` | `OneRecordPerSource` |
| `ToolProofs!WalkSafe` | `WalkIsExact`, for every page size |
| `ToolProofs!OrderSafe` | `OrderOrReason`, for every board |
| `ToolProofs!CriticalPathSafe` | `CriticalPathIsLongest`, for every board |
| `ToolProofs!PackingSafe` | `PacksFollowThePlan`, for all sizes, limits and orders |
| `CommandProofs!RegistrySafe` | `ConfirmedChangesStay` |
| `CommandProofs!SessionsSafe` | `EditsAddUp` |
| `CommandProofs!DuplicatesSafe` | `DuplicatesOverlap` |
| `CommandProofs!WindowSafe` | `LiftIsEarned` |
| `CommandProofs!ReceiptHolds` | `ReceiptStaysTrue` |
| `CommandProofs!PublicationsDoNotWaitInACircle` | `NoCircularWait` |
| `CommandProofs!InstallSafe` | `InstallKeepsWork` |
| `CommandProofs!SearchSafe` | `SearchAddsUp` |
| `ReaderProofs!LookupSafe` | `AnswersAreTrue` |
| `ReaderProofs!HostSafe` | `HostTellsTheTruth` |
| `ReaderProofs!CacheSafe` | `ReadsAreExplained` |

*The mutation core.* Neither `Restorable` nor `LedgerSpeaks` is inductive: whether
an activation leaves a readable board depends on what the process holds in
hand. The inductive invariant is `TypeOK`, `Protocol`, `Restorable`, `LedgerSpeaks`
together. `Protocol` says for each step which locks a process holds, that the
directory it works on is the only one, that both images of a plan are sound,
and which paths it has already written; it is what a developer would have to
keep true when editing
`_apply_batch_transaction`. Two processes are never both past the
board lock, so every step disturbs only the plan of the one that takes it;
`reconcile` and people disturb only tasks in `foreign`.

*The board's history.* A ledger links up only if what is appended was computed from
its tip, and a recovery may only put back a ledger that the committed one extends.
`History`, on top of the invariant above, says so: all ledgers in the tree, on disk
and in a plan's images are `Linked`; an after-image is its before-image plus events
that `Fit`; and what a process has read and not yet written (`Knows`) is still true,
foreign tasks aside. The step that publishes the intent is where the atomic board
changes; `BoardIsAtomic` shows that every other step leaves the mapped board alone,
because activating, restoring and undoing only make the files what the mapping
already says they are. Its hypotheses, no editors and no reconcilers, are those of
`board_crash`: with either the refinement is false.

*Record stores.* A Record under work is in parts, and which parts are there follows
from its call's `at` and `wrote`. `Structure` says that: `Stepwise` what a step has
written and may take back, `Exclusive` that one call at a time is past a Record's
lock, `Whole` that a Record apart from its last revision is complete (`Shape` what
the last one lacks), `Moves` where an archive stands. The abstract line
grows when the revision is linked; a rollback happens before it counts. `Bytes`
adds who may take an object back: a call that
created it and whose revision is not linked yet; anyone who found it meanwhile makes
it contested, and this is all that `BytesKept` exempts.

*The completion rule.* `DoneIsUnblocked` is inductive with the types: a checked
call adds nothing to `Broken`, an unchecked one adds it to `blamed` as well. The
heart is `UpdateBreaksNothing`: the written task passed the completion check on
its prospective value, and any other task it could break is one that
`_assert_resolved_blocker_not_reopened` would have found.

*Cycles.* See `LifecycleProofs`: a prepared request carries what its check has
established, and the tasks that do not lead back to its target form a set that
is closed under edges; with it the witness that keeps a task off every tested
cycle is rebuilt after the edit.

*The archive.* `ExactlyOnce` speaks of quiet boards only. `ArchiveInv` says where a
task is in every state: at rest in one tier; with `record archive`, still hot, its
pack there or not; or with archive-pack, hot, cold or both, as far as `step` has
come. A task that both moves, or that a writer changed while it moved, is in
`raced` and exempt. `Owned` ties the marker and the staging directory to `step`:
undoing always finds the bytes it needs. `Committed` and `Heads` are why recovery
may take packs away: a marker in phase frozen or activating whose `source_head` is
HEAD names packs that no commit holds, since HEAD only grows.

*Segments.* The limit is checked when the segment is chosen, and the line arrives
later and in parts. `FileInv` adds that the rest of a line under way always fits;
a stopped append only makes a segment smaller than it was promised to be.

*Commands.* `RegistryInv`: whoever holds the gate has in hand the registry that is
in the file, or is the one whose saved change is not confirmed yet. `SessionsInv`:
as long as nobody wrote since a call read, what it computed is the edit of the
task as it is; a call with a revision writes only then, one without marks what it
overwrote. `DraftsInv`: what a create under way has read of its body's
tasks was finished, and a finished one stays so. `WindowInv`: a receipt, and the receipt a lift compared,
bind evidence that was made from the truth they name.

*Publication.* The locks of a call are the first ones of its sequence (`Locked`), and
every sequence ascends: whoever waits holds only locks below the one it waits for, so
two calls cannot wait for each other. A call past its locks is alone on its entries.
`Publishing` says what that gives it: the entries before its turn are `Finished`, the
one of its turn is `Begun` once its revision is written, those after it still follow
the plan as they did at the check. A receipt's pins are then of revisions with an
event, and later steps only append, or take back a revision that has none (`Pinned`,
with `Sound`: an event is of a revision that is there).

*Skill installation.* A call is undone from what it has set aside, so `SetAsideOnce`
says that it sets a directory aside once, with the content it had found unless somebody
had written there by then, and that it sets nothing of the user's aside unforced.
`ToDo`, what is still to be done, keeps that true: the lists of a call name each directory
once and none that is set aside already. `Undoable` follows the undo back: a directory
set aside is empty or new, any other is as the call found it. Another call's step, or
the user's, makes the directory `disturbed`, and both the invariant and the property
except it.

*A whole board.* `WholeInv` follows both boards, the old one and the one a tool is
making. `Sure` are the mutations that have written their task, and not after a tool's
last look, `Due` those of them that have written their ledger too; `Kept` says that a
pair of directories has them all and is of one run. Until its last look a tool has
changed nothing (`Untouched`); after it, at every step of the swaps, both what is put
away and what is made are `Kept`, each put together from the places where its two
directories are (`MergeSwapping`, `ConvertSwapping`, `RollbackSwapping`). An undo that
gets through therefore restores a whole board, and so does reaching the end. Three
facts make the last look good enough. A ledger names only mutations that were
acknowledged, so that a mutation is not lost by its unfinished half. The merge's copies
may lack a mutation that was acknowledged while they were made (`MergeCopying`), but
then the ledger has changed since it was read, which the comparison sees. And
the cutover commit has no mutation that must be kept, so `git revert` takes none away
(`CutoverIsBare`). A tool that is stopped between its swaps ends what the invariant
promises, and in the model no tool starts after it; this is the `broken` that both
properties except.

*Merge and migration.* `MergeAddsUp` is inductive with the types. `CombinedIs` and
`FinalIs` say what the merged board has for one ID: the target's version, or that of
the last source that has it where the target has none or an older one. An apply takes
only a plan that is the reviewed one again.
`MigrationInv` has two halves. *What is in hand*: a command with a copy of the receipt
holds every entry in `told` and none that is not there (`Works`), and a Record under
creation has one creator (`Exclusive`), who is as far as its step. *What a source could
have had*: each candidate that a plan passed over belongs to an earlier source or has a
Record that is not the source's and stays so (`Chosen`); a new plan therefore
passes over it again, and no second Record of the source is ever made (`OwnId`).

*Search.* What a searcher has read under a signature is `HasAll`: every Record that has
rested since is in it as it is now, whichever tier it was found in, since `ReadCold`
before `ReadHot` can miss none that moves in between. The index inherits this from the
search that made it, for every other search under the same signature; a search whose
index was replaced since its check is the one the property excepts. The rows of one
index differ in time (`Apart`, from `Dated`), so there is one list of them, and what is
older than the last row given is the rest of that list (`OlderAreTheRest`). `WalkHolds`
then keeps what was given a first part of the list and the page under work the next one.

*Lists by pages.* `WalkIsExact` speaks of the end of a walk; in between a cursor must be
good for what follows. `Along` says that what was shown is the list of the walk's board
down to the cursor's key (`ShownTo`), and that the database can have the cursor's
revision only while that board is still the one (`Binds`): a revision computed from the
rows is the board's own, a unique one is used up by the next change. A cursor that is
accepted therefore reads on in the same list, whose rest is what is older than the key.

*The ledger in bytes.* Between writes (`AtRest`) a readable ledger says the log, and only
a stopped append leaves a line open. While a line arrives (`Arriving`) the segments before
the last read, and the last one either holds two events in one line, which a stopped
append must have begun, or the log without this event and a part of its line. What is
acknowledged and what a kill leaves follow, since a part reads only when nothing but its
newline is missing. For this an event's line has two bytes at least, an object and its
newline. What a list of segments says is joined by a recursive function of the community
modules; `FlattenLast` (all but the last, joined, and then the last) is proved without
induction, at the least prefix where it would fail.

*Order and critical path.* A task's `degree` is the number of its active blockers that
are not listed yet (`Awaited`), zero exactly for what is listed or queued
(`Counted`): a blocker is listed before what waits for it, and when the queue is
empty each task that is left waits for one that is left or has no file. What waits for
a task, at any distance, also waits for its blocker, and the task itself does not wait
for itself, so the blocker scores higher; that there is no circle follows from the
order. The relaxed tasks are a first part of the order, so the lengths of what they
wait for do not change any more (`Measured`): every active blocker that is relaxed has a
smaller length, and `parent` has one that is smaller by one. Along any chain the length
therefore grows at each task, and the path, traced backwards (`Traced`), loses one at
each step until it is one.

*Packs.* While the plan's loop runs, what is closed, open and to come is the selection
in order (`Planned`); the closed batches keep the limits and each is divided from its
neighbour by a record that had no room (`Tight`). A batch that the loop closed is
either one record or within both limits, and its parts are too, in whatever order they
come (`TotalOfMore`, `ListCounts`): so the loop of create never finds the open batch
full (`SplitTakes`), and makes one pack of it. The sum of sizes is stated as the number
of pairs of a record and one of its bytes, which spares the proof an induction.

`NumberLemmas` has the lemmas that these orders rest on: a set of numbers has a least
one, a finite one has a last and one ascending sequence, and there is one list by time. They use the
well-foundedness of the finite sets of numbers in place of an induction scheme. To
state them, the models assume what the code gives: the entries of a manifest and the
skill directories are finitely many and numbered, and the values for "nobody" and
"nothing" are no call, receipt, release or process.

*Readers.* `LookupInv`: the task is in one tier at least, a pack is not newer than
the file and is the same while a move runs; so a call that missed the file finds
a pack no older than the call, unless the move was taken back. `HostInv`: while
a hot manifest is left the latest is, and its events are complete up to a revision
under way; once none is left the pack is whole. What a request has resolved is
the hot revision it read, which was the latest at some time of it, or the pack's.

*The cache.* `CacheInv` says what the signatures are worth. In a finished database a
row that is not as its file is one the next validation reads again (`StaleIsCandidate`),
or is named: a file that is clean, and no different in the cache's commit, with another
row is in `unnoticed`, and the untracked files are the recorded ones unless a directory
has changed (`Accounted`). Each of the three places that stores a signature, the end
of a refresh, of a rebuild and of a mutation, has to keep this with a HEAD it
did not read the rows at. What a reader has validated may be overwritten before its
query, since the lease is given up in between: whatever the next owner of the lease has
read and will store was in the file after the first was ready, so the first has seen it
too (`Known`); a mutation's row is its file's content or excused.

## 5. What is only model-checked

Liveness (`IntentResolved`), which is out of the proof system's reach, and the
violations, which are counterexamples. Every other property of a run has its theorem
above.

## 6. Where the code and its documents disagree

Each of these is a run that ends in a counterexample, and a finding in
`PROJECT.json` with the lines.

1. **reconcile against an abandoned intent** (`board_reconcile_stuck`). It takes
   neither the board lock nor recovery; after a kill in mid-activation it appends an
   event to a path the plan covers, and recovery refuses from then on.
2. **Lost bytes** (`records_bytes_lost`). Artifact `revise` stores its object before the
   lock, and a stale caller removes it though a revision committed meanwhile has
   deduplicated onto it.
3. **A stale cache is served** (`cache_stale`). A mutation on a board without a cache
   makes a database of one row, and the next list takes it for the board.
4. **Ctrl-C between two swaps** (`whole_interrupted`). The undo of conversion and merge
   is an `except Exception`; the `finally` removes the directories put away.

Met on the way, described here and without a run of their own:

* Ctrl-C in archive-pack skips the rollback but not the `finally` that removes the
  staging directory: the freeze stays, and recovery cannot lift it.
* Exact replacement goes around the completion rule; reopening looks for
  dependents among hot files only; `update_task` does not raise a Record's
  revision number.
* An archived Document can be revised by the front-matter import, an archived
  Artifact by a raced `revise`: the revision then stands beside the sealed pack.
* `record archive` of a task may complete while archive-pack is moving it, whose
  rollback then puts the hot file back beside the sealed pack. `archive_record`
  given a `--receipt-file` that exists refuses, but its rollback unlinks the file.
* A lookup can report an existing task missing while archive-pack takes its move
  back. `_ensure_query_cache` compares the tree before the worktree, with a gap.
* An archived blocker is "missing" to `order` (`cli.py:1149`, against its comment at
  `cli.py:2702`), while `ready` counts it as done (`cache.py:521`). The cycle check of
  `create` (`cli.py:1396`) looks for a path from `__new__` and can find none.
* Merge: of two sources the later one wins even where the earlier is newer
  (`merge.py:324`, against the docstring at `merge.py:229`); the plan that keep-both
  makes of a conflict can never be applied, for `<ID>_1` is no valid ID; the cold
  tier is not looked at.
* `record_search.py:517`: a last row that the output budget cuts is on no page. A
  slow rebuild replaces a newer index. A task that is in both tiers for a moment
  fails every record search.
* A publication receipt cannot be verified once one of its Documents is archived.
* A skill install that is stopped leaves the copies it set aside, and a user's edit
  between its check and its swap goes.
* The host joins an ETag and bytes of different revisions (`hosting.py:388`), and
  sends an empty history when the Artifact is archived in between.
* A failed create of a Document leaves its directory, so the ID cannot be used.

## 7. Plan

Done, in the order of what loses a user's data first: the mutation core, the
lifecycle, the archive, the Record stores; merge, cutover, migration; the cache,
the graph, the ledger in bytes; lookup, search, lists, host; wiki, skills,
registry; the proofs of section 4.

What would come next:

1. The receipt files of `record archive`, once their rollback is settled.
2. The seals of umbrella receipts, as a second actor that changes evidence between
   admission and finalization.
3. Power loss, if the code comes to rely on its order of `fsync`.

## 8. What is not modelled, and why

* Validation, parsing and printing of single records and of the configuration
  (`models.py`, `validators.py`, `codec.py`, `config.py`, `frontmatter.py`, `pdr.py`,
  `profiles.py`): data rules without state; in the models a validation may refuse
  any call.
* Ranking, filtering and redaction of search results, Markdown rendering and HTTP
  routing: functions of a single row or request.
* The seals and evidence hashes of umbrella and cutover receipts: they can only
  refuse, and appear as refusals.
* The receipt files of `record archive`.
* The data of controller binding and creation context: what is compared, not when.
* Forwarding a command to a registered project: a subprocess.
* Benchmarks, release scripts and import aliases.
* fsync and power loss: writes are durable once made, a kill ends a process, not
  the machine.
