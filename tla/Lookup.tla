-------------------------------- MODULE Lookup --------------------------------
(***************************************************************************)
(* Exact lookup of one task while it moves between its hot file and a cold *)
(* pack (storage.py, resolve_task; archive.py).  A reader takes no lock of *)
(* the mover's: it looks at the file, then at an index of the packs that   *)
(* can be rebuilt, then at the sealed manifests, which alone prove that a  *)
(* task does not exist.  How the task moves is module Archive, here for    *)
(* one task and its latest pack, with no writer inside a move.             *)
(***************************************************************************)
EXTENDS Naturals

CONSTANTS
    Lookers,      \* processes that look the task up
    Gone,         \* no file, no pack, no index, nobody
    MaxVersion,   \* bound: updates of the task
    MaxMoves      \* bound: moves to the cold tier

ASSUME LookupAssumption ==
    /\ {MaxVersion, MaxMoves} \subseteq Nat
    /\ Gone \notin Nat \cup {"pack", "pack back", "record"} \cup [version : Nat, whole : BOOLEAN]

VARIABLES
    hot,       \* the version in the hot file, or Gone
    pack,      \* [version, whole], or Gone: whole once its three files are there
    tracked,   \* whether HEAD holds the pack
    mover,     \* "pack", "pack back", "record": who moves the task; or Gone
    moves,     \* moves so far
    rows,      \* the index: [cold, tracked], what it was built from; or Gone
    refresher, \* the owner of cache-refresh.lock
    lookup     \* looker -> its call

lookupVars == <<hot, pack, tracked, mover, moves, rows, refresher, lookup>>
task == <<hot, pack, tracked, mover, moves>>

Whole == pack # Gone /\ pack.whole
Broken == pack # Gone /\ ~pack.whole
Latest == IF hot # Gone THEN hot ELSE pack.version

---------------------------------------------------------------------------
(* The task *)

UpdateTask ==
    /\ mover = Gone /\ hot # Gone /\ hot < MaxVersion
    /\ hot' = hot + 1
    /\ UNCHANGED <<pack, tracked, mover, moves, rows, refresher, lookup>>

\* archive-pack create or record archive copies the first of a pack's files.
BeginMove ==
    /\ mover = Gone /\ hot # Gone /\ pack = Gone /\ moves < MaxMoves
    /\ mover' \in {"pack", "record"} /\ moves' = moves + 1
    /\ pack' = [version |-> hot, whole |-> FALSE]
    /\ UNCHANGED <<hot, tracked, rows, refresher, lookup>>

EndCopy ==
    /\ mover \in {"pack", "record"} /\ Broken
    /\ pack' = [pack EXCEPT !.whole = TRUE]
    /\ UNCHANGED <<hot, tracked, mover, moves, rows, refresher, lookup>>

\* record archive is done, or killed just before.
RemoveFile ==
    /\ mover \in {"pack", "record"} /\ Whole /\ hot # Gone
    /\ \/ hot' = Gone
       \/ mover = "record" /\ UNCHANGED hot
    /\ mover' = IF mover = "record" THEN Gone ELSE mover
    /\ UNCHANGED <<pack, tracked, moves, rows, refresher, lookup>>

CommitPack ==
    /\ mover = "pack" /\ hot = Gone
    /\ tracked' = TRUE /\ mover' = Gone
    /\ UNCHANGED <<hot, pack, moves, rows, refresher, lookup>>

\* People commit what record archive left, in HEAD it is as good as a pack.
CommitRecord ==
    /\ mover = Gone /\ Whole
    /\ tracked' = TRUE
    /\ UNCHANGED <<hot, pack, mover, moves, rows, refresher, lookup>>

\* A rollback, or recover_archive: first the file comes back.  The calls that
\* are looking learn of it, for the property.
PutBackFile ==
    /\ mover = "pack"
    /\ hot' = pack.version /\ mover' = "pack back"
    /\ lookup' = [l \in Lookers |->
          IF lookup[l] = Gone THEN Gone ELSE [lookup[l] EXCEPT !.takenBack = TRUE]]
    /\ UNCHANGED <<pack, tracked, moves, rows, refresher>>

DropPack ==
    /\ mover = "pack back" \/ (mover = "record" /\ Broken)
    /\ pack' = Gone /\ mover' = Gone
    /\ UNCHANGED <<hot, tracked, moves, rows, refresher, lookup>>

---------------------------------------------------------------------------
(* resolve_task *)

In(l, stage) == lookup[l] # Gone /\ lookup[l].stage = stage
Set(l, call) == lookup' = [lookup EXCEPT ![l] = call]
Become(l, stage) == Set(l, [lookup[l] EXCEPT !.stage = stage])
Say(l, answer) == Set(l, [lookup[l] EXCEPT !.stage = "said", !.answer = answer])
\* ArchiveFormatError: an incomplete pack, a task in both tiers, an index that
\* cannot be repaired.
Refuse(l) == Set(l, Gone)

LookHot(l) ==
    /\ lookup[l] = Gone
    /\ Set(l, [stage |-> IF hot # Gone THEN "audit" ELSE "identity", answer |-> hot,
               since |-> Latest, then |-> "entry", takenBack |-> FALSE])
    /\ UNCHANGED <<task, rows, refresher>>

\* With the file read: the sealed manifests must not have the task, too.
Audit(l) ==
    /\ In(l, "audit")
    /\ IF pack # Gone THEN Refuse(l) ELSE Say(l, lookup[l].answer)
    /\ UNCHANGED <<task, rows, refresher>>

\* _ensure_query_cache, under its lease: the identity of the tree in HEAD first,
CompareTree(l) ==
    /\ In(l, "identity") /\ refresher = Gone
    /\ refresher' = l
    /\ IF rows # Gone /\ rows.tracked = tracked THEN Become(l, "dirty") ELSE Become(l, "rebuild")
    /\ UNCHANGED <<task, rows>>

\* then what Git says of the worktree.
CompareWorktree(l) ==
    /\ In(l, "dirty")
    /\ IF (pack # Gone) # tracked \/ Broken
       THEN Become(l, "rebuild") /\ UNCHANGED refresher
       ELSE Become(l, "entry") /\ refresher' = Gone
    /\ UNCHANGED <<task, rows>>

\* rebuild_cache of an index that a manifest, or bytes, prove wrong.
TakeLease(l) ==
    /\ In(l, "repair") /\ refresher = Gone
    /\ refresher' = l /\ Become(l, "rebuild")
    /\ UNCHANGED <<task, rows>>

\* The hot files come first, then the packs.  Between deleting the database and
\* filling it no reader finds a row.
ScanHot(l) ==
    /\ In(l, "rebuild")
    /\ Set(l, [lookup[l] EXCEPT !.stage = "scan", !.answer = hot])
    /\ UNCHANGED <<task, rows, refresher>>

ScanPacks(l) ==
    /\ In(l, "scan")
    /\ IF Broken \/ (Whole /\ lookup[l].answer # Gone)
       THEN Refuse(l) /\ refresher' = Gone /\ UNCHANGED rows
       ELSE Set(l, [lookup[l] EXCEPT !.stage = "fill", !.answer = Whole])
            /\ rows' = Gone /\ UNCHANGED refresher
    /\ UNCHANGED task

FillRows(l) ==
    /\ In(l, "fill")
    /\ rows' = [cold |-> lookup[l].answer, tracked |-> tracked]
    /\ refresher' = Gone
    /\ Become(l, lookup[l].then)
    /\ UNCHANGED task

Found == rows # Gone /\ rows.cold

\* Wrong: what the index does not have does not exist.
ReadIndexAlone(l) ==
    /\ In(l, "entry")
    /\ IF Found THEN Become(l, "read") ELSE Say(l, Gone)
    /\ UNCHANGED <<task, rows, refresher>>

ReadIndex(l) ==
    /\ In(l, "entry")
    /\ IF Found THEN Become(l, "read") ELSE Become(l, "inventory")
    /\ UNCHANGED <<task, rows, refresher>>

ReadManifests(l) ==
    /\ In(l, "inventory")
    /\ IF Broken THEN Refuse(l)
       ELSE IF Whole THEN Set(l, [lookup[l] EXCEPT !.stage = "repair", !.then = "again"])
       ELSE Say(l, Gone)
    /\ UNCHANGED <<task, rows, refresher>>

ReadIndexAgain(l) ==
    /\ In(l, "again")
    /\ IF Found THEN Become(l, "read") ELSE Refuse(l)
    /\ UNCHANGED <<task, rows, refresher>>

\* The bytes are verified; when they do not verify, the index is rebuilt once.
ReadPack(l) ==
    /\ In(l, "read")
    /\ IF Whole THEN Say(l, pack.version)
       ELSE Set(l, [lookup[l] EXCEPT !.stage = "repair", !.then = "last"])
    /\ UNCHANGED <<task, rows, refresher>>

ReadLast(l) ==
    /\ In(l, "last")
    /\ IF Found /\ Whole THEN Say(l, pack.version) ELSE Refuse(l)
    /\ UNCHANGED <<task, rows, refresher>>

\* The answer is printed; or the process ends at any time, its lease with it.
EndLookup(l) ==
    /\ lookup[l] # Gone /\ Set(l, Gone)
    /\ refresher' = IF refresher = l THEN Gone ELSE refresher
    /\ UNCHANGED <<task, rows>>

LookupInit ==
    /\ hot = 0 /\ pack = Gone /\ tracked = FALSE /\ mover = Gone /\ moves = 0
    /\ rows = Gone /\ refresher = Gone /\ lookup = [l \in Lookers |-> Gone]

LookupNext ==
    \/ UpdateTask \/ BeginMove \/ EndCopy \/ RemoveFile \/ CommitPack \/ CommitRecord
    \/ PutBackFile \/ DropPack
    \/ \E l \in Lookers :
          \/ LookHot(l) \/ Audit(l)
          \/ CompareTree(l) \/ CompareWorktree(l) \/ TakeLease(l)
          \/ ScanHot(l) \/ ScanPacks(l) \/ FillRows(l)
          \/ ReadIndex(l) \/ ReadManifests(l) \/ ReadIndexAgain(l) \/ ReadPack(l) \/ ReadLast(l)
          \/ EndLookup(l)

LookupSpec == LookupInit /\ [][LookupNext]_lookupVars

---------------------------------------------------------------------------
(* Properties *)

\* A lookup answers with what the task was at some time of the call, in either
\* tier.  It calls the task missing (the task always exists) only when a failed
\* or recovered archive-pack put the file back during the call.
AnswersAreTrue ==
    \A l \in Lookers :
        In(l, "said") =>
            IF lookup[l].answer = Gone THEN lookup[l].takenBack
            ELSE lookup[l].answer \in lookup[l].since..Latest

=============================================================================
