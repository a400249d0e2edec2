----------------------------- MODULE Migration ------------------------------
(***************************************************************************)
(* The preservation-first migration of files into native Records           *)
(* (migration.py): a plan gives every source file a Record ID, apply       *)
(* creates the Records one at a time and keeps a status receipt, verify    *)
(* reads them back.                                                        *)
(*                                                                         *)
(* The receipt is one JSON file, read whole and replaced whole, with no    *)
(* lock: two commands that overlap write over each other's entries.  A     *)
(* Record is a revision file and then an event file in a directory that    *)
(* is never removed (RecordStore has the whole store); creation holds the  *)
(* Record's lock, looking and verifying hold none.                         *)
(***************************************************************************)
EXTENDS Naturals, FiniteSets

CONSTANTS
    NumSources,    \* sources 1..NumSources in path order
    Ids,           \* Record IDs
    Candidates,    \* source -> the IDs its seed gives for counter 0, 1, ...
    Movers,        \* processes that apply or verify
    Selections,    \* bound: the sets of sources a command is given
    Nil,
    MaxEvents      \* bound: edits, revisions, foreign Records, re-plans, kills

Sources == 1..NumSources

ASSUME NumSourcesAssumption == NumSources \in Nat \ {0}
ASSUME CandidatesAssumption == Candidates \in [Sources -> [1..NumSources + 1 -> Ids]]
ASSUME SelectionsAssumption == Selections \subseteq (SUBSET Sources) \ {{}}

\* An entry of the receipt, and a command: `todo` the sources still to do, `src` the
\* one at hand, `seen` the receipt as the command has read it.
States == {"pending", "copying", "verified", "failed"}
Copies == [Sources -> States] \cup {Nil}
Stages == {"none", "directory", "unlogged", "whole", "revised"}
Jobs == [do : {"apply", "verify"}, todo : SUBSET Sources, cont : BOOLEAN,
         at : {"status", "fresh", "mark", "look", "create", "revision", "event",
               "linked", "check", "verified", "failed", "items"},
         src : 0..NumSources, seen : Copies]

ASSUME NilAssumption ==
    Nil \notin Jobs /\ Nil \notin [Sources -> Ids] /\ Nil \notin [Sources -> States]

VARIABLES
    plan,       \* source -> ID, or Nil
    receipt,    \* source -> its entry's state, or Nil: no status file
    made,       \* ID -> how far its Record is made, of which source
    drifted,    \* sources whose bytes differ from the inventory's
    job,        \* mover -> its command, or Nil
    events,     \* outside events so far
    takenBack,  \* history: IDs whose Record was whole and then rolled back
    told        \* history: sources written as verified while no other
                \* command had a copy of the receipt

dest == <<made, takenBack>>
migrationVars == <<plan, receipt, told, dest, drifted, job, events>>

---------------------------------------------------------------------------

\* _existing: a Record with a revision file, whoever made it.
Existing(id) == made[id].stage \in {"unlogged", "whole", "revised"}
\* _record_matches: the payload is the source's; a missing event is not seen.
Matches(id, s) == made[id].of = s /\ made[id].stage \in {"unlogged", "whole"}

Set(id, stage) == made' = [made EXCEPT ![id].stage = stage]

\* Wrong: an ID is good only while no Record has it.
UsableAbsent(id, s) == ~Existing(id)
Usable(id, s) == Existing(id) => Matches(id, s)

\* make_plan: each source in turn takes the first candidate that no earlier
\* source has and that is absent or already its own Record.
IsPlan(f) ==
    \A s \in Sources : \E n \in DOMAIN Candidates[s] :
        LET Good(k) == /\ \A t \in 1..s - 1 : f[t] # Candidates[s][k]
                       /\ Usable(Candidates[s][k], s)
        IN f[s] = Candidates[s][n] /\ Good(n) /\ \A k \in 1..n - 1 : ~Good(k)

---------------------------------------------------------------------------

MigrationInit ==
    /\ plan = Nil /\ receipt = Nil /\ drifted = {}
    /\ made = [id \in Ids |-> [of |-> Nil, stage |-> "none"]]
    /\ job = [m \in Movers |-> Nil]
    /\ events = 0 /\ takenBack = {} /\ told = {}

Idle == \A m \in Movers : job[m] = Nil
Event == events < MaxEvents /\ events' = events + 1

\* plan, and plan again after more was found out, without --reuse-plan; the
\* new plan has a status file of its own.
MakePlan ==
    /\ Idle /\ drifted = {}
    /\ IF plan = Nil THEN events' = events ELSE Event
    /\ \E f \in [Sources -> Ids] : IsPlan(f) /\ plan' = f
    /\ receipt' = Nil /\ told' = {}
    /\ UNCHANGED <<dest, drifted, job>>

\* With --reuse-plan a source keeps its ID or the command refuses; the plan it
\* writes is another plan.
ReusePlan ==
    /\ Idle /\ drifted = {} /\ plan # Nil /\ Event
    /\ \A s \in Sources : Usable(plan[s], s)
    /\ receipt' = Nil /\ told' = {}
    /\ UNCHANGED <<plan, dest, drifted, job>>

---------------------------------------------------------------------------
(* The outside: sources are edited and restored, Records are revised, and  *)
(* Records of other origin take an ID.                                     *)

Edit(s) ==
    /\ Event
    /\ drifted' = IF s \in drifted THEN drifted \ {s} ELSE drifted \cup {s}
    /\ UNCHANGED <<plan, receipt, told, dest, job>>

Creating == {"revision", "event", "linked"}
Creates(m, id) == job[m] # Nil /\ job[m].at \in Creating /\ plan[job[m].src] = id
LockFree(id) == \A m \in Movers : ~Creates(m, id)

ReviseRecord(id) ==
    /\ Event /\ LockFree(id) /\ Existing(id)
    /\ Set(id, "revised")
    /\ UNCHANGED <<plan, receipt, told, takenBack, drifted, job>>

OtherRecord(id) ==
    /\ Event /\ LockFree(id) /\ made[id].stage = "none"
    /\ made' = [made EXCEPT ![id] = [of |-> 0, stage |-> "whole"]]
    /\ UNCHANGED <<plan, receipt, told, takenBack, drifted, job>>

---------------------------------------------------------------------------
(* apply *)

JobAt(m, at) == job[m] # Nil /\ job[m].at = at
JobStep(m, at) == job' = [job EXCEPT ![m].at = at]
Job(do, todo, cont, at, s, seen) ==
    [do |-> do, todo |-> todo, cont |-> cont, at |-> at, src |-> s, seen |-> seen]

Entry(m, state) == [job[m].seen EXCEPT ![job[m].src] = state]
Destination(m) == plan[job[m].src]

Begin(m) ==
    /\ plan # Nil /\ job[m] = Nil
    /\ \E todo \in Selections : \E do \in {"apply", "verify"} :
       \E cont \in BOOLEAN :
          /\ cont => do = "apply" /\ Cardinality(todo) > 1
          /\ job' = [job EXCEPT ![m] = Job(do, todo, cont, "status", 0, Nil)]
    /\ UNCHANGED <<plan, receipt, told, dest, drifted, events>>

\* The next item of the command, or its end; a raise ends it unless
\* --continue-on-error.
Onward(m, raised) ==
    LET rest == job[m].todo \ {job[m].src}
    IN job' = [job EXCEPT ![m] = IF rest = {} \/ (raised /\ ~job[m].cont) THEN Nil
                                 ELSE [@ EXCEPT !.todo = rest, !.at = "status", !.src = 0, !.seen = Nil]]

\* apply_one reads the receipt for every item, in the order of the selection.
ReadStatus(m) ==
    /\ JobAt(m, "status") /\ job[m].do = "apply"
    /\ \E s \in job[m].todo : job' = [job EXCEPT ![m].src = s,
          ![m].at = IF receipt = Nil THEN "fresh" ELSE "mark", ![m].seen = receipt]
    /\ UNCHANGED <<plan, receipt, told, dest, drifted, events>>

\* Wrong: a fresh receipt is renamed into place, over another's.
CreateStatusReplaces(m) ==
    /\ JobAt(m, "fresh")
    /\ receipt' = [s \in Sources |-> "pending"]
    /\ job' = [job EXCEPT ![m].seen = receipt', ![m].at = "mark"]
    /\ UNCHANGED <<plan, told, dest, drifted, events>>

\* A fresh receipt is linked into place: the second of two is refused.
CreateStatus(m) ==
    /\ JobAt(m, "fresh")
    /\ LET new == [s \in Sources |-> "pending"]
       IN IF receipt = Nil
          THEN receipt' = new /\ job' = [job EXCEPT ![m].seen = new, ![m].at = "mark"]
          ELSE receipt' = receipt /\ Onward(m, TRUE)
    /\ UNCHANGED <<plan, told, dest, drifted, events>>

MarkCopying(m) ==
    /\ JobAt(m, "mark")
    /\ receipt' = Entry(m, "copying") /\ told' = told \ {job[m].src}
    /\ job' = [job EXCEPT ![m].seen = receipt', ![m].at = "look"]
    /\ UNCHANGED <<plan, dest, drifted, events>>

\* The source's bytes, then the Record that has the ID now.
Look(m) ==
    /\ JobAt(m, "look")
    /\ LET s == job[m].src  id == Destination(m)
       IN JobStep(m, IF s \in drifted \/ ~Usable(id, s) THEN "failed"
                  ELSE IF Existing(id) THEN "check" ELSE "create")
    /\ UNCHANGED <<plan, receipt, told, dest, drifted, events>>

\* The store's create, under the Record's lock; a directory is enough to
\* refuse the ID.
TakeId(m) ==
    /\ JobAt(m, "create") /\ LockFree(Destination(m))
    /\ IF made[Destination(m)].stage = "none"
       THEN /\ made' = [made EXCEPT ![Destination(m)] = [of |-> job[m].src, stage |-> "directory"]]
            /\ JobStep(m, "revision")
       ELSE made' = made /\ JobStep(m, "failed")
    /\ UNCHANGED <<plan, receipt, told, takenBack, drifted, events>>

LinkRevision(m) ==
    /\ JobAt(m, "revision") /\ Set(Destination(m), "unlogged") /\ JobStep(m, "event")
    /\ UNCHANGED <<plan, receipt, told, takenBack, drifted, events>>

LinkEvent(m) ==
    /\ JobAt(m, "event") /\ Set(Destination(m), "whole") /\ JobStep(m, "linked")
    /\ UNCHANGED <<plan, receipt, told, takenBack, drifted, events>>

Created(m) ==
    /\ JobAt(m, "linked") /\ JobStep(m, "check")
    /\ UNCHANGED <<plan, receipt, told, dest, drifted, events>>

\* Wrong: a Record without a creation event passes.
VerifiedUnlogged(id, s) == Matches(id, s)

\* _verify_item: the Record, its bytes and its history.
Verified(id, s) == Matches(id, s) /\ made[id].stage = "whole"

Check(m) ==
    /\ JobAt(m, "check")
    /\ JobStep(m, IF Verified(Destination(m), job[m].src) THEN "verified" ELSE "failed")
    /\ UNCHANGED <<plan, receipt, told, dest, drifted, events>>

Alone(m) == \A n \in Movers \ {m} : job[n] = Nil \/ job[n].seen = Nil

\* The entry goes into the receipt as this item's begin left it.
WriteOutcome(m) ==
    /\ job[m] # Nil /\ job[m].at \in {"verified", "failed"}
    /\ receipt' = Entry(m, job[m].at)
    /\ told' = told \cup {s \in {job[m].src} : job[m].at = "verified" /\ Alone(m)}
    /\ Onward(m, job[m].at = "failed")
    /\ UNCHANGED <<plan, dest, drifted, events>>

\* create's rollback unlinks both files and leaves the directory.
RolledBack(id) == [made[id] EXCEPT !.stage = "directory"]

\* A failed write, a text with a credential, or Ctrl-C: create rolls back, apply_one writes `failed`.
Fail(m) ==
    /\ job[m] # Nil /\ job[m].at \in Creating \cup {"look", "check"} /\ job[m].do = "apply"
    /\ Event
    /\ IF job[m].at \in Creating
       THEN LET id == Destination(m)
            IN /\ made' = [made EXCEPT ![id] = RolledBack(id)]
               /\ takenBack' = takenBack \cup {i \in {id} : job[m].at = "linked"}
       ELSE UNCHANGED dest
    /\ JobStep(m, "failed")
    /\ UNCHANGED <<plan, receipt, told, drifted>>

\* A kill leaves what there is: the receipt says copying, the Record is in parts.
KillMover(m) ==
    /\ job[m] # Nil /\ Event
    /\ job' = [job EXCEPT ![m] = Nil]
    /\ UNCHANGED <<plan, receipt, told, dest, drifted>>

---------------------------------------------------------------------------
(* verify: one reading of the receipt, every item, one write. *)

VerifyRead(m) ==
    /\ JobAt(m, "status") /\ job[m].do = "verify"
    /\ job' = [job EXCEPT ![m] = IF receipt = Nil THEN Nil
                                 ELSE [@ EXCEPT !.at = "items", !.seen = receipt]]
    /\ UNCHANGED <<plan, receipt, told, dest, drifted, events>>

\* In the order of the plan; a failing item keeps its entry.
VerifyItem(m, s) ==
    /\ JobAt(m, "items") /\ s \in job[m].todo /\ \A u \in job[m].todo : s <= u
    /\ job' = [job EXCEPT ![m].todo = @ \ {s}, ![m].seen[s] =
          IF s \notin drifted /\ Verified(plan[s], s) THEN "verified" ELSE @]
    /\ UNCHANGED <<plan, receipt, told, dest, drifted, events>>

VerifyWrite(m) ==
    /\ JobAt(m, "items") /\ job[m].todo = {}
    /\ receipt' = job[m].seen /\ told' = told
    /\ job' = [job EXCEPT ![m] = Nil]
    /\ UNCHANGED <<plan, dest, drifted, events>>

Apply(m) ==
    \/ ReadStatus(m) \/ CreateStatus(m) \/ MarkCopying(m) \/ Look(m)
    \/ TakeId(m) \/ LinkRevision(m) \/ LinkEvent(m) \/ Created(m)
    \/ Check(m) \/ WriteOutcome(m) \/ Fail(m) \/ KillMover(m)

MigrationNext ==
    \/ MakePlan \/ ReusePlan
    \/ \E s \in Sources : Edit(s)
    \/ \E id \in Ids : ReviseRecord(id) \/ OtherRecord(id)
    \/ \E m \in Movers : \/ Begin(m) \/ Apply(m) \/ VerifyRead(m) \/ VerifyWrite(m)
                         \/ \E s \in Sources : VerifyItem(m, s)

MigrationSpec == MigrationInit /\ [][MigrationNext]_migrationVars

---------------------------------------------------------------------------
(* Properties *)

\* The receipt's `verified` is true of the destination: the Record of the plan
\* was created from that source with its history (it may have been revised
\* since).  One window is left: a second command verifies a Record that is
\* whole, and Ctrl-C then makes the creator take it back.
VerifiedIsThere ==
    receipt # Nil =>
        \A s \in Sources : receipt[s] = "verified" /\ plan[s] \notin takenBack =>
            made[plan[s]].of = s /\ made[plan[s]].stage \in {"whole", "revised"}

\* An entry that a command wrote as verified, when no other command had read
\* the receipt before, is lost to none: every later command starts from it.
\* (With a copy read before, the other command writes the older entry back.)
VerifiedEntryKept == \A s \in told : receipt # Nil /\ receipt[s] = "verified"

\* What a receipt calls verified stays there, and stays verified.
VerifiedHolds == VerifiedIsThere /\ VerifiedEntryKept

\* However often the sources are planned and applied, no source has two
\* Records that both still hold its bytes.
OneRecordPerSource ==
    \A s \in Sources : Cardinality({id \in Ids : Matches(id, s)}) <= 1

=============================================================================
