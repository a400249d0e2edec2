------------------------------- MODULE Sessions ------------------------------
(***************************************************************************)
(* The task commands of the CLI (cli.py) that read the board before they   *)
(* change it.  deps add, deps remove and update --field compute a whole    *)
(* value from what they read without a lock, and update_task writes it in  *)
(* one step under the board and the task lock (BoardStore).  create        *)
(* --reject-duplicates looks at the open tasks, and creates later.  Only   *)
(* update --expected-revision compares the revision under the lock.        *)
(***************************************************************************)
EXTENDS Naturals, FiniteSets, Sequences

CONSTANTS
    Clients,    \* CLI processes
    BlockerIds,        \* the blockers that clients add and remove
    FieldNames,       \* custom field names, each set or not
    Idle,       \* no session
    MaxWrites,  \* bound: writes of the one task
    MaxTasks    \* bound: tasks created with one body

ASSUME SessionsAssumption ==
    MaxWrites \in Nat /\ MaxTasks \in Nat /\ Idle \notin [call : STRING]

VARIABLES
    entry,      \* the task: its blocked_by, its fields and its revision
    session,    \* client -> the call it has read for, or Idle
    asked,      \* history: blocked_by and fields if each call were done at once
    overtaken,  \* history: what a call without a revision wrote from an outdated read
    drafts,     \* the tasks with the body clients create, in order
    blind       \* history: task -> open tasks of that body its creator could not see

sessionVars == <<entry, session, asked, overtaken, drafts, blind>>

---------------------------------------------------------------------------
(* Reading: cli.py, before any lock                                        *)

OpenDrafts(s) == {i \in DOMAIN s : s[i] = "open"}

\* The user names the revision of some earlier output, or none.
Named == {0} \cup 1..entry.rev

\* The list that deps add and deps remove will write.
WithBlocker(id) == entry.blockers \cup {id}
WithoutBlocker(id) == entry.blockers \ {id}

\* deps add and deps remove: `whole` is what will be written.
ReadDeps(p) ==
    /\ session[p] = Idle
    /\ \E id \in BlockerIds, add \in BOOLEAN :
          session' = [session EXCEPT ![p] =
              [call |-> "deps", id |-> id, add |-> add, read |-> entry.rev, named |-> 0,
               whole |-> IF add THEN WithBlocker(id) ELSE WithoutBlocker(id)]]
    /\ UNCHANGED <<entry, asked, overtaken, drafts, blind>>

\* update --field KEY=VALUE, merged into the fields the task has now.
ReadFields(p) ==
    /\ session[p] = Idle
    /\ \E key \in FieldNames, set \in BOOLEAN, named \in Named :
          session' = [session EXCEPT ![p] =
              [call |-> "field", id |-> key, add |-> set, read |-> entry.rev, named |-> named,
               whole |-> [entry.fields EXCEPT ![key] = set]]]
    /\ UNCHANGED <<entry, asked, overtaken, drafts, blind>>

\* Wrong: only the first task of that body counts.
DuplicateIsFirst == Len(drafts) > 0 /\ drafts[1] = "open"
\* _find_open_duplicate_by_body
Duplicate == OpenDrafts(drafts) # {}

\* create --reject-duplicates goes on only if no open task has the body.
ReadDrafts(p) ==
    /\ session[p] = Idle
    /\ ~Duplicate
    /\ session' = [session EXCEPT ![p] = [call |-> "create", seen |-> DOMAIN drafts]]
    /\ UNCHANGED <<entry, asked, overtaken, drafts, blind>>

\* A refused or killed call writes nothing.
GiveUp(p) ==
    /\ session[p] # Idle
    /\ session' = [session EXCEPT ![p] = Idle]
    /\ UNCHANGED <<entry, asked, overtaken, drafts, blind>>

---------------------------------------------------------------------------
(* Writing: one step under the locks                                       *)

\* Wrong: the revision is compared with what the call read.
UnchangedSinceRead(call) == call.named \in {0, call.read}
\* update_task: a named revision is the task's.
UnchangedRevision(call) == call.named \in {0, entry.rev}

\* What a call that names no revision writes over, if it read before the last write.
Outdated(call, field) == IF call.named = 0 /\ call.read # entry.rev THEN {field} ELSE {}

WriteDeps(p) ==
    LET call == session[p] IN
    /\ call # Idle /\ call.call = "deps" /\ entry.rev < MaxWrites
    /\ entry' = [entry EXCEPT !.blockers = call.whole, !.rev = @ + 1]
    /\ asked' = [asked EXCEPT !.blockers = IF call.add THEN @ \cup {call.id} ELSE @ \ {call.id}]
    /\ overtaken' = overtaken \cup Outdated(call, "blockers")
    /\ session' = [session EXCEPT ![p] = Idle]
    /\ UNCHANGED <<drafts, blind>>

WriteFields(p) ==
    LET call == session[p] IN
    /\ call # Idle /\ call.call = "field" /\ entry.rev < MaxWrites
    /\ UnchangedRevision(call)
    /\ entry' = [entry EXCEPT !.fields = call.whole, !.rev = @ + 1]
    /\ asked' = [asked EXCEPT !.fields[call.id] = call.add]
    /\ overtaken' = overtaken \cup Outdated(call, "fields")
    /\ session' = [session EXCEPT ![p] = Idle]
    /\ UNCHANGED <<drafts, blind>>

\* mark, archive, and update of other attributes leave both alone.
WriteOther ==
    /\ entry.rev < MaxWrites
    /\ entry' = [entry EXCEPT !.rev = @ + 1]
    /\ UNCHANGED <<session, asked, overtaken, drafts, blind>>

\* update --blocked-by replaces the whole list, as it was asked to.
WriteBlockers ==
    /\ entry.rev < MaxWrites
    /\ \E B \in SUBSET BlockerIds :
          /\ entry' = [entry EXCEPT !.blockers = B, !.rev = @ + 1]
          /\ asked' = [asked EXCEPT !.blockers = B]
    /\ overtaken' = overtaken \ {"blockers"}
    /\ UNCHANGED <<session, drafts, blind>>

\* create: a generated ID.  Without --reject-duplicates nothing is looked at.
WriteDraft(p) ==
    LET call == session[p] IN
    /\ call # Idle /\ call.call = "create" /\ Len(drafts) < MaxTasks
    /\ drafts' = Append(drafts, "open")
    /\ blind' = Append(blind, OpenDrafts(drafts) \ call.seen)
    /\ session' = [session EXCEPT ![p] = Idle]
    /\ UNCHANGED <<entry, asked, overtaken>>

\* mark done, archive: a task with the body of a finished one is no duplicate.
MarkDraft ==
    /\ \E i \in OpenDrafts(drafts) : drafts' = [drafts EXCEPT ![i] = "done"]
    /\ UNCHANGED <<entry, session, asked, overtaken, blind>>

---------------------------------------------------------------------------

Blank == [blockers |-> {}, fields |-> [k \in FieldNames |-> FALSE]]

SessionsInit ==
    /\ entry = [blockers |-> {}, fields |-> Blank.fields, rev |-> 1]
    /\ session = [p \in Clients |-> Idle]
    /\ asked = Blank /\ overtaken = {}
    /\ drafts = <<>> /\ blind = <<>>

SessionsNext ==
    \/ \E p \in Clients :
          \/ ReadDeps(p) \/ ReadFields(p) \/ ReadDrafts(p) \/ GiveUp(p)
          \/ WriteDeps(p) \/ WriteFields(p) \/ WriteDraft(p)
    \/ WriteOther \/ WriteBlockers \/ MarkDraft

SessionsSpec == SessionsInit /\ [][SessionsNext]_sessionVars

---------------------------------------------------------------------------
(* Properties *)

\* The task shows every acknowledged edit, in the order the edits were
\* acknowledged, unless a call that named no revision wrote what it had
\* computed before another's write.  A call that names a revision loses none.
EditsAddUp ==
    /\ "blockers" \notin overtaken => entry.blockers = asked.blockers
    /\ "fields" \notin overtaken => entry.fields = asked.fields

\* Two open tasks of one body were created by overlapping calls.
DuplicatesOverlap ==
    \A i, j \in OpenDrafts(drafts) : i < j => i \in blind[j]

=============================================================================
