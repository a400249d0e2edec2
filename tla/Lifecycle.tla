----------------------------- MODULE Lifecycle ------------------------------
(***************************************************************************)
(* The rules that tie tasks together: statuses, blocked_by edges and the   *)
(* hot and cold tiers.  storage.py checks completion and reopening under   *)
(* the board lock, where a call is one step (BoardStore implements         *)
(* AtomicBoard); cli.py checks for dependency cycles, and merges or        *)
(* filters the blockers of `deps add` and `deps remove`, before it takes   *)
(* any lock.  So a call is a request, prepared from what the client read,  *)
(* and applied later to whatever the board is by then.                     *)
(*                                                                         *)
(* Not every path to a task file is checked: `record task update` replaces *)
(* /status or /blocked_by, and delete_task removes a blocker, with no look *)
(* at the dependents.  History variables say which tasks such a call left  *)
(* in a state the checked calls would have refused.                        *)
(***************************************************************************)
EXTENDS Naturals, FiniteSets

CONSTANTS
    Tasks,       \* task IDs, those nobody created yet and forward references included
    Procs,       \* CLI processes
    None,        \* no request, no receipt, field not updated
    Statuses,    \* the statuses in use
    Umbrellas,   \* the tasks that umbrella admission receipts are issued for
    Unchecked    \* the operations of AllUnchecked that clients use

\* "todo" stands for the open statuses backlog, todo and in_progress.
AllStatuses == {"todo", "done", "archive"}
Terminal == {"done", "archive"}
AllUnchecked == {"exact-replace", "replace-record", "delete"}

ASSUME NoneAssumption == None \notin Procs \cup Tasks \cup AllStatuses
ASSUME StatusesAssumption == "todo" \in Statuses /\ Statuses \subseteq AllStatuses
ASSUME UmbrellasAssumption == Umbrellas \subseteq Tasks /\ (Umbrellas # {} => "done" \in Statuses)
ASSUME UncheckedAssumption == Unchecked \subseteq AllUnchecked

VARIABLES
    tier,      \* task -> "none", "hot" or "cold"
    status,    \* task -> status
    blockers,  \* task -> its blocked_by
    request,   \* process -> the call it is about to apply
    admission, \* the umbrella admission receipt, or None
    blamed,    \* history: the tasks an unchecked call left done with unmet blockers, until mended
    untested   \* history: tasks whose edges no cycle check has seen in place

board == <<tier, status, blockers>>
vars == <<tier, status, blockers, request, admission, blamed, untested>>

---------------------------------------------------------------------------
(* What the checks look at *)

Hot(t) == tier[t] = "hot"

\* _canonical_blocker_status: the hot file or else the cold record; a missing
\* forward reference is never resolved.
Resolved(b) == tier[b] # "none" /\ status[b] \in Terminal

\* _unmet_blockers, with the tasks an umbrella finishes in the same batch.
Unmet(B, finishing) == {b \in B \ finishing : ~Resolved(b)}

\* Dependents are looked for among the hot tasks only.
ReopenRefused(t, s) ==
    /\ status[t] \in Terminal /\ s \notin Terminal
    /\ \E u \in Tasks : Hot(u) /\ status[u] = "done" /\ t \in blockers[u]

Edges(t) == IF Hot(t) THEN blockers[t] ELSE {}

\* t is downstream of itself: it is in every set that holds the blockers of
\* b and is closed under following edges.
Reaches(b, t) ==
    \A S \in SUBSET Tasks :
        (Edges(b) \subseteq S /\ \A u \in S : Edges(u) \subseteq S) => t \in S

\* Wrong: only a direct edge back is looked for.
WouldCycleDirectly(t, b) == t = b \/ t \in Edges(b)
\* dependency_would_cycle, on the hot tasks of the query cache.
WouldCycle(t, b) == t = b \/ Reaches(b, t)

\* deps add, update: existing blockers are tested, forward references are not.
Acceptable(t, new) ==
    /\ t \notin new
    /\ \A b \in new : tier[b] # "none" => ~WouldCycle(t, b)

---------------------------------------------------------------------------

Init ==
    /\ tier \in [Tasks -> {"none", "hot"}]
    /\ status = [t \in Tasks |-> "todo"]
    /\ blockers = [t \in Tasks |-> {}]
    /\ request = [p \in Procs |-> None]
    /\ admission = None
    /\ blamed = {} /\ untested = {}

---------------------------------------------------------------------------
(* Preparing a request: no lock is held                                    *)

\* The reads of one call are one step: a board that changed between them is out
\* of date for the call just as one that changed after them.

\* A revision to compare only lets the board refuse more calls, and any call
\* may be refused (Abandon), so requests carry none.
\* `whole`: the cycle check looked at every blocker in the request.
\* `tested` (history): the graph is still the one that check saw.
Ask(p, t, s, B, whole) ==
    /\ request[p] = None
    /\ Hot(t)
    /\ request' = [request EXCEPT ![p] =
          [task |-> t, status |-> s, blockers |-> B, whole |-> whole, tested |-> TRUE]]
    /\ UNCHANGED <<board, admission, blamed, untested>>

AskDepsAdd(p) ==
    \E t \in Tasks : \E new \in (SUBSET Tasks) \ {{}} :
        /\ Acceptable(t, new)
        /\ Ask(p, t, None, blockers[t] \cup new, FALSE)

AskDepsRemove(p) ==
    \E t \in Tasks : \E old \in (SUBSET blockers[t]) \ {{}} :
        Ask(p, t, None, blockers[t] \ old, FALSE)

\* update --blocked-by, with or without a status.
AskUpdate(p) ==
    \E t \in Tasks, s \in Statuses \cup {None}, B \in SUBSET Tasks :
        /\ Acceptable(t, B)
        /\ Ask(p, t, s, B, TRUE)

\* A call that is refused, times out or dies changes nothing.
Abandon(p) ==
    /\ request[p] # None
    /\ request' = [request EXCEPT ![p] = None]
    /\ UNCHANGED <<board, admission, blamed, untested>>

---------------------------------------------------------------------------
(* Applying it: one step under the board lock and the task lock            *)

\* The tasks in S are written: p's request is served, and what others know of
\* these tasks, or of the graph, is out of date.
Write(p, S, s, B) ==
    /\ status' = [t \in Tasks |-> IF t \in S THEN s ELSE status[t]]
    /\ blockers' = [t \in Tasks |-> IF t \in S THEN B[t] ELSE blockers[t]]
    /\ request' = [q \in Procs |->
          IF q = p \/ request[q] = None THEN None
          ELSE [request[q] EXCEPT !.tested = @ /\ \A t \in S : B[t] = blockers[t]]]
    /\ admission' = IF admission = None THEN None
                    ELSE [admission EXCEPT !.current = @ \ S]

\* The hot tasks that are done with a blocker that is open or missing.
Broken == {t \in Tasks : Hot(t) /\ status[t] = "done" /\ Unmet(blockers[t], {}) # {}}

\* After a call that checks the dependents, and after one that does not.
Checked == blamed' = blamed \cap Broken'
Unverified == blamed' = (blamed \cup (Broken' \ Broken)) \cap Broken'

Set1(t, B) == [u \in {t} |-> B]

\* update_task: reopening first, then completion on the prospective task.
Update(p, t, s, B) ==
    /\ Hot(t)
    /\ ~ReopenRefused(t, s)
    /\ s = "done" => Unmet(B, {}) = {}
    /\ Write(p, {t}, s, Set1(t, B))
    /\ UNCHANGED tier
    /\ Checked

\* Wrong: a field the request does not set is written as missing.
ApplyRequestUnset(p) ==
    /\ request[p] # None
    /\ LET r == request[p]
       IN /\ Update(p, r.task, r.status, r.blockers)
          /\ untested' = IF ~r.tested THEN untested \cup {r.task}
                         ELSE IF r.whole THEN untested \ {r.task} ELSE untested

\* Where deps add, deps remove and update --blocked-by end.
ApplyRequest(p) ==
    /\ request[p] # None
    /\ LET r == request[p]
       IN /\ Update(p, r.task, IF r.status = None THEN status[r.task] ELSE r.status, r.blockers)
          /\ untested' = IF ~r.tested THEN untested \cup {r.task}
                         ELSE IF r.whole THEN untested \ {r.task} ELSE untested

\* mark, archive, and update without --blocked-by: nothing read before the
\* lock is used after it (a revision to compare can only refuse).
SetStatus(t) ==
    /\ \E s \in Statuses : Update(None, t, s, blockers[t])
    /\ UNCHANGED untested

\* exact_replace_record at /status or /blocked_by: the preimage at the path and
\* the Record revision are compared under the lock, nothing else is.
ExactReplace(t) ==
    /\ "exact-replace" \in Unchecked
    /\ Hot(t)
    /\ \/ \E s \in Statuses : /\ Write(None, {t}, s, Set1(t, blockers[t]))
                              /\ UNCHANGED untested
       \/ \E B \in SUBSET Tasks : /\ Write(None, {t}, status[t], Set1(t, B))
                                  /\ untested' = untested \cup {t}
    /\ UNCHANGED tier
    /\ Unverified

\* create: a generated ID, which nobody refers to yet.  Its edges are tested
\* against a placeholder that nothing can point at.
Create(t) ==
    /\ tier[t] = "none"
    /\ \A u \in Tasks : t \notin blockers[u]
    /\ \A p \in Procs : request[p] # None => t \notin request[p].blockers
    /\ \E s \in Statuses, B \in SUBSET (Tasks \ {t}) :
          /\ s = "done" => Unmet(B, {}) = {}
          /\ Write(None, {t}, s, Set1(t, B))
    /\ tier' = [tier EXCEPT ![t] = "hot"]
    /\ Checked
    /\ UNCHANGED untested

\* replace_task_record, for import tooling: completion and reopening are
\* tested, cycles and revisions are not.
ReplaceRecord(t) ==
    /\ "replace-record" \in Unchecked
    /\ \E s \in Statuses, B \in SUBSET Tasks : Update(None, t, s, B)
    /\ untested' = untested \cup {t}

\* delete_task: dependents are not looked at.
Delete(t) ==
    /\ "delete" \in Unchecked
    /\ Hot(t)
    /\ tier' = [tier EXCEPT ![t] = "none"]
    /\ Write(None, {t}, "todo", Set1(t, {}))
    /\ untested' = untested \ {t}
    /\ Unverified

---------------------------------------------------------------------------
(* Umbrellas and the cold tier                                             *)

\* An admission receipt: children owned by the umbrella.  It names a revision
\* hash per task; a hash stands for one write, so all there is to know of it is
\* which tasks were not written since (`current`).
Admit ==
    /\ admission = None
    /\ \E u \in Umbrellas : \E C \in (SUBSET (Tasks \ {u})) \ {{}} :
          /\ \A t \in C \cup {u} : Hot(t)
          /\ admission' = [umbrella |-> u, children |-> C, current |-> C \cup {u}]
    /\ UNCHANGED <<board, request, blamed, untested>>

Batch == {admission.umbrella} \cup admission.children

\* Wrong: blockers outside the batch are not looked at.
FinalizeUnchecked ==
    /\ admission # None
    /\ \A t \in Batch : Hot(t)
    /\ blockers[admission.umbrella] = admission.children
    /\ admission.current = Batch
    /\ Write(None, Batch, "done", blockers)
    /\ UNCHANGED <<tier, untested>>
    /\ Checked

\* All of the batch is completed at once, so its members may wait for each
\* other, but not for a task outside.  (A replay of an applied receipt finds
\* its marker on every task and writes nothing.)
Finalize ==
    /\ admission # None
    /\ \A t \in Batch : Hot(t)
    /\ blockers[admission.umbrella] = admission.children
    /\ admission.current = Batch
    /\ \A t \in Batch : Unmet(blockers[t], Batch) = {}
    /\ Write(None, Batch, "done", blockers)
    /\ UNCHANGED <<tier, untested>>
    /\ Checked

\* archive-pack: terminal tasks whose blockers are terminal and still hot.
ArchivePack ==
    \E S \in (SUBSET Tasks) \ {{}} :
        /\ \A t \in S : /\ Hot(t) /\ status[t] \in Terminal
                        /\ \A b \in blockers[t] : Hot(b) /\ status[b] \in Terminal
        /\ tier' = [t \in Tasks |-> IF t \in S THEN "cold" ELSE tier[t]]
        /\ UNCHANGED <<status, blockers, request, admission, untested>>
        /\ Checked

\* record task archive: any hot task, at the Record revision the caller gave.
ArchiveRecord(t) ==
    /\ Hot(t)
    /\ tier' = [tier EXCEPT ![t] = "cold"]
    /\ UNCHANGED <<status, blockers, request, admission, untested>>
    /\ Checked

---------------------------------------------------------------------------

Next ==
    \/ \E p \in Procs : \/ AskDepsAdd(p) \/ AskDepsRemove(p) \/ AskUpdate(p)
                        \/ ApplyRequest(p) \/ Abandon(p)
    \/ \E t \in Tasks : \/ SetStatus(t) \/ ExactReplace(t) \/ Create(t) \/ ReplaceRecord(t)
                        \/ Delete(t) \/ ArchiveRecord(t)
    \/ Admit \/ Finalize \/ ArchivePack

Spec == Init /\ [][Next]_vars

---------------------------------------------------------------------------
(* Properties *)

Requests == [task : Tasks, status : Statuses \cup {None}, blockers : SUBSET Tasks,
             whole : BOOLEAN, tested : BOOLEAN]
Receipts == [umbrella : Umbrellas, children : SUBSET Tasks, current : SUBSET Tasks]

\* Types; an applied request leaves a status that is in use.
TypeOK ==
    /\ tier \in [Tasks -> {"none", "hot", "cold"}]
    /\ status \in [Tasks -> Statuses]
    /\ blockers \in [Tasks -> SUBSET Tasks]
    /\ request \in [Procs -> Requests \cup {None}]
    /\ admission \in Receipts \cup {None}
    /\ blamed \subseteq Tasks /\ untested \subseteq Tasks

\* "A blocker must exist and be terminal before its dependent can become done.
\* Reopening a blocker that would invalidate a completed dependent is refused"
\* (README): no sequence of calls leaves a hot task done with a blocker that is
\* open or missing, unless exact replacement or deletion did it.
DoneIsUnblocked == Broken \subseteq blamed

\* Every cycle of hot tasks goes through one whose edges were written without
\* a cycle check, or after a check that was out of date by then.
CyclesAreUntested ==
    \A t \in Tasks :
        \E S \in SUBSET Tasks :
            /\ t \notin S
            /\ Edges(t) \subseteq S \cup untested
            /\ \A u \in S \ untested : Edges(u) \subseteq S \cup untested

\* The same rule as DoneIsUnblocked without the excuse.
CompletionHolds == Broken = {}

=============================================================================
