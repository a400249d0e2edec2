------------------------------ MODULE MergePlan ------------------------------
(***************************************************************************)
(* What a board merge decides (merge.py): the dry run combines the sources *)
(* and the target into a plan that someone reviews, and apply rebuilds the *)
(* plan and refuses if anything it depends on has changed.  How a plan is  *)
(* activated, and what runs meanwhile, is in Merge.                        *)
(***************************************************************************)
EXTENDS Naturals, Sequences, FiniteSets

CONSTANTS
    NumBoards,   \* source boards, in the order of the command line
    MergeIds,     \* task IDs, numbers
    BlockedBy,    \* task ID -> its blocked_by, the same on every board
    MaxTime,      \* bound: last_modified is one of 1..MaxTime
    Absent        \* no such task on the board

ASSUME MergeAssumption ==
    /\ NumBoards \in Nat \ {0} /\ MaxTime \in Nat
    /\ MergeIds \subseteq 1..9
    /\ BlockedBy \in [MergeIds -> SUBSET MergeIds]

VARIABLES
    sources,   \* source number -> board
    target,    \* the board merged into: its hot tasks
    strategy,  \* "keep-newer" or "keep-both"
    stage,     \* "inputs", "planned", "applied", "refused" or "failed"
    reviewed   \* what the dry run wrote, from the planned stage on

mergeVars == <<sources, target, strategy, stage, reviewed>>

\* A version of a task; the status "archive" counts as done.
Versions == [time : 1..MaxTime, done : BOOLEAN]
Boards == [MergeIds -> Versions \cup {Absent}]
On(board) == {id \in DOMAIN board : board[id] # Absent}

\* keep-both names the source's task ID_1.  No board has such an ID: it is not
\* a valid one.
Renamed(id) == id + 10
ValidId(id) == id < 10

---------------------------------------------------------------------------
(* build_plan                                                              *)

\* _source_snapshot: a later source replaces what an earlier one gave.
Combined(id) ==
    LET having == {i \in 1..NumBoards : sources[i][id] # Absent}
    IN IF having = {} THEN Absent
       ELSE sources[CHOOSE i \in having : \A j \in having : j <= i][id]

\* Wrong: of two versions of one age the source's is the newer.
SourceIsNewerOrSame(id) == Combined(id).time >= target[id].time
SourceIsNewer(id) == Combined(id).time > target[id].time

Conflicts == {id \in MergeIds : Combined(id) # Absent /\ target[id] # Absent}

\* The tasks of the merged board, by the strategy.
Final ==
    LET both == IF strategy = "keep-both" THEN Conflicts ELSE {}
    IN [id \in MergeIds \cup {Renamed(c) : c \in both} |->
          IF id \notin MergeIds THEN Combined(id - 10)
          ELSE IF id \notin Conflicts THEN IF target[id] = Absent THEN Combined(id) ELSE target[id]
          ELSE IF strategy = "keep-newer" /\ SourceIsNewer(id) THEN Combined(id) ELSE target[id]]

Needs(id) == IF ValidId(id) THEN BlockedBy[id] ELSE BlockedBy[id - 10]

\* A done task whose blocker is open or missing on the merged board; blockers
\* in a cold tier count as missing.
Contradicted(board) ==
    \E id \in On(board) :
        board[id].done /\ \E b \in Needs(id) : board[b] = Absent \/ ~board[b].done

\* What apply compares: the tasks of every board, and the result.
Plan == [identity |-> <<sources, target, strategy>>, final |-> Final]

---------------------------------------------------------------------------

MergePlanInit ==
    /\ sources \in [1..NumBoards -> Boards]
    /\ target \in Boards
    /\ strategy \in {"keep-newer", "keep-both"}
    /\ stage = "inputs" /\ reviewed = Absent

\* merge --dry-run.
DryRun ==
    /\ stage = "inputs"
    /\ IF Contradicted(Final) THEN stage' = "refused" /\ UNCHANGED reviewed
       ELSE stage' = "planned" /\ reviewed' = Plan
    /\ UNCHANGED <<sources, target, strategy>>

\* While the plan is reviewed a task is edited, on any board (bound: once).
EditBoard ==
    /\ stage = "planned"
    /\ reviewed.identity = <<sources, target, strategy>>
    /\ \E id \in MergeIds, v \in Versions :
          \/ /\ target[id] # Absent
             /\ target' = [target EXCEPT ![id] = v] /\ UNCHANGED sources
          \/ \E i \in 1..NumBoards :
                /\ sources[i][id] # Absent
                /\ sources' = [sources EXCEPT ![i][id] = v] /\ UNCHANGED target
    /\ UNCHANGED <<strategy, stage, reviewed>>

\* Wrong: it is enough that the result has the same tasks.
AcceptedLoosely == ~Contradicted(Final) /\ On(Final) = On(reviewed.final)
\* apply_plan: rebuilt, the plan is the reviewed one in its inputs and result.
Accepted == ~Contradicted(Final) /\ Plan = reviewed

\* merge --apply-plan.  A renamed task has no path in the staged board: the
\* call fails there, and the target keeps its tasks.
ApplyPlan ==
    /\ stage = "planned"
    /\ IF ~Accepted THEN stage' = "refused" /\ UNCHANGED target
       ELSE IF \E id \in DOMAIN Final : ~ValidId(id) THEN stage' = "failed" /\ UNCHANGED target
       ELSE stage' = "applied" /\ target' = Final
    /\ UNCHANGED <<sources, strategy, reviewed>>

MergePlanNext == DryRun \/ EditBoard \/ ApplyPlan

MergePlanSpec == MergePlanInit /\ [][MergePlanNext]_mergeVars

---------------------------------------------------------------------------
(* Properties *)

TargetBefore == reviewed.identity[2]

\* An applied merge leaves what was reviewed, on the board that was reviewed:
\* no task of the target or of a source is missing, none of the target's is
\* replaced by one that is not newer, and no done task waits for an open one.
MergeAddsUp ==
    stage = "applied" =>
        /\ target = reviewed.final
        /\ \A id \in MergeIds :
              /\ TargetBefore[id] # Absent =>
                    \/ target[id] = TargetBefore[id]
                    \/ target[id] # Absent /\ target[id].time > TargetBefore[id].time
              /\ (\E i \in 1..NumBoards : sources[i][id] # Absent) => target[id] # Absent
        /\ ~Contradicted(target)

=============================================================================
