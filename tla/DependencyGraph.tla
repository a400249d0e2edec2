-------------------------- MODULE DependencyGraph ---------------------------
(***************************************************************************)
(* The order and ready commands over one board (graph.py, cli.py           *)
(* cmd_order, the ready plan of cache.py).                                 *)
(*                                                                         *)
(* Order builds a graph of the hot task files and runs Kahn's algorithm    *)
(* over the dependencies that still hold; a blocker it does not know holds *)
(* for ever.  Critical path runs over the result.  Ready asks the query    *)
(* cache, which knows the cold tier too.  IDs are numbers: their order is  *)
(* the order of the strings.                                               *)
(***************************************************************************)
EXTENDS Naturals, SequencesExt, Ordering

CONSTANTS
    NumNodes,
    DoneBlockers   \* bound: what a done task may still be blocked by

Nodes == 1..NumNodes

ASSUME NumNodesAssumption == NumNodes \in Nat \ {0}
ASSUME DoneBlockersAssumption == DoneBlockers \subseteq Nodes

VARIABLES
    place,      \* ID -> "open", "done" (hot files), "cold" (archived, done), "absent"
    blockedBy,  \* hot ID -> its blocked_by
    degree,     \* hot ID -> blockers not yet listed (in_degree)
    queue,      \* Kahn's queue
    listed,     \* the order so far (result)
    relaxed,    \* listed IDs whose dependents are relaxed
    longest,    \* hot ID -> length of the longest chain that ends there (dp)
    parent,     \* hot ID -> the ID before it on that chain, or 0
    path,       \* the critical path, as far as it is traced
    answer      \* how far the command is

graphInput == <<place, blockedBy>>
graphVars == <<graphInput, degree, queue, listed, relaxed, longest, parent, path, answer>>

---------------------------------------------------------------------------

Hot == {t \in Nodes : place[t] \in {"open", "done"}}
Resolved(t) == place[t] = "done"

\* _active_blockers: an unknown blocker stays active.
ActiveBlockers(t) ==
    IF place[t] # "open" THEN {} ELSE {b \in blockedBy[t] : ~Resolved(b)}

\* _forward: every edge, active or not.
Forward(t) == {d \in Hot : t \in blockedBy[d]}

\* Wrong: satisfied dependencies count too.
InDegreeAll(t) == Cardinality(blockedBy[t])
InDegree(t) == Cardinality(ActiveBlockers(t))

\* _load_all_tasks_for_graph: the hot files, nothing of the cold tier.
GraphInit ==
    /\ place \in [Nodes -> {"open", "done", "cold", "absent"}]
    /\ blockedBy \in [Hot -> SUBSET Nodes]
    /\ \A t \in Hot : place[t] = "done" => blockedBy[t] \subseteq DoneBlockers
    /\ degree = [t \in Hot |-> InDegree(t)]
    /\ queue = Ascending({t \in Hot : degree[t] = 0})
    /\ listed = <<>> /\ relaxed = 0
    /\ longest = [t \in Hot |-> 1] /\ parent = [t \in Hot |-> 0]
    /\ path = <<>> /\ answer = "none"

\* Wrong: one dependent is let go for every listed task.
FreedEarly(t) == {d \in Forward(t) : t \in ActiveBlockers(d) /\ degree[d] >= 1}

\* The dependents whose last active blocker is t.
Freed(t) == {d \in Forward(t) : t \in ActiveBlockers(d) /\ degree[d] = 1}

\* One turn of the loop of topological_sort.
ListNext ==
    /\ queue # <<>>
    /\ LET t == Head(queue)
       IN /\ listed' = Append(listed, t)
          /\ degree' = [d \in Hot |->
                           IF d \in Forward(t) /\ t \in ActiveBlockers(d) /\ degree[d] > 0
                           THEN degree[d] - 1 ELSE degree[d]]
          /\ queue' = Tail(queue) \o Ascending(Freed(t))
    /\ UNCHANGED <<graphInput, relaxed, longest, parent, path, answer>>

Left == Hot \ ToSet(listed)

\* Tasks are left: a blocker without a file, or else a cycle.
RefuseOrder ==
    /\ answer = "none" /\ queue = <<>> /\ Left # {}
    /\ answer' = IF \E t \in Left : ActiveBlockers(t) \ Hot # {} THEN "missing" ELSE "cycle"
    /\ UNCHANGED <<graphInput, degree, queue, listed, relaxed, longest, parent, path>>

Accept ==
    /\ answer = "none" /\ queue = <<>> /\ Left = {}
    /\ answer' = "ordered"
    /\ UNCHANGED <<graphInput, degree, queue, listed, relaxed, longest, parent, path>>

---------------------------------------------------------------------------
(* get_critical_path: dynamic programming along the order.                 *)

\* Wrong: the first blocker listed is the one before.
LongerFirst(d, n) == longest[d] = 1

Longer(d, n) == longest[n] + 1 > longest[d]

\* One turn of the loop: a listed task and the tasks that wait for it.
Relax ==
    /\ answer = "ordered" /\ relaxed < Len(listed)
    /\ LET n == listed[relaxed + 1]
           better == {d \in Forward(n) : n \in ActiveBlockers(d) /\ Longer(d, n)}
       IN /\ longest' = [d \in Hot |-> IF d \in better THEN longest[n] + 1 ELSE longest[d]]
          /\ parent' = [d \in Hot |-> IF d \in better THEN n ELSE parent[d]]
    /\ relaxed' = relaxed + 1
    /\ UNCHANGED <<graphInput, degree, queue, listed, path, answer>>

\* The end of the path has the greatest length and then the greatest ID; a chain
\* of one task is none.
Greatest(t) == \A u \in Hot : longest[u] < longest[t] \/ (longest[u] = longest[t] /\ u <= t)

FindEnd ==
    /\ answer = "ordered" /\ relaxed = Len(listed)
    /\ path' = IF \E t \in Hot : longest[t] > 1
               THEN <<CHOOSE t \in Hot : Greatest(t)>> ELSE <<>>
    /\ answer' = IF path' = <<>> THEN "path" ELSE "tracing"
    /\ UNCHANGED <<graphInput, degree, queue, listed, relaxed, longest, parent>>

\* The path is read backwards.
Trace ==
    /\ answer = "tracing"
    /\ LET before == parent[Head(path)]
       IN IF before = 0 THEN answer' = "path" /\ path' = path
          ELSE answer' = answer /\ path' = <<before>> \o path
    /\ UNCHANGED <<graphInput, degree, queue, listed, relaxed, longest, parent>>

GraphNext == ListNext \/ RefuseOrder \/ Accept \/ Relax \/ FindEnd \/ Trace
GraphSpec == GraphInit /\ [][GraphNext]_graphVars

---------------------------------------------------------------------------
(* The other readers of dependencies.                                      *)

\* get_priority_score over the open tasks: how many wait for t, at any distance.
\* They are in every set that has t's dependents and those of its members.
Waiting(t) ==
    LET Open == {u \in Nodes : place[u] = "open"}
        Has(C, u) == Forward(u) \cap Open \subseteq C
    IN {u \in Open : \A C \in SUBSET Open : Has(C, t) /\ (\A v \in C : Has(C, v)) => u \in C}
Score(t) == Cardinality(Waiting(t))

---------------------------------------------------------------------------
(* Properties *)

\* What has to be done before t, by the files.
Before(t) == {b \in blockedBy[t] : place[t] = "open" /\ place[b] # "done"}

Position(t) == CHOOSE i \in DOMAIN listed : listed[i] = t

\* Work can be done in the order that order prints: when its turn comes, every
\* blocker of a task is done or listed before it, no hot task is left out or
\* listed twice, and a task that more tasks wait for comes before those tasks.
OrderIsExecutable ==
    answer = "ordered" =>
        /\ ToSet(listed) = Hot /\ IsInjective(listed)
        /\ \A t \in Hot : \A b \in Before(t) :
              b \in Hot /\ Position(b) < Position(t) /\ Score(b) > Score(t)

\* An order is refused only for a reason: some open task waits for an ID with
\* no hot file, or some open tasks wait for each other in a circle.
RefusalHasReason ==
    /\ answer = "missing" => \E t \in Nodes : place[t] = "open" /\ blockedBy[t] \ Hot # {}
    /\ answer = "cycle" =>
          \E C \in (SUBSET Hot) \ {{}} : \A t \in C : Before(t) \cap C # {}

OrderOrReason == OrderIsExecutable /\ RefusalHasReason

\* The critical path is a chain of dependencies that still hold, and no chain
\* is longer.
Chain(s) == \A i \in 1..Len(s) - 1 : s[i] \in Before(s[i + 1])
CriticalPathIsLongest ==
    answer = "path" =>
        /\ Chain(path)
        /\ \A s \in UNION {[1..n -> Hot] : n \in 2..NumNodes} : Chain(s) => Len(path) >= Len(s)

=============================================================================
