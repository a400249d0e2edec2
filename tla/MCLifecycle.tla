---------------------------- MODULE MCLifecycle -----------------------------
(***************************************************************************)
(* Small instances of Lifecycle for TLC.  A behaviour is either two        *)
(* clients editing the edges of open tasks at once, or all the calls that  *)
(* the board applies in one step.                                          *)
(***************************************************************************)
EXTENDS Lifecycle, TLC

CONSTANTS t1, t2, t3, p1, p2

VARIABLE part

\* t1 is the umbrella; the other tasks are alike, and so are the processes.
Symmetric == Permutations({t2, t3}) \cup Permutations({p1, p2})

PartInit == Init /\ part \in {"edges", "calls"}

EdgeStep ==
    \/ \E p \in Procs :
          \/ AskDepsAdd(p) \/ AskDepsRemove(p) \/ Abandon(p)
          \/ AskUpdate(p) /\ request'[p].status \notin Terminal
          \/ ApplyRequest(p)
    \/ \E t \in Tasks : \/ Create(t) /\ status'[t] \notin Terminal
                        \/ t \in Umbrellas /\ ArchiveRecord(t)

\* Bound: an unchecked call makes no task its own blocker.
CallStep ==
    \/ \E t \in Tasks : \/ SetStatus(t) \/ Create(t) \/ Delete(t) \/ ArchiveRecord(t)
                        \/ (ExactReplace(t) \/ ReplaceRecord(t)) /\ t \notin blockers'[t]
    \/ Admit \/ Finalize \/ ArchivePack

PartNext ==
    /\ part' = part
    /\ \/ part = "edges" /\ EdgeStep
       \/ part = "calls" /\ CallStep

PartSpec == PartInit /\ [][PartNext]_<<part, vars>>

=============================================================================
