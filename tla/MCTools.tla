------------------------------- MODULE MCTools ------------------------------
(***************************************************************************)
(* Machines that share nothing, in one run: the tools that replace a whole *)
(* board, the plan of a merge, the record migration, the order and         *)
(* critical path of a dependency graph, the ledger of one task in bytes, a *)
(* paged walk, and the distribution of records over packs.  A behaviour    *)
(* picks one, and the others rest in one initial state.                    *)
(***************************************************************************)
EXTENDS WholeBoard, MergePlan, Migration, DependencyGraph, LedgerFile, Paging, Packing, TLC

CONSTANTS w1, w2, g1, g2, g3, v1, v2, y1, y2, y3

VARIABLE machine
toolsVars == <<machine, vars, mergeVars, migrationVars, graphVars, ledgerVars, pagingVars, packingVars>>

\* Both sources draw the same IDs, the first from the first on.
SameCandidates == << <<g1, g2, g3>>, <<g1, g2, g3>> >>
OneOrAll == {{1}, {1, 2}}
SomeSizes == {2, 3, 6, 7}
FirstOnly == {1}
\* The second task waits for the first.
SecondOnFirst == << {}, {1} >>

MoverSymmetry == Permutations(Movers)

ToolsInit ==
    /\ machine \in {"board", "merge", "migration", "graph", "ledger", "paging", "packing"}
    /\ machine # "merge" =>
          /\ target = [id \in MergeIds |-> Absent] /\ strategy = "keep-newer"
          /\ sources = [i \in 1..NumBoards |-> target]
    /\ machine # "graph" => place = [t \in Nodes |-> "absent"]
    /\ machine # "paging" => stamp = [r \in Rows |-> 0]
    /\ machine # "packing" =>
          /\ estimate = [r \in Records |-> 1] /\ oldest = [r \in Records |-> r]
          /\ limits = [target |-> 1, hard |-> 1, most |-> 1]
    /\ Init /\ MergePlanInit /\ MigrationInit /\ GraphInit /\ LedgerInit /\ PagingInit /\ PackingInit

ToolsNext ==
    /\ machine' = machine
    /\ \/ /\ machine = "board" /\ Next
          /\ UNCHANGED <<mergeVars, migrationVars, graphVars, ledgerVars, pagingVars, packingVars>>
       \/ /\ machine = "merge" /\ MergePlanNext
          /\ UNCHANGED <<vars, migrationVars, graphVars, ledgerVars, pagingVars, packingVars>>
       \/ /\ machine = "migration" /\ MigrationNext
          /\ UNCHANGED <<vars, mergeVars, graphVars, ledgerVars, pagingVars, packingVars>>
       \/ /\ machine = "graph" /\ GraphNext
          /\ UNCHANGED <<vars, mergeVars, migrationVars, ledgerVars, pagingVars, packingVars>>
       \/ /\ machine = "ledger" /\ LedgerNext
          /\ UNCHANGED <<vars, mergeVars, migrationVars, graphVars, pagingVars, packingVars>>
       \/ /\ machine = "paging" /\ PagingNext
          /\ UNCHANGED <<vars, mergeVars, migrationVars, graphVars, ledgerVars, packingVars>>
       \/ /\ machine = "packing" /\ PackingNext
          /\ UNCHANGED <<vars, mergeVars, migrationVars, graphVars, ledgerVars, pagingVars>>

ToolsSpec == ToolsInit /\ [][ToolsNext]_toolsVars
=============================================================================
