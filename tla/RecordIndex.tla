----------------------------- MODULE RecordIndex -----------------------------
(***************************************************************************)
(* record search (record_cli.py, record_search.py): a disposable index of  *)
(* all Records, rebuilt by whoever finds that it was not made from the     *)
(* files of now, and walks over its rows, page by page.  Nothing is        *)
(* locked: Records change and move to the archive meanwhile, and another   *)
(* process may replace the index at any time.                              *)
(***************************************************************************)
EXTENDS Naturals, Sequences, FiniteSets, SequencesExt, FiniteSetsExt, Ordering

CONSTANTS
    Searchers,      \* processes that search
    RecordIds,      \* Records, numbers
    TaskIds,        \* those that are tasks, the others being Documents or Artifacts
    Queries,        \* page limit and output budget of a walk
    MaxCandidates,  \* most rows one page looks at
    Missing,        \* no Record, no index, no walk
    MaxFileChanges  \* bound: changes of files

ASSUME RecordIndexAssumption ==
    /\ RecordIds \subseteq Nat /\ IsFiniteSet(RecordIds) /\ TaskIds \subseteq RecordIds
    /\ Queries \subseteq [limit : Nat \ {0}, budget : Nat \ {0}]
    /\ MaxCandidates \in Nat \ {0} /\ MaxFileChanges \in Nat

VARIABLES
    records,    \* ID -> when it was last modified, and its tier, or Missing
    signature,  \* tells the files of now from those before a change: counts the changes
    index,      \* the signature it was made under, and its rows, or Missing
    step,       \* searcher -> where it is in a call
    search,     \* searcher -> the call: signature and what it has read
    walk        \* searcher -> the walk the call belongs to, or Missing

indexVars == <<records, signature, index, step, search, walk>>

\* A Record that is both hot and cold is between two steps of record archive,
\* or was left so by a kill.
Tiers == {"hot", "both", "archive"}

Versions == [modified : Nat, tier : Tiers]
IndexRows == [id : RecordIds, modified : Nat, tier : {"hot", "archive"}]
Indexes == [tag : Nat, rows : SUBSET IndexRows]
Walks == [query : Queries, cursor : Nat \cup {Missing}, given : Seq(IndexRows),
          all : Seq(IndexRows), cut : BOOLEAN, ended : BOOLEAN]

ASSUME MissingAssumption == Missing \notin Nat \cup Versions \cup Indexes \cup Walks

---------------------------------------------------------------------------
(* Records change                                                          *)

Present(r, tiers) == IF records[r] = Missing THEN FALSE ELSE records[r].tier \in tiers

Changed(r, record) ==
    /\ signature < MaxFileChanges
    /\ signature' = signature + 1
    /\ records' = [records EXCEPT ![r] = record]
    /\ search' = [p \in Searchers |-> [search[p] EXCEPT !.rested = @ \ {r}]]
    /\ UNCHANGED <<index, step, walk>>

\* create, update, revise
Modify == \E r \in RecordIds :
    /\ ~Present(r, {"both", "archive"})
    /\ Changed(r, [modified |-> signature + 1, tier |-> "hot"])

\* record archive publishes the pack, and removes the hot files.
Publish == \E r \in RecordIds :
    /\ Present(r, {"hot"})
    /\ Changed(r, [records[r] EXCEPT !.tier = "both"])
RemoveHot == \E r \in RecordIds :
    /\ Present(r, {"both"})
    /\ Changed(r, [records[r] EXCEPT !.tier = "archive"])

---------------------------------------------------------------------------
(* The index                                                               *)

NoCall == [tag |-> 0, rested |-> {}, cold |-> {}, rows |-> {},
           replaced |-> FALSE, missed |-> {}, page |-> <<>>]

Go(p, to) == step' = [step EXCEPT ![p] = to]

\* A call that raises ends the walk.
Raise(p) ==
    /\ Go(p, "idle")
    /\ walk' = [walk EXCEPT ![p] = Missing]
    /\ search' = [search EXCEPT ![p] = NoCall]

Row(r, tier) == [id |-> r, modified |-> records[r].modified, tier |-> tier]

\* The first page of a walk, or the next one.  The signature is taken first.
StartSearch(p) ==
    /\ step[p] = "idle"
    /\ IF walk[p] = Missing
       THEN \E q \in Queries :
               walk' = [walk EXCEPT ![p] = [query |-> q, cursor |-> Missing, given |-> <<>>, all |-> <<>>,
                                            cut |-> FALSE, ended |-> FALSE]]
       ELSE ~walk[p].ended /\ UNCHANGED walk
    /\ Go(p, "signed")
    /\ search' = [search EXCEPT ![p] = [NoCall EXCEPT !.tag = signature,
                                        !.rested = {r \in RecordIds : Present(r, {"hot", "archive"})}]]
    /\ UNCHANGED <<records, signature, index>>

\* ensure: an index made under this signature will do.
Ensure(p) ==
    /\ step[p] = "signed"
    /\ Go(p, IF index # Missing /\ index.tag = search[p].tag THEN "ensured" ELSE "cold")
    /\ UNCHANGED <<records, signature, index, search, walk>>

\* _sources reads the archive ...
ReadCold(p) ==
    /\ step[p] = "cold"
    /\ search' = [search EXCEPT ![p].cold =
          {Row(r, "archive") : r \in {x \in RecordIds : Present(x, {"both", "archive"})}}]
    /\ Go(p, "hot")
    /\ UNCHANGED <<records, signature, index, walk>>

\* ... and then the hot files.  A task found in both tiers breaks the primary
\* key of the index; of the others the cold one is taken.
ReadHot(p) ==
    LET cold == {row.id : row \in search[p].cold}
        hot == {r \in RecordIds : Present(r, {"hot", "both"})}
    IN /\ step[p] = "hot"
       /\ IF hot \cap cold \cap TaskIds # {} THEN Raise(p)
          ELSE /\ search' = [search EXCEPT ![p].rows = search[p].cold \cup {Row(r, "hot") : r \in hot \ cold}]
               /\ Go(p, "built") /\ UNCHANGED walk
       /\ UNCHANGED <<records, signature, index>>

\* Wrong: the signature of now.
TagNow(p) == signature
Tag(p) == search[p].tag

\* os.replace; another call between its ensure and its query will not notice.
ReplaceIndex(p) ==
    /\ step[p] = "built"
    /\ index' = [tag |-> Tag(p), rows |-> search[p].rows]
    /\ search' = [q \in Searchers |->
          IF q = p THEN [search[p] EXCEPT !.cold = {}, !.rows = {}]
          ELSE [search[q] EXCEPT !.replaced = @ \/ step[q] = "ensured"]]
    /\ Go(p, "ensured")
    /\ UNCHANGED <<records, signature, walk>>

---------------------------------------------------------------------------
(* A page                                                                  *)

\* Newest first.
InSequence(rows) == NewestFirst(rows, [row \in rows |-> row.modified])

CandidateLimit(q) == Min({MaxCandidates, Max({q.limit + 1, 4 * q.limit})})

\* History: Records that have rested since the call began, and are not in the
\* index as they are.
Overlooked(p) == {r \in search[p].rested : Row(r, records[r].tier) \notin index.rows}

\* search opens the index again.  A cursor is bound to the revision, that is
\* to the rows of the index it came from.
Select(p) ==
    LET w == walk[p]
        rows == InSequence(index.rows)
        rest == IF w.cursor = Missing THEN rows
                ELSE InSequence({row \in index.rows : row.modified < w.cursor})
    IN /\ step[p] = "ensured"
       /\ IF w.cursor # Missing /\ w.all # rows THEN Raise(p)
          ELSE /\ search' = [search EXCEPT ![p].page =
                                               SubSeq(rest, 1, Min({Len(rest), CandidateLimit(w.query)})),
                                           ![p].missed = Overlooked(p), ![p].rested = {}]
               /\ walk' = [walk EXCEPT ![p].all = rows]
               /\ Go(p, "page")
       /\ UNCHANGED <<records, signature, index>>

\* _canonical: the Record is in the row's tier, as the row says.
AsIndexed(row) ==
    IF row.tier = "archive" THEN Present(row.id, {"both", "archive"})
    ELSE Present(row.id, {"hot", "both"}) /\ records[row.id].modified = row.modified

\* The size of the output: a Record takes one unit, an odd one two.
Bytes(rows) == Len(rows) + Cardinality({i \in DOMAIN rows : rows[i].id % 2 = 1})

\* The rows that a page returns: the first that are within limit and budget.
Fitting(q, page) ==
    CHOOSE n \in 0..Len(page) :
        /\ n <= q.limit /\ Bytes(SubSeq(page, 1, n)) <= q.budget
        /\ n < Len(page) /\ n < q.limit => Bytes(SubSeq(page, 1, n + 1)) > q.budget

\* Rows looked at: the one over the budget is among them.
Examined(q, page) ==
    LET n == Fitting(q, page) IN IF n < Len(page) /\ n < q.limit THEN n + 1 ELSE n

\* Wrong: more rows only follow a page that is full.
HasMoreIfFull(q, page) == Fitting(q, page) = q.limit /\ Len(page) > q.limit
HasMore(q, page) ==
    Len(page) > Examined(q, page) \/ (Examined(q, page) = CandidateLimit(q) /\ page # <<>>)

\* Every row is read again from its file, here in one step, and none may
\* differ.  A first row over the budget is an error.
AnswerPage(p) ==
    LET w == walk[p]  page == search[p].page  n == Fitting(w.query, page)
    IN /\ step[p] = "page"
       /\ IF \/ \E i \in 1..Examined(w.query, page) : ~AsIndexed(page[i])
             \/ n = 0 /\ page # <<>>
          THEN Raise(p)
          ELSE /\ walk' = [walk EXCEPT ![p] =
                     [w EXCEPT !.given = @ \o SubSeq(page, 1, n),
                               !.cursor = IF n > 0 THEN page[n].modified ELSE @,
                               !.cut = Examined(w.query, page) > n,
                               !.ended = ~(n > 0 /\ HasMore(w.query, page))]]
               /\ Go(p, "idle") /\ search' = [search EXCEPT ![p] = NoCall]
       /\ UNCHANGED <<records, signature, index>>

\* The user has seen the last page, or does not ask for the next one; a
\* killed call leaves a temporary file of its own name.
LeaveWalk(p) ==
    /\ walk[p] # Missing
    /\ Raise(p)
    /\ UNCHANGED <<records, signature, index>>

---------------------------------------------------------------------------

RecordIndexInit ==
    /\ records = [r \in RecordIds |-> Missing] /\ signature = 0
    /\ index = Missing
    /\ step = [p \in Searchers |-> "idle"]
    /\ search = [p \in Searchers |-> NoCall]
    /\ walk = [p \in Searchers |-> Missing]

RecordIndexNext ==
    \/ Modify \/ Publish \/ RemoveHot
    \/ \E p \in Searchers :
          \/ StartSearch(p) \/ Ensure(p) \/ ReadCold(p) \/ ReadHot(p) \/ ReplaceIndex(p)
          \/ Select(p) \/ AnswerPage(p) \/ LeaveWalk(p)

RecordIndexSpec == RecordIndexInit /\ [][RecordIndexNext]_indexVars

---------------------------------------------------------------------------
(* Properties *)

\* A search overlooks no Record that has rested since the call began, unless
\* another process replaced the index between its check and its query.
SearchSeesAll ==
    \A p \in Searchers : step[p] = "page" /\ ~search[p].replaced => search[p].missed = {}

\* The pages of a walk are the rows of one index, in order, each once; but
\* when the budget cuts off the very last row, the walk ends without it.
PagesAddUp ==
    \A p \in Searchers : walk[p] # Missing =>
        LET w == walk[p] IN
        /\ IsPrefix(w.given, w.all)
        /\ w.ended => Len(w.given) = Len(w.all) - (IF w.cut THEN 1 ELSE 0)

\* What a search leaves out, and only what it names.
SearchAddsUp == SearchSeesAll /\ PagesAddUp

=============================================================================
