------------------------------- MODULE Paging -------------------------------
(***************************************************************************)
(* A collection read page by page with a cursor (cli.py,                   *)
(* _cmd_indexed_collection; cache.py, query).                              *)
(*                                                                         *)
(* A page is one query of the cache, in the order of the time of the last  *)
(* change, and its cursor names the last key of the page and the revision  *)
(* of the cache.  Every page is a command of its own; checking the cursor, *)
(* the query, and taking the revision for the next cursor are three        *)
(* transactions.                                                           *)
(***************************************************************************)
EXTENDS Naturals, Sequences, FiniteSets, Ordering

CONSTANTS
    Rows,          \* tasks
    PageSize,      \* --limit
    NoCursor,      \* no cursor, no key
    MaxStamp       \* bound: changes of rows

ASSUME PageSizeAssumption == PageSize \in Nat \ {0}
ASSUME RowsAssumption == IsFiniteSet(Rows) /\ MaxStamp \in Nat

VARIABLES
    stamp,         \* row -> its last change, 0: no such row
    clock,         \* the last stamp
    revision,      \* cache_revision
    secret,        \* cursor_secret of this database file
    cursor,        \* what the caller has, or NoCursor
    page,          \* "ready", or how far the running command is
    from,          \* the key after which the running command reads, or NoCursor
    shown,         \* rows the caller was shown, in order
    first,         \* history: the rows at the first query of the walk
    between        \* history: a row changed inside a command of the walk

pagingBoard == <<stamp, clock, revision, secret>>
pagingVars == <<pagingBoard, cursor, page, from, shown, first, between>>

---------------------------------------------------------------------------

Present(s) == {r \in Rows : s[r] > 0}

\* The order of a query, newest first.
InOrder(s) == NewestFirst(Present(s), s)

\* A rebuild gives a revision computed from the rows, every other change a
\* new one (uuid4).
Unique(n) == <<"unique", n>>
Computed(s) == <<"computed", s>>

Revisions == ({"unique"} \X Nat) \cup ({"computed"} \X [Rows -> Nat])
Cursors == [last : Nat, revision : Revisions, secret : {0, 1}]

ASSUME NoCursorAssumption == NoCursor \notin Nat \cup Cursors

PagingInit ==
    /\ stamp \in [Rows -> 0..Cardinality(Rows)]
    /\ \A q, r \in Present(stamp) : stamp[q] = stamp[r] => q = r
    /\ clock = Cardinality(Rows) /\ revision = Computed(stamp) /\ secret = 0
    /\ cursor = NoCursor /\ page = "ready" /\ from = NoCursor
    /\ shown = <<>> /\ first = stamp /\ between = FALSE

Walking == page # "ready"

\* A task is created or changed, or its file goes, and the cache is refreshed.
Change(r, new) ==
    /\ clock < MaxStamp
    /\ stamp' = [stamp EXCEPT ![r] = new]
    /\ clock' = clock + 1 /\ revision' = Unique(clock')
    /\ between' = (between \/ Walking)
    /\ UNCHANGED <<secret, cursor, page, from, shown, first>>

Rebuild ==
    /\ revision' = Computed(stamp)
    /\ UNCHANGED <<stamp, clock, secret, cursor, page, from, shown, first, between>>

\* The database is deleted: the next read makes one with a secret of its own.
Recreate ==
    /\ secret = 0
    /\ secret' = 1 /\ revision' = Computed(stamp)
    /\ UNCHANGED <<stamp, clock, cursor, page, from, shown, first, between>>

\* A command without a cursor begins the walk.
StartWalk ==
    /\ page = "ready"
    /\ page' = "query" /\ from' = NoCursor
    /\ cursor' = NoCursor /\ shown' = <<>> /\ between' = FALSE
    /\ UNCHANGED <<pagingBoard, first>>

\* Wrong: any revision will do.
AcceptsSigned(c) == c.secret = secret
Accepts(c) == c.secret = secret /\ c.revision = revision

\* _validate_pagination_args: a refused cursor ends the command, and the walk
\* can only begin again.
Continue ==
    /\ page = "ready" /\ cursor # NoCursor
    /\ IF Accepts(cursor)
       THEN page' = "query" /\ from' = cursor.last /\ cursor' = cursor
       ELSE page' = page /\ from' = from /\ cursor' = NoCursor
    /\ UNCHANGED <<pagingBoard, shown, first, between>>

\* The rows after the key, or all.
Rest ==
    IF from = NoCursor THEN InOrder(stamp)
    ELSE NewestFirst({r \in Present(stamp) : stamp[r] < from}, stamp)

\* query: one row more than the page says whether there is a next one.
Query ==
    /\ page = "query"
    /\ LET rows == SubSeq(Rest, 1, IF Len(Rest) < PageSize THEN Len(Rest) ELSE PageSize)
       IN /\ shown' = shown \o rows
          /\ IF Len(Rest) > PageSize
             THEN page' = "seal" /\ from' = stamp[rows[Len(rows)]]
             ELSE page' = "end" /\ from' = from
    /\ first' = IF shown = <<>> THEN stamp ELSE first
    /\ UNCHANGED <<pagingBoard, cursor, between>>

\* _set_next_cursor: the revision of now, the key of the page.
Seal ==
    /\ page = "seal"
    /\ cursor' = [last |-> from, revision |-> revision, secret |-> secret]
    /\ page' = "ready"
    /\ UNCHANGED <<pagingBoard, from, shown, first, between>>

EndWalk ==
    /\ page = "end"
    /\ page' = "ready" /\ cursor' = NoCursor
    /\ UNCHANGED <<pagingBoard, from, shown, first, between>>

PagingNext ==
    \/ \E r \in Rows : Change(r, clock + 1) \/ (stamp[r] > 0 /\ Change(r, 0))
    \/ Rebuild \/ Recreate
    \/ StartWalk \/ Continue \/ Query \/ Seal \/ EndWalk

PagingSpec == PagingInit /\ [][PagingNext]_pagingVars

---------------------------------------------------------------------------
(* Properties *)

\* A walk that comes to its end without a refusal has shown every row of one
\* board once, in order, however many changes and rebuilds fell between its
\* commands.  (A change inside a command is not noticed: the cursor gets the
\* revision of after the change, with a key of before.)
WalkIsExact == page = "end" /\ ~between => shown = InOrder(first)

=============================================================================
