----------------------------- MODULE LedgerFile -----------------------------
(***************************************************************************)
(* The ledger of one task in bytes (ledger.py): a chain of events, a line  *)
(* each, in numbered segment files of at most Limit bytes.                 *)
(*                                                                         *)
(* The writer holds the task's lock.  A mutation replaces the last segment *)
(* whole, as part of its transaction (storage.py, BoardStore); reconcile,  *)
(* and every mutation of a file that was edited, appends in place.  There  *)
(* os.write may take part of a line at a time, so a kill may leave part of *)
(* a line; nothing ever truncates it.                                      *)
(***************************************************************************)
EXTENDS Naturals, SequencesExt

CONSTANTS
    Limit,       \* MAX_SEGMENT_BYTES
    Sizes,       \* bytes of an event's line, its newline included
    Nobody,
    MaxLines     \* bound: events ever prepared

ASSUME LimitAssumption == Limit \in Nat \ {0}
ASSUME SizesAssumption == Sizes \subseteq Nat \ {0, 1}   \* an object and its newline

\* n: the event, prev: the one before it.
LineEvents == [n : Nat, prev : Nat, size : Sizes]
OpenLines == [of : LineEvents, bytes : Nat]

ASSUME NobodyAssumption == Nobody \notin Nat \cup LineEvents \cup OpenLines

VARIABLES
    segments,    \* 000001.ndjson, 000002.ndjson, ...
    event,       \* the prepared event, or Nobody
    writing,     \* bytes of it that are appended, or Nobody: no append runs
    log,         \* history: the events that were written as whole lines
    stopped      \* history: an append was stopped inside a line

ledgerVars == <<segments, event, writing, log, stopped>>

---------------------------------------------------------------------------

\* size: st_size.  lines: the complete lines.  open: the last line, without its
\* newline, and its bytes.  broken: a line of two events.
EmptySegment == [size |-> 0, lines |-> <<>>, open |-> Nobody, broken |-> FALSE]

\* Without its newline the last line still reads.
ReadsOpen(s) == s.open # Nobody /\ s.open.bytes = s.open.of.size - 1
Reads(s) == ~s.broken /\ (s.open = Nobody \/ ReadsOpen(s))
Lines(s) == IF ReadsOpen(s) THEN Append(s.lines, s.open.of) ELSE s.lines

Readable == \A i \in DOMAIN segments : Reads(segments[i])
Events == FlattenSeq([i \in DOMAIN segments |-> Lines(segments[i])])
Tip == IF Events = <<>> THEN 0 ELSE Events[Len(Events)].n

\* read: every event names the one before it.
Chained(events) ==
    \A i \in DOMAIN events : events[i].prev = IF i = 1 THEN 0 ELSE events[i - 1].n

---------------------------------------------------------------------------

LedgerInit ==
    /\ segments = <<>> /\ event = Nobody /\ writing = Nobody
    /\ log = <<>> /\ stopped = FALSE

Fits(size) == size <= Limit

\* prepare: reads the chain, refuses what no segment can hold.
PrepareLine ==
    /\ event = Nobody /\ Readable /\ Len(log) < MaxLines
    /\ \E size \in Sizes : Fits(size) /\ event' = [n |-> Len(log) + 1, prev |-> Tip, size |-> size]
    /\ UNCHANGED <<segments, writing, log, stopped>>

\* Wrong: a full segment takes one more event.
RollsLate(s, size) == s.size > Limit
Rolls(s, size) == s.size > 0 /\ s.size + size > Limit

\* The segment the line goes to: the last, or a new one when it does not fit.
Target(size) ==
    IF segments = <<>> \/ Rolls(segments[Len(segments)], size)
    THEN Append(segments, EmptySegment) ELSE segments

\* A segment after k more bytes of the event, of which n are there.
Grown(s, n, k) ==
    LET bytes == n + k
        broken == s.broken \/ (n = 0 /\ s.open # Nobody)
    IN [size |-> s.size + k, broken |-> broken,
        lines |-> IF bytes = event.size /\ ~broken THEN Append(s.lines, event) ELSE s.lines,
        open |-> IF bytes = event.size THEN Nobody ELSE [of |-> event, bytes |-> bytes]]

\* _transaction_paths and its activation: the segment is replaced whole.
Replace ==
    /\ event # Nobody /\ writing = Nobody
    /\ LET target == Target(event.size)
       IN segments' = [target EXCEPT ![Len(target)] = Grown(@, 0, event.size)]
    /\ log' = Append(log, event) /\ event' = Nobody
    /\ UNCHANGED <<writing, stopped>>

\* append_prepared: the tip is still the one prepare saw.
Open ==
    /\ event # Nobody /\ writing = Nobody
    /\ Readable /\ Tip = event.prev
    /\ segments' = Target(event.size)
    /\ writing' = 0
    /\ UNCHANGED <<event, log, stopped>>

\* os.write takes some of the rest.
Write ==
    /\ writing # Nobody /\ writing < event.size
    /\ \E k \in 1..event.size - writing :
          /\ segments' = [segments EXCEPT ![Len(segments)] = Grown(@, writing, k)]
          /\ writing' = writing + k
    /\ UNCHANGED <<event, log, stopped>>

\* Wrong: one os.write is taken for the whole line.
DrainedOnce == writing > 0
Drained == writing = event.size

\* The buffer is drained and synced.
Acknowledge ==
    /\ writing # Nobody /\ Drained
    /\ log' = Append(log, event)
    /\ event' = Nobody /\ writing' = Nobody
    /\ UNCHANGED <<segments, stopped>>

\* A kill, or a write that fails.  A line that lacks its newline only still
\* reads: the event counts.
StopAppend ==
    /\ event # Nobody
    /\ stopped' = (stopped \/ (writing # Nobody /\ writing \in 1..event.size - 1))
    /\ log' = IF writing # Nobody /\ writing + 1 >= event.size THEN Append(log, event) ELSE log
    /\ event' = Nobody /\ writing' = Nobody
    /\ UNCHANGED segments

LedgerNext == PrepareLine \/ Replace \/ Open \/ Write \/ Acknowledge \/ StopAppend

LedgerSpec == LedgerInit /\ [][LedgerNext]_ledgerVars

---------------------------------------------------------------------------
(* Properties *)

\* However lines arrive and appends are stopped, no segment outgrows the limit
\* that prepare promises.
SegmentsWithinLimit == \A i \in DOMAIN segments : segments[i].size <= Limit

\* A ledger that reads back, between writes, reads as the events that were
\* written whole, in their order and chained across segments; and one that
\* does not was stopped inside a line.
LedgerIsLog ==
    writing = Nobody =>
        /\ Readable => Events = log /\ Chained(Events)
        /\ stopped \/ Readable

=============================================================================
