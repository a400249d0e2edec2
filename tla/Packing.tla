------------------------------- MODULE Packing -------------------------------
(***************************************************************************)
(* How archive-pack distributes tasks over packs (archive.py): the plan    *)
(* batches the tasks in the order of their terminal transitions, and       *)
(* create splits each reviewed batch again, in the order of the IDs.       *)
(*                                                                         *)
(* Both run the same loop (_ordered_batches, split_records) with the same  *)
(* limits, a record a step.  Tasks are numbered in the order of the IDs.   *)
(***************************************************************************)
EXTENDS Naturals, SequencesExt, Functions, Ordering

CONSTANTS
    NumRecords,  \* tasks to archive
    MaxBytes     \* bound: sizes and limits

ASSUME PackingAssumption == {NumRecords, MaxBytes} \subseteq Nat

Records == 1..NumRecords

VARIABLES
    estimate,    \* the size of each record
    oldest,      \* the records in the order of their terminal transitions
    limits,      \* [target, hard, most]: bytes and records of a pack
    batches,     \* the plan's
    packs,       \* what became of each batch, as far as create has come
    phase,       \* "plan", "split": the loop runs; "between"
    unsplit,     \* what the loop has still to see
    closed,      \* the batches it has closed
    current,     \* the batch it fills
    currentSize  \* and the bytes in it

packingInput == <<estimate, oldest, limits>>
packingVars == <<packingInput, batches, packs, phase, unsplit, closed, current, currentSize>>

---------------------------------------------------------------------------

\* The oldest, as many as a plan may have.  The same limit holds for a pack.
Selected == SubSeq(oldest, 1, IF limits.most <= NumRecords THEN limits.most ELSE NumRecords)

\* The open batch is closed; nothing is, when it is empty.
Close == IF current = <<>> THEN closed ELSE Append(closed, current)

Oversized(r) == estimate[r] > limits.hard

\* Wrong: what is to come in is not counted.
FullLate(r) ==
    /\ current # <<>>
    /\ \/ Len(current) >= limits.most
       \/ currentSize > limits.target

\* No room for r in the open batch.
Full(r) ==
    /\ current # <<>>
    /\ \/ Len(current) >= limits.most
       \/ currentSize + estimate[r] > limits.target
       \/ currentSize + estimate[r] > limits.hard

\* A record over the hard limit gets a batch of its own; one that does not fit
\* opens the next batch.
TakeNext ==
    /\ phase # "between" /\ unsplit # <<>>
    /\ LET r == Head(unsplit)
       IN \/ /\ Oversized(r)
             /\ closed' = Append(Close, <<r>>) /\ current' = <<>> /\ currentSize' = 0
          \/ /\ ~Oversized(r) /\ Full(r)
             /\ closed' = Close /\ current' = <<r>> /\ currentSize' = estimate[r]
          \/ /\ ~Oversized(r) /\ ~Full(r)
             /\ closed' = closed
             /\ current' = Append(current, r) /\ currentSize' = currentSize + estimate[r]
    /\ unsplit' = Tail(unsplit)
    /\ UNCHANGED <<packingInput, batches, packs, phase>>

EndPlan ==
    /\ phase = "plan" /\ unsplit = <<>>
    /\ batches' = Close /\ phase' = "between"
    /\ UNCHANGED <<packingInput, packs, unsplit, closed, current, currentSize>>

\* create takes one reviewed batch after the other, in the order of the IDs.
SplitBatch ==
    /\ phase = "between" /\ Len(packs) < Len(batches)
    /\ unsplit' = Ascending(ToSet(batches[Len(packs) + 1]))
    /\ closed' = <<>> /\ current' = <<>> /\ currentSize' = 0
    /\ phase' = "split"
    /\ UNCHANGED <<packingInput, batches, packs>>

WritePacks ==
    /\ phase = "split" /\ unsplit = <<>>
    /\ packs' = Append(packs, Close) /\ phase' = "between"
    /\ UNCHANGED <<packingInput, batches, unsplit, closed, current, currentSize>>

PackingInit ==
    /\ estimate \in [Records -> 1..MaxBytes]
    /\ oldest \in {s \in [Records -> Records] : IsInjective(s)}
    /\ limits \in {l \in [target : 1..MaxBytes, hard : 1..MaxBytes, most : 1..NumRecords] :
                      l.target <= l.hard}
    /\ batches = <<>> /\ packs = <<>>
    /\ phase = "plan" /\ unsplit = Selected
    /\ closed = <<>> /\ current = <<>> /\ currentSize = 0

PackingNext == TakeNext \/ EndPlan \/ SplitBatch \/ WritePacks

PackingSpec == PackingInit /\ [][PackingNext]_packingVars

---------------------------------------------------------------------------
(* Properties *)

\* The bytes of some records, counted one by one.
Total(S) == Cardinality({p \in S \X (1..MaxBytes) : p[2] <= estimate[p[1]]})

\* What was reviewed is what is written: every batch of the plan becomes one
\* pack, of the same records, although it is split anew, in another order.
\* (The total is within the target, or it is one record.)
PacksAreTheBatches ==
    \A i \in DOMAIN packs :
        /\ Len(packs[i]) = 1
        /\ ToSet(packs[i][1]) = ToSet(batches[i])

\* No batch is over a limit but an oversized record by itself, no record is left
\* out or taken twice, and no two neighbours would have fitted in one.
Fit(b) == Total(ToSet(b)) <= limits.target /\ Len(b) <= limits.most
ApartFrom(b, r) ==
    \/ Total(ToSet(b)) + estimate[r] > limits.target
    \/ Len(b) = limits.most

BatchesAreTight ==
    batches # <<>> =>
        /\ FlattenSeq(batches) = Selected
        /\ \A i \in DOMAIN batches : Len(batches[i]) > 1 => Fit(batches[i])
        /\ \A i \in 1..Len(batches) - 1 : ApartFrom(batches[i], Head(batches[i + 1]))

PacksFollowThePlan == PacksAreTheBatches /\ BatchesAreTight

=============================================================================
