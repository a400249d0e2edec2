----------------------------- MODULE ToolProofs -----------------------------
(***************************************************************************)
(* Proofs about the tools, for any sizes: no segment of a ledger outgrows  *)
(* its limit, and a ledger reads as the events that were written; the plan *)
(* of a board merge loses and invents nothing; a record migration verifies *)
(* only what it has carried over, once; mutations that were acknowledged   *)
(* survive merges, conversions and rollbacks that run beside them; a list  *)
(* that is read page by page is the list that was asked for; an order of   *)
(* tasks can be followed, and no chain of them is longer than the critical *)
(* path; and an archive's packs are the batches that were reviewed.        *)
(***************************************************************************)
EXTENDS WholeBoard, LedgerFile, Paging, MergePlan, Migration, DependencyGraph, Packing,
        NumberLemmas, TLAPS

---------------------------------------------------------------------------
(* LedgerFile                                                              *)

LastSegment == segments[Len(segments)]

FileInv ==
    /\ \E S : segments \in Seq(S)
    /\ \A i \in DOMAIN segments : segments[i].size \in 0..Limit
    /\ event # Nobody => event.size \in 1..Limit
    /\ writing # Nobody =>
          /\ event # Nobody /\ segments # <<>>
          /\ writing \in 0..event.size
          /\ LastSegment.size + (event.size - writing) <= Limit

\* The segment that is chosen for a line has room for all of it; the others are
\* as they were.
LEMMA TargetHasRoom ==
    ASSUME FileInv, NEW size \in 1..Limit
    PROVE  /\ \E S : Target(size) \in Seq(S)
           /\ Target(size) # <<>>
           /\ \A i \in DOMAIN Target(size) : Target(size)[i].size \in 0..Limit
           /\ Target(size)[Len(Target(size))].size + size <= Limit
<1>1. PICK S : segments \in Seq(S)
    BY DEF FileInv
<1>2. Limit \in Nat
    BY LimitAssumption
<1>3. CASE segments = <<>> \/ Rolls(segments[Len(segments)], size)
  <2>1. Target(size) = Append(segments, EmptySegment)
      BY <1>3 DEF Target
  <2>2. Append(segments, EmptySegment) \in Seq(S \cup {EmptySegment})
      BY <1>1
  <2>3. /\ Len(Append(segments, EmptySegment)) = Len(segments) + 1
        /\ \A i \in 1..Len(segments) : Append(segments, EmptySegment)[i] = segments[i]
        /\ Append(segments, EmptySegment)[Len(segments) + 1] = EmptySegment
      BY <1>1
  <2>4. EmptySegment.size = 0
      BY DEF EmptySegment
  <2>5. \A i \in 1..Len(segments) + 1 : Append(segments, EmptySegment)[i].size \in 0..Limit
      BY <1>1, <1>2, <2>3, <2>4 DEF FileInv
  <2>6. DOMAIN Append(segments, EmptySegment) = 1..Len(segments) + 1
      BY <1>1, <2>2, <2>3
  <2> QED BY <1>2, <2>1, <2>2, <2>3, <2>4, <2>5, <2>6
<1>4. CASE segments # <<>> /\ ~Rolls(segments[Len(segments)], size)
  <2>1. Target(size) = segments /\ Len(segments) \in DOMAIN segments
      BY <1>1, <1>4 DEF Target
  <2>2. LastSegment.size \in 0..Limit
      BY <2>1 DEF FileInv, LastSegment
  <2>3. LastSegment.size + size <= Limit
      BY <1>2, <1>4, <2>2 DEF Rolls, LastSegment
  <2> QED BY <1>1, <1>4, <2>1, <2>3 DEF FileInv, LastSegment
<1> QED BY <1>3, <1>4

LEMMA FileStarts == LedgerInit => FileInv
<1>1. <<>> \in Seq({}) /\ DOMAIN <<>> = {}
    OBVIOUS
<1> QED BY <1>1 DEF LedgerInit, FileInv

\* The last of a list of segments may take k bytes that it has room for.
LEMMA GrowsWithin ==
    ASSUME NEW S, NEW T \in Seq(S), T # <<>>, NEW n \in Nat, NEW k \in Nat,
           \A i \in DOMAIN T : T[i].size \in 0..Limit,
           T[Len(T)].size + k <= Limit,
           segments' = [T EXCEPT ![Len(T)] = Grown(@, n, k)]
    PROVE  /\ \E U : segments' \in Seq(U)
           /\ segments' # <<>>
           /\ \A i \in DOMAIN segments' : segments'[i].size \in 0..Limit
           /\ LastSegment'.size = T[Len(T)].size + k
<1>1. Limit \in Nat
    BY LimitAssumption
<1> DEFINE last == Grown(T[Len(T)], n, k)
<1>2. last.size = T[Len(T)].size + k
    BY DEF Grown
<1> HIDE DEF last
<1>3. segments' = [T EXCEPT ![Len(T)] = last]
    BY DEF last
<1>4. Len(T) \in Nat \ {0} /\ DOMAIN T = 1..Len(T) /\ Len(T) \in 1..Len(T)
    OBVIOUS
<1>5. segments' \in Seq(S \cup {last}) /\ Len(segments') = Len(T)
    BY <1>3, <1>4
<1>6. \A i \in 1..Len(T) : segments'[i] = IF i = Len(T) THEN last ELSE T[i]
    BY <1>3, <1>4
<1>7. DOMAIN segments' = 1..Len(T)
    BY <1>5
<1>8. LastSegment' = last
  <2>1. segments'[Len(T)] = last
      BY <1>4, <1>6
  <2> QED BY <1>5, <2>1 DEF LastSegment
<1>9. \A i \in DOMAIN segments' : segments'[i].size \in 0..Limit
  <2>1. T[Len(T)].size \in 0..Limit
      BY <1>4
  <2>2. last.size \in 0..Limit
      BY <1>1, <1>2, <2>1
  <2> QED BY <1>4, <1>6, <1>7, <2>2
<1> QED BY <1>2, <1>4, <1>5, <1>7, <1>8, <1>9

LEMMA FileKeeps == FileInv /\ [LedgerNext]_ledgerVars => FileInv'
<1> SUFFICES ASSUME FileInv, [LedgerNext]_ledgerVars PROVE FileInv'
    OBVIOUS
<1>0. Limit \in Nat
    BY LimitAssumption
<1>1. CASE UNCHANGED ledgerVars
    BY <1>1 DEF ledgerVars, FileInv, LastSegment
<1>2. CASE PrepareLine
  <2>1. PICK size \in Sizes : Fits(size) /\ event' = [n |-> Len(log) + 1, prev |-> Tip, size |-> size]
      BY <1>2 DEF PrepareLine
  <2>2. event'.size \in 1..Limit
      BY <1>0, <2>1, SizesAssumption DEF Fits
  <2>3. writing' = Nobody /\ segments' = segments
      BY <1>2 DEF PrepareLine, FileInv
  <2> QED BY <2>2, <2>3 DEF FileInv
<1>3. CASE Replace
  <2>1. /\ event # Nobody /\ event' = Nobody /\ writing' = Nobody
        /\ event.size \in 1..Limit
      BY <1>3 DEF Replace, FileInv
  <2> DEFINE T == Target(event.size)
  <2>2. segments' = [T EXCEPT ![Len(T)] = Grown(@, 0, event.size)]
      BY <1>3 DEF Replace
  <2>3. PICK S : T \in Seq(S)
      BY <2>1, TargetHasRoom
  <2>4. /\ T # <<>> /\ T[Len(T)].size + event.size <= Limit
        /\ \A i \in DOMAIN T : T[i].size \in 0..Limit
      BY <2>1, TargetHasRoom
  <2> HIDE DEF T
  <2>5. /\ \E U : segments' \in Seq(U)
        /\ \A i \in DOMAIN segments' : segments'[i].size \in 0..Limit
    <3>1. event.size \in Nat /\ 0 \in Nat
        BY <1>0, <2>1
    <3> QED BY <2>2, <2>3, <2>4, <3>1, GrowsWithin
  <2> QED BY <2>1, <2>5 DEF FileInv
<1>4. CASE Open
  <2>1. /\ event # Nobody /\ event' = event /\ writing' = 0
        /\ segments' = Target(event.size) /\ event.size \in 1..Limit
      BY <1>4 DEF Open, FileInv
  <2>2. /\ \E S : segments' \in Seq(S)
        /\ segments' # <<>>
        /\ \A i \in DOMAIN segments' : segments'[i].size \in 0..Limit
        /\ LastSegment'.size + event.size <= Limit
      BY <2>1, TargetHasRoom DEF LastSegment
  <2> QED BY <1>0, <2>1, <2>2 DEF FileInv
<1>5. CASE Write
  <2>1. PICK k \in 1..event.size - writing :
           /\ segments' = [segments EXCEPT ![Len(segments)] = Grown(@, writing, k)]
           /\ writing' = writing + k
      BY <1>5 DEF Write
  <2>2. /\ writing # Nobody /\ event # Nobody /\ event' = event /\ segments # <<>>
        /\ event.size \in 1..Limit /\ writing \in 0..event.size
        /\ LastSegment.size + (event.size - writing) <= Limit
      BY <1>5 DEF Write, FileInv
  <2>3. PICK S : segments \in Seq(S)
      BY DEF FileInv
  <2>4. LastSegment.size \in 0..Limit
      BY <2>2, <2>3 DEF FileInv, LastSegment
  <2>5. k \in Nat /\ LastSegment.size + k <= Limit /\ writing \in Nat
      BY <1>0, <2>1, <2>2, <2>4
  <2>6. /\ \E U : segments' \in Seq(U)
        /\ segments' # <<>>
        /\ \A i \in DOMAIN segments' : segments'[i].size \in 0..Limit
        /\ LastSegment'.size = LastSegment.size + k
      BY <2>1, <2>2, <2>3, <2>5, GrowsWithin DEF FileInv, LastSegment
  <2>7. writing' \in 0..event.size /\ LastSegment'.size + (event.size - writing') <= Limit
      BY <1>0, <2>1, <2>2, <2>4, <2>6
  <2> QED BY <2>2, <2>6, <2>7 DEF FileInv
<1>6. CASE Acknowledge \/ StopAppend
  <2>1. event' = Nobody /\ writing' = Nobody /\ segments' = segments
      BY <1>6 DEF Acknowledge, StopAppend
  <2> QED BY <2>1 DEF FileInv
<1> QED BY <1>1, <1>2, <1>3, <1>4, <1>5, <1>6 DEF LedgerNext

\* Every segment stays within MAX_SEGMENT_BYTES: lines that are appended in parts,
\* appends that are stopped and segments that are replaced whole alike.
THEOREM FileSafe == LedgerSpec => []SegmentsWithinLimit
<1>1. FileInv => SegmentsWithinLimit
    BY LimitAssumption DEF FileInv, SegmentsWithinLimit
<1> QED BY <1>1, FileStarts, FileKeeps, PTL DEF LedgerSpec

---------------------------------------------------------------------------
(* LedgerFile: joining sequences *)

\* f[i] is the first i of the sequences, joined.
JoinsUpTo(m, f, seqs) ==
    f = [i \in 1..m |-> IF i = 1 THEN seqs[i] ELSE f[i - 1] \o seqs[i]]
Joins(f, seqs) == JoinsUpTo(Len(seqs), f, seqs)

LEMMA JoinsIs ==
    ASSUME NEW S, NEW seqs \in Seq(Seq(S)), NEW f, Joins(f, seqs)
    PROVE  /\ DOMAIN f = 1..Len(seqs)
           /\ \A i \in 1..Len(seqs) : f[i] = IF i = 1 THEN seqs[i] ELSE f[i - 1] \o seqs[i]
           /\ \A i \in 1..Len(seqs) : f[i] \in Seq(S)
<1>1. PICK n : n = Len(seqs) /\ n \in Nat /\ \A i \in 1..n : seqs[i] \in Seq(S)
  OBVIOUS
<1>2. f = [i \in 1..n |-> IF i = 1 THEN seqs[i] ELSE f[i - 1] \o seqs[i]]
  BY <1>1 DEF Joins, JoinsUpTo
<1>3. DOMAIN f = 1..n /\ \A i \in 1..n : f[i] = IF i = 1 THEN seqs[i] ELSE f[i - 1] \o seqs[i]
  <2>1. PICK g : g = [i \in 1..n |-> IF i = 1 THEN seqs[i] ELSE f[i - 1] \o seqs[i]]
    OBVIOUS
  <2>2. DOMAIN g = 1..n /\ \A i \in 1..n : g[i] = IF i = 1 THEN seqs[i] ELSE f[i - 1] \o seqs[i]
    BY <2>1
  <2>3. f = g
    BY <1>2, <2>1
  <2> QED
    BY <2>2, <2>3
<1> DEFINE bad == {i \in 1..n : f[i] \notin Seq(S)}
<1>4. bad = {}
  <2> SUFFICES ASSUME bad # {} PROVE FALSE
    OBVIOUS
  <2>1. bad \in SUBSET Nat
    BY <1>1
  <2>2. PICK i \in bad : \A j \in bad : i <= j
    BY <2>1, LeastNumber
  <2>3. i \in 1..n /\ f[i] \notin Seq(S) /\ seqs[i] \in Seq(S)
    BY <1>1, <2>2
  <2>4. CASE i = 1
    BY <1>3, <2>3, <2>4
  <2>5. CASE i # 1
    <3>1. i - 1 \in 1..n /\ i - 1 \notin bad
      BY <1>1, <2>2, <2>3, <2>5
    <3>2. f[i - 1] \in Seq(S)
      BY <3>1
    <3>3. f[i - 1] \o seqs[i] \in Seq(S)
      BY <2>3, <3>2, ConcatProperties
    <3> QED
      BY <1>3, <2>3, <2>5, <3>3
  <2> QED
    BY <2>4, <2>5
<1> QED
  BY <1>1, <1>3, <1>4

\* Longer and longer parts of seqs can be joined, up to all of it.
LEMMA JoinsExists ==
    ASSUME NEW S, NEW seqs \in Seq(Seq(S))
    PROVE  \E f : Joins(f, seqs)
<1>1. PICK n : n = Len(seqs) /\ n \in Nat
  OBVIOUS
<1> DEFINE bad == {m \in 0..n : ~\E f : JoinsUpTo(m, f, seqs)}
<1>2. bad \in SUBSET Nat /\ \A m \in 0..n : m \notin bad => \E f : JoinsUpTo(m, f, seqs)
  BY <1>1
<1>3. ASSUME NEW m \in 0..n, m # 0 => \E g : JoinsUpTo(m - 1, g, seqs)
      PROVE  \E f : JoinsUpTo(m, f, seqs)
  <2>1. CASE m = 0
    <3>1. PICK f : f = [i \in 1..0 |-> <<>>]
      OBVIOUS
    <3>2. DOMAIN f = 1..0 /\ 1..0 = {}
      BY <3>1
    <3>3. PICK g : g = [i \in 1..0 |-> IF i = 1 THEN seqs[i] ELSE f[i - 1] \o seqs[i]]
      OBVIOUS
    <3>4. f = g
      BY <3>1, <3>2, <3>3
    <3>5. JoinsUpTo(0, f, seqs)
      BY <3>3, <3>4 DEF JoinsUpTo
    <3> QED
      BY <2>1, <3>5
  <2>2. CASE m # 0
    <3>1. m - 1 \in Nat /\ m \in Nat \ {0}
      BY <1>1, <2>2
    <3>2. PICK g : g = [i \in 1..m - 1 |-> IF i = 1 THEN seqs[i] ELSE g[i - 1] \o seqs[i]]
      BY <1>3, <2>2 DEF JoinsUpTo
    <3>3. \A i \in 1..m - 1 : g[i] = IF i = 1 THEN seqs[i] ELSE g[i - 1] \o seqs[i]
      <4>1. PICK h : h = [i \in 1..m - 1 |-> IF i = 1 THEN seqs[i] ELSE g[i - 1] \o seqs[i]]
        OBVIOUS
      <4>2. g = h
        BY <3>2, <4>1
      <4> QED
        BY <4>1, <4>2
    <3>4. PICK f : f = [i \in 1..m |-> IF i = m THEN (IF m = 1 THEN seqs[m] ELSE g[m - 1] \o seqs[m])
                                       ELSE g[i]]
      OBVIOUS
    <3>5. /\ DOMAIN f = 1..m /\ f[m] = (IF m = 1 THEN seqs[m] ELSE g[m - 1] \o seqs[m])
          /\ \A i \in 1..m : i # m => f[i] = g[i]
      BY <3>1, <3>4
    <3>6. ASSUME NEW i \in 1..m PROVE f[i] = IF i = 1 THEN seqs[i] ELSE f[i - 1] \o seqs[i]
      <4>1. CASE i = m
        <5>1. i # 1 => i - 1 \in 1..m /\ i - 1 # m
          BY <3>1, <4>1
        <5> QED
          BY <3>5, <4>1, <5>1
      <4>2. CASE i # m
        <5>1. i \in 1..m - 1 /\ (i # 1 => i - 1 \in 1..m /\ i - 1 # m)
          BY <3>1, <4>2
        <5> QED
          BY <3>3, <3>5, <4>2, <5>1
      <4> QED
        BY <4>1, <4>2
    <3>7. f = [i \in 1..m |-> IF i = 1 THEN seqs[i] ELSE f[i - 1] \o seqs[i]]
      BY <3>4, <3>5, <3>6
    <3> QED
      BY <3>7 DEF JoinsUpTo
  <2> QED
    BY <2>1, <2>2
<1>4. ASSUME NEW m \in bad PROVE m \in 0..n /\ ~\E f : JoinsUpTo(m, f, seqs)
  OBVIOUS
<1> HIDE DEF bad
<1>5. bad = {}
  <2> SUFFICES ASSUME bad # {} PROVE FALSE
    OBVIOUS
  <2>1. PICK m \in bad : \A j \in bad : m <= j
    BY <1>2, LeastNumber
  <2>2. m \in 0..n /\ ~\E f : JoinsUpTo(m, f, seqs)
    BY <1>4
  <2>3. m # 0 => m - 1 \in 0..n /\ ~(m <= m - 1)
    BY <1>1, <2>2
  <2>4. m # 0 => \E g : JoinsUpTo(m - 1, g, seqs)
    BY <1>2, <2>1, <2>3
  <2> QED
    BY <1>3, <2>2, <2>4
<1>6. \E f : JoinsUpTo(n, f, seqs)
  BY <1>1, <1>2, <1>5
<1> QED
  BY <1>1, <1>6 DEF Joins

LEMMA FlattenIs ==
    ASSUME NEW S, NEW seqs \in Seq(Seq(S)), Len(seqs) # 0
    PROVE  \E f : Joins(f, seqs) /\ FlattenSeq(seqs) = f[Len(seqs)]
<1>1. PICK f : f = CHOOSE g : g = [i \in 1..Len(seqs) |-> IF i = 1 THEN seqs[i] ELSE g[i - 1] \o seqs[i]]
  OBVIOUS
<1>2. Joins(f, seqs)
  BY <1>1, JoinsExists DEF Joins, JoinsUpTo
<1>3. FlattenSeq(seqs) = f[Len(seqs)]
  BY <1>1 DEF FlattenSeq
<1> QED
  BY <1>2, <1>3

\* All but the last, joined, and then the last.
LEMMA FlattenLast ==
    ASSUME NEW S, NEW seqs \in Seq(Seq(S)), Len(seqs) # 0
    PROVE  /\ FlattenSeq(seqs) \in Seq(S)
           /\ FlattenSeq(seqs) = FlattenSeq(SubSeq(seqs, 1, Len(seqs) - 1)) \o seqs[Len(seqs)]
<1>1. PICK n : n = Len(seqs) - 1 /\ n \in Nat /\ Len(seqs) = n + 1
  OBVIOUS
<1>2. PICK short : short = SubSeq(seqs, 1, n)
  OBVIOUS
<1>3. short \in Seq(Seq(S)) /\ Len(short) = n /\ \A i \in 1..n : short[i] = seqs[i]
  <2>1. n <= Len(seqs)
    BY <1>1
  <2> QED
    BY <1>1, <1>2, <2>1, FirstPart
<1>4. seqs[n + 1] \in Seq(S)
  <2>1. n + 1 \in 1..Len(seqs)
    BY <1>1
  <2> QED
    BY <2>1
<1>5. PICK f : Joins(f, seqs) /\ FlattenSeq(seqs) = f[n + 1]
  BY <1>1, FlattenIs
<1>6. /\ \A i \in 1..n + 1 : f[i] = IF i = 1 THEN seqs[i] ELSE f[i - 1] \o seqs[i]
      /\ \A i \in 1..n + 1 : f[i] \in Seq(S)
  BY <1>1, <1>5, JoinsIs
<1>7. f[n + 1] \in Seq(S)
  <2>1. n + 1 \in 1..n + 1
    BY <1>1
  <2> QED
    BY <1>6, <2>1
<1>8. CASE n = 0
  <2>1. short = <<>> /\ FlattenSeq(short) = short
    <3>1. short = <<>>
      BY <1>2, <1>8, SubSeqEmpty
    <3>2. Len(short) = 0
      BY <1>3, <1>8
    <3> QED
      BY <3>1, <3>2 DEF FlattenSeq
  <2>2. f[n + 1] = seqs[n + 1]
    <3>1. n + 1 = 1 /\ n + 1 \in 1..n + 1
      BY <1>8
    <3> QED
      BY <1>6, <3>1
  <2>3. <<>> \o seqs[n + 1] = seqs[n + 1]
    BY <1>4, ConcatEmptySeq
  <2> QED
    BY <1>1, <1>2, <1>5, <1>7, <2>1, <2>2, <2>3
<1>9. CASE n # 0
  <2>1. PICK g : Joins(g, short) /\ FlattenSeq(short) = g[n]
    BY <1>3, <1>9, FlattenIs
  <2>2. \A i \in 1..n : g[i] = IF i = 1 THEN short[i] ELSE g[i - 1] \o short[i]
    BY <1>3, <2>1, JoinsIs
  <2> DEFINE bad == {i \in 1..n : g[i] # f[i]}
  <2>3. bad = {}
    <3> SUFFICES ASSUME bad # {} PROVE FALSE
      OBVIOUS
    <3>1. bad \in SUBSET Nat
      BY <1>1
    <3>2. PICK i \in bad : \A j \in bad : i <= j
      BY <3>1, LeastNumber
    <3>3. i \in 1..n /\ g[i] # f[i] /\ i \in 1..n + 1 /\ short[i] = seqs[i]
      BY <1>1, <1>3, <3>2
    <3>4. CASE i = 1
      BY <1>6, <2>2, <3>3, <3>4
    <3>5. CASE i # 1
      <4>1. i - 1 \in 1..n /\ ~(i <= i - 1)
        BY <1>1, <3>3, <3>5
      <4>2. g[i - 1] = f[i - 1]
        BY <3>2, <4>1
      <4> QED
        BY <1>6, <2>2, <3>3, <3>5, <4>2
    <3> QED
      BY <3>4, <3>5
  <2>4. g[n] = f[n]
    <3>1. n \in 1..n
      BY <1>1, <1>9
    <3> QED
      BY <2>3, <3>1
  <2>5. f[n + 1] = f[n] \o seqs[n + 1]
    <3>1. n + 1 \in 1..n + 1 /\ n + 1 # 1 /\ (n + 1) - 1 = n
      BY <1>1, <1>9
    <3> QED
      BY <1>6, <3>1
  <2> QED
    BY <1>1, <1>2, <1>5, <1>7, <2>1, <2>4, <2>5
<1> QED
  BY <1>8, <1>9

LEMMA FlattenNone == FlattenSeq(<<>>) = <<>>
<1>1. Len(<<>>) = 0
  OBVIOUS
<1> QED
  BY <1>1 DEF FlattenSeq

---------------------------------------------------------------------------
(* LedgerFile: the ledger is the log *)

Segments == [size : Nat, lines : Seq(LineEvents), open : OpenLines \cup {Nobody}, broken : BOOLEAN]

LedgerTypes ==
    /\ segments \in Seq(Segments)
    /\ event \in LineEvents \cup {Nobody} /\ writing \in Nat \cup {Nobody}
    /\ log \in Seq(LineEvents) /\ stopped \in BOOLEAN

\* What a list of segments says.
Text(segs) == FlattenSeq([i \in DOMAIN segs |-> Lines(segs[i])])
NumberOf(chain) == IF chain = <<>> THEN 0 ELSE chain[Len(chain)].n

\* A line without its newline was stopped there.
Mended(segs) == \A i \in DOMAIN segs : segs[i].open # Nobody => stopped

\* While no append runs.
AtRest ==
    /\ Readable => Text(segments) = log
    /\ stopped \/ Readable
    /\ Mended(segments)
    /\ event # Nobody => Readable

\* While one does: the segments before the last, and the last.
BeforeLast == SubSeq(segments, 1, Len(segments) - 1)
AllButLast ==
    \A i \in DOMAIN segments : i # Len(segments) =>
        Reads(segments[i]) /\ (segments[i].open # Nobody => stopped)
Arriving(last) ==
    /\ writing = 0 => Reads(last) /\ Text(segments) = log /\ (last.open # Nobody => stopped)
    /\ writing # 0 =>
          \/ last.broken /\ stopped
          \/ /\ ~last.broken
             /\ writing # event.size =>
                   /\ last.open = [of |-> event, bytes |-> writing]
                   /\ Text(BeforeLast) \o last.lines = log
             /\ writing = event.size => last.open = Nobody /\ Text(segments) = Append(log, event)

LogInv ==
    /\ LedgerTypes /\ Chained(log)
    /\ event # Nobody => event.prev = NumberOf(log)
    /\ writing = Nobody => AtRest
    /\ writing # Nobody =>
          /\ event # Nobody /\ segments # <<>> /\ writing \in 0..event.size
          /\ AllButLast /\ Arriving(segments[Len(segments)])

LEMMA NobodyIs == Nobody \notin Nat /\ Nobody \notin LineEvents /\ Nobody \notin OpenLines
BY NobodyAssumption

LEMMA LineEventIs ==
    ASSUME NEW e \in LineEvents
    PROVE  e.n \in Nat /\ e.prev \in Nat /\ e.size \in Nat /\ e.size >= 2
<1>1. e.n \in Nat /\ e.prev \in Nat /\ e.size \in Sizes
  BY DEF LineEvents
<1>2. e.size \in Nat \ {0, 1}
  BY <1>1, SizesAssumption
<1> QED
  BY <1>1, <1>2

LEMMA EmptySegmentIs ==
    /\ EmptySegment \in Segments /\ EmptySegment.open = Nobody /\ EmptySegment.broken = FALSE
    /\ EmptySegment.lines = <<>> /\ Reads(EmptySegment) /\ Lines(EmptySegment) = <<>>
<1>1. /\ EmptySegment \in Segments /\ EmptySegment.open = Nobody /\ EmptySegment.broken = FALSE
      /\ EmptySegment.lines = <<>>
  BY EmptySeq DEF EmptySegment, Segments
<1> QED
  BY <1>1 DEF Reads, Lines, ReadsOpen

LEMMA LinesIs ==
    ASSUME NEW s \in Segments
    PROVE  /\ Lines(s) \in Seq(LineEvents)
           /\ s.open = Nobody => Lines(s) = s.lines
<1>1. s.lines \in Seq(LineEvents) /\ s.open \in OpenLines \cup {Nobody}
  BY DEF Segments
<1>2. CASE ReadsOpen(s)
  <2>1. s.open \in OpenLines
    BY <1>1, <1>2 DEF ReadsOpen
  <2>2. s.open.of \in LineEvents
    BY <2>1 DEF OpenLines
  <2>3. Append(s.lines, s.open.of) \in Seq(LineEvents)
    BY <1>1, <2>2, AppendProperties
  <2> QED
    BY <1>2, <2>3 DEF Lines, ReadsOpen
<1>3. CASE ~ReadsOpen(s)
  BY <1>1, <1>3 DEF Lines
<1> QED
  BY <1>2, <1>3

LEMMA TextIs ==
    ASSUME NEW segs \in Seq(Segments)
    PROVE  /\ Text(segs) \in Seq(LineEvents)
           /\ Len(segs) # 0 =>
                 Text(segs) = Text(SubSeq(segs, 1, Len(segs) - 1)) \o Lines(segs[Len(segs)])
<1>1. PICK n : n = Len(segs) /\ n \in Nat /\ DOMAIN segs = 1..n
  OBVIOUS
<1>2. PICK texts : texts = [i \in DOMAIN segs |-> Lines(segs[i])]
  OBVIOUS
<1>3. /\ texts \in Seq(Seq(LineEvents)) /\ Len(texts) = n
      /\ \A i \in 1..n : texts[i] = Lines(segs[i])
  <2>1. \A i \in 1..n : segs[i] \in Segments
    BY <1>1
  <2>2. \A i \in 1..n : Lines(segs[i]) \in Seq(LineEvents)
    BY <2>1, LinesIs
  <2>3. texts \in [1..n -> Seq(LineEvents)]
    BY <1>1, <1>2, <2>2
  <2> QED
    BY <1>1, <1>2, <2>3
<1>4. CASE n = 0
  <2>1. texts = <<>>
    BY <1>3, <1>4, EmptySeq
  <2>2. Text(segs) = <<>>
    BY <1>2, <2>1, FlattenNone DEF Text
  <2> QED
    BY <1>1, <1>4, <2>2, EmptySeq
<1>5. CASE n # 0
  <2>1. PICK m : m = n - 1 /\ m \in Nat /\ n = m + 1
    BY <1>1, <1>5
  <2>2. /\ Text(segs) \in Seq(LineEvents)
        /\ Text(segs) = FlattenSeq(SubSeq(texts, 1, m)) \o texts[n]
    BY <1>2, <1>3, <1>5, <2>1, FlattenLast DEF Text
  <2>3. PICK short : short = SubSeq(segs, 1, m)
    OBVIOUS
  <2>4. m <= Len(segs) /\ m <= Len(texts)
    BY <1>1, <1>3, <2>1
  <2>5. short \in Seq(Segments) /\ Len(short) = m /\ \A i \in 1..m : short[i] = segs[i]
    BY <2>1, <2>3, <2>4, FirstPart
  <2>6. PICK part : part = SubSeq(texts, 1, m)
    OBVIOUS
  <2>7. part \in Seq(Seq(LineEvents)) /\ Len(part) = m /\ \A i \in 1..m : part[i] = texts[i]
    BY <1>3, <2>1, <2>4, <2>6, FirstPart
  <2>8. part = [i \in DOMAIN short |-> Lines(short[i])]
    <3>1. DOMAIN short = 1..m /\ part \in [1..m -> Seq(LineEvents)]
      BY <2>5, <2>7, LenProperties
    <3>2. \A i \in 1..m : part[i] = Lines(short[i])
      <4>1. \A i \in 1..m : i \in 1..n
        BY <1>1, <2>1
      <4> QED
        BY <1>3, <2>5, <2>7, <4>1
    <3> QED
      BY <3>1, <3>2
  <2>9. FlattenSeq(part) = Text(short)
    BY <2>8 DEF Text
  <2>10. n \in 1..n
    BY <1>1, <1>5
  <2> QED
    BY <1>1, <1>3, <2>1, <2>2, <2>3, <2>6, <2>9, <2>10
<1> QED
  BY <1>4, <1>5

\* The last segment is another.
LastIs(new, segs, s) == new = [segs EXCEPT ![Len(segs)] = s]

LEMMA LastReplaced ==
    ASSUME NEW segs \in Seq(Segments), Len(segs) # 0, NEW s \in Segments,
           NEW new, LastIs(new, segs, s)
    PROVE  /\ new \in Seq(Segments) /\ Len(new) = Len(segs) /\ DOMAIN new = DOMAIN segs
           /\ new[Len(segs)] = s /\ new # <<>>
           /\ \A i \in DOMAIN segs : i # Len(segs) => new[i] = segs[i]
           /\ SubSeq(new, 1, Len(segs) - 1) = SubSeq(segs, 1, Len(segs) - 1)
           /\ Text(new) = Text(SubSeq(segs, 1, Len(segs) - 1)) \o Lines(s)
<1>1. PICK n : n = Len(segs) /\ n \in Nat /\ n # 0 /\ DOMAIN segs = 1..n
  OBVIOUS
<1>2. n \in 1..Len(segs)
  BY <1>1
<1>3. /\ new \in Seq(Segments) /\ Len(new) = n
      /\ \A j \in 1..n : new[j] = IF j = n THEN s ELSE segs[j]
  BY <1>1, <1>2, ExceptSeq DEF LastIs
<1>4. DOMAIN new = 1..n /\ new # <<>> /\ new[n] = s
  BY <1>1, <1>3, EmptySeq
<1>5. PICK m : m = n - 1 /\ m \in Nat /\ m <= n
  BY <1>1
<1>6. SubSeq(new, 1, m) = SubSeq(segs, 1, m)
  <2>1. /\ SubSeq(new, 1, m) \in Seq(Segments) /\ Len(SubSeq(new, 1, m)) = m
        /\ \A i \in 1..m : SubSeq(new, 1, m)[i] = new[i]
    BY <1>3, <1>5, FirstPart
  <2>2. /\ SubSeq(segs, 1, m) \in Seq(Segments) /\ Len(SubSeq(segs, 1, m)) = m
        /\ \A i \in 1..m : SubSeq(segs, 1, m)[i] = segs[i]
    BY <1>1, <1>5, FirstPart
  <2>3. \A i \in 1..m : new[i] = segs[i]
    BY <1>1, <1>3, <1>5
  <2> QED
    BY <2>1, <2>2, <2>3, SeqEqual
<1>7. Text(new) = Text(SubSeq(new, 1, n - 1)) \o Lines(new[n])
  BY <1>1, <1>3, TextIs
<1> QED
  BY <1>1, <1>3, <1>4, <1>5, <1>6, <1>7

\* The segment a line goes to: the others, and what they say, stay as they are.
LEMMA TargetIs ==
    ASSUME LedgerTypes, NEW size, NEW T, T = Target(size)
    PROVE  /\ T \in Seq(Segments) /\ Len(T) # 0 /\ T # <<>> /\ Text(T) = Text(segments)
           /\ Readable => \A i \in DOMAIN T : Reads(T[i])
           /\ Mended(segments) => Mended(T)
<1>1. segments \in Seq(Segments)
  BY DEF LedgerTypes
<1>2. CASE T = segments /\ segments # <<>>
  BY <1>1, <1>2, EmptySeq DEF Readable
<1>3. CASE T = Append(segments, EmptySegment)
  <2>1. PICK n : n = Len(segments) /\ n \in Nat /\ DOMAIN segments = 1..n
    BY <1>1
  <2>2. /\ T \in Seq(Segments) /\ T # <<>> /\ Len(T) = n + 1
        /\ \A i \in 1..n : T[i] = segments[i]
        /\ T[n + 1] = EmptySegment
    BY <1>1, <1>3, <2>1, EmptySegmentIs, AppendProperties
  <2>3. DOMAIN T = 1..n + 1 /\ n <= Len(T) /\ Len(T) # 0 /\ (n + 1) - 1 = n
    BY <2>1, <2>2
  <2>4. SubSeq(T, 1, n) = segments
    <3>1. /\ SubSeq(T, 1, n) \in Seq(Segments) /\ Len(SubSeq(T, 1, n)) = n
          /\ \A i \in 1..n : SubSeq(T, 1, n)[i] = T[i]
      BY <2>1, <2>2, <2>3, FirstPart
    <3> QED
      BY <1>1, <2>1, <2>2, <3>1, SeqEqual
  <2>5. Text(T) = Text(segments)
    <3>1. Text(T) = Text(SubSeq(T, 1, Len(T) - 1)) \o Lines(T[Len(T)])
      BY <2>2, <2>3, TextIs
    <3>2. Text(T) = Text(segments) \o <<>>
      BY <2>2, <2>3, <2>4, <3>1, EmptySegmentIs
    <3> QED
      BY <1>1, <3>2, TextIs, ConcatEmptySeq
  <2>6. \A i \in 1..n + 1 : i \in 1..n \/ i = n + 1
    BY <2>1
  <2>7. Readable => \A i \in DOMAIN T : Reads(T[i])
    BY <2>1, <2>2, <2>3, <2>6, EmptySegmentIs DEF Readable
  <2>8. Mended(segments) => Mended(T)
    BY <2>1, <2>2, <2>3, <2>6, EmptySegmentIs DEF Mended
  <2> QED
    BY <2>2, <2>3, <2>5, <2>7, <2>8
<1> QED
  BY <1>2, <1>3 DEF Target

\* What the k bytes make of it: the event's line begins, goes on or ends, unless
\* it joins a line that was left open.
GrownAs(g, s, n, k) ==
    /\ g \in Segments
    /\ s.broken \/ (n = 0 /\ s.open # Nobody) => g.broken
    /\ ~s.broken /\ (n # 0 \/ s.open = Nobody) => ~g.broken
    /\ n + k # event.size => g.open = [of |-> event, bytes |-> n + k] /\ g.lines = s.lines
    /\ n + k = event.size => g.open = Nobody
    /\ n + k = event.size /\ ~g.broken => g.lines = Append(s.lines, event)

LEMMA GrownIs ==
    ASSUME NEW s \in Segments, event \in LineEvents, NEW n \in Nat, NEW k \in Nat, NEW g,
           g = Grown(s, n, k)
    PROVE  GrownAs(g, s, n, k)
<1>1. s.size \in Nat /\ s.lines \in Seq(LineEvents) /\ s.broken \in BOOLEAN
  BY DEF Segments
<1>2. PICK bytes, mixed : bytes = n + k /\ mixed = (s.broken \/ (n = 0 /\ s.open # Nobody))
  OBVIOUS
<1>3. bytes \in Nat /\ mixed \in BOOLEAN /\ [of |-> event, bytes |-> bytes] \in OpenLines
  BY <1>1, <1>2 DEF OpenLines
<1>4. Append(s.lines, event) \in Seq(LineEvents)
  BY <1>1, AppendProperties
<1>5. PICK lines, open :
         /\ lines = (IF bytes = event.size /\ ~mixed THEN Append(s.lines, event) ELSE s.lines)
         /\ open = (IF bytes = event.size THEN Nobody ELSE [of |-> event, bytes |-> bytes])
  OBVIOUS
<1>6. lines \in Seq(LineEvents) /\ open \in OpenLines \cup {Nobody} /\ s.size + k \in Nat
  BY <1>1, <1>3, <1>4, <1>5
<1>7. g = [size |-> s.size + k, broken |-> mixed, lines |-> lines, open |-> open]
  BY <1>2, <1>5 DEF Grown
<1>8. g \in Segments /\ g.broken = mixed /\ g.lines = lines /\ g.open = open
  BY <1>3, <1>6, <1>7 DEF Segments
<1> QED
  BY <1>2, <1>5, <1>8 DEF GrownAs

\* A chain goes on with an event that names its last one.
LEMMA ChainGrows ==
    ASSUME NEW chain \in Seq(LineEvents), Chained(chain), NEW e \in LineEvents,
           e.prev = NumberOf(chain)
    PROVE  Append(chain, e) \in Seq(LineEvents) /\ Chained(Append(chain, e))
<1>1. PICK n : n = Len(chain) /\ n \in Nat /\ DOMAIN chain = 1..n
  OBVIOUS
<1>2. PICK more : more = Append(chain, e)
  OBVIOUS
<1>3. /\ more \in Seq(LineEvents) /\ Len(more) = n + 1 /\ \A i \in 1..n : more[i] = chain[i]
      /\ more[n + 1] = e
  BY <1>1, <1>2, AppendProperties
<1>4. DOMAIN more = 1..n + 1
  BY <1>3
<1>5. ASSUME NEW i \in 1..n + 1 PROVE more[i].prev = IF i = 1 THEN 0 ELSE more[i - 1].n
  <2>1. CASE i \in 1..n
    <3>1. i # 1 => i - 1 \in 1..n
      BY <1>1, <2>1
    <3> QED
      BY <1>1, <1>3, <2>1, <3>1 DEF Chained
  <2>2. CASE i = n + 1 /\ n = 0
    <3>1. chain = <<>>
      BY <1>1, <2>2, EmptySeq
    <3> QED
      BY <1>3, <2>2, <3>1 DEF NumberOf
  <2>3. CASE i = n + 1 /\ n # 0
    <3>1. chain # <<>>
      BY <1>1, <2>3
    <3>2. i # 1 /\ i - 1 = n /\ n \in 1..n
      BY <1>1, <2>3
    <3> QED
      BY <1>1, <1>3, <2>3, <3>1, <3>2 DEF NumberOf
  <2> QED
    BY <1>1, <2>1, <2>2, <2>3
<1> QED
  BY <1>3, <1>4, <1>5, <1>2 DEF Chained

LEMMA LogStarts == LedgerInit => LogInv
<1> SUFFICES ASSUME LedgerInit PROVE LogInv
  OBVIOUS
<1>1. segments = <<>> /\ event = Nobody /\ writing = Nobody /\ log = <<>> /\ stopped = FALSE
  BY DEF LedgerInit
<1>2. <<>> \in Seq(Segments) /\ <<>> \in Seq(LineEvents) /\ DOMAIN <<>> = {}
  BY EmptySeq
<1>3. LedgerTypes /\ Chained(log)
  BY <1>1, <1>2 DEF LedgerTypes, Chained
<1>4. Text(<<>>) = <<>>
  <2>1. PICK texts : texts = [i \in DOMAIN <<>> |-> Lines(<<>>[i])]
    OBVIOUS
  <2>2. texts = <<>>
    BY <1>2, <2>1
  <2> QED
    BY <2>1, <2>2, FlattenNone DEF Text
<1>5. AtRest
  BY <1>1, <1>2, <1>4 DEF AtRest, Readable, Mended
<1> QED
  BY <1>1, <1>3, <1>5 DEF LogInv

LEMMA PrepareLineKeeps ==
    ASSUME LogInv, PrepareLine
    PROVE  LogInv'
<1>1. /\ LedgerTypes /\ Chained(log) /\ event = Nobody /\ writing = Nobody /\ Readable /\ AtRest
      /\ UNCHANGED <<segments, writing, log, stopped>>
  BY DEF LogInv, PrepareLine
<1>2. PICK size \in Sizes : event' = [n |-> Len(log) + 1, prev |-> Tip, size |-> size]
  BY DEF PrepareLine
<1>3. Tip = NumberOf(log) /\ NumberOf(log) \in Nat /\ Len(log) + 1 \in Nat
  <2>1. Events = log
    BY <1>1 DEF AtRest, Events, Text
  <2>2. log \in Seq(LineEvents)
    BY <1>1 DEF LedgerTypes
  <2>3. NumberOf(log) \in Nat
    <3>1. CASE log = <<>>
      BY <3>1 DEF NumberOf
    <3>2. CASE log # <<>>
      <4>1. log[Len(log)] \in LineEvents
        BY <2>2, <3>2
      <4> QED
        BY <3>2, <4>1, LineEventIs DEF NumberOf
    <3> QED
      BY <3>1, <3>2
  <2> QED
    BY <2>1, <2>2, <2>3 DEF Tip, NumberOf
<1>4. event' \in LineEvents /\ event'.prev = NumberOf(log)
  BY <1>2, <1>3 DEF LineEvents
<1>5. LedgerTypes'
  BY <1>1, <1>4 DEF LedgerTypes
<1>6. AtRest'
  BY <1>1 DEF AtRest, Readable, Mended
<1>7. Chained(log)' /\ (event.prev = NumberOf(log))'
  BY <1>1, <1>4 DEF Chained, NumberOf
<1> QED
  BY <1>1, <1>5, <1>6, <1>7 DEF LogInv

LEMMA ReplaceKeeps ==
    ASSUME LogInv, Replace
    PROVE  LogInv'
<1>1. /\ LedgerTypes /\ Chained(log) /\ event \in LineEvents /\ writing = Nobody /\ Readable /\ AtRest
      /\ event.prev = NumberOf(log) /\ log \in Seq(LineEvents)
      /\ log' = Append(log, event) /\ event' = Nobody /\ UNCHANGED <<writing, stopped>>
  BY DEF LogInv, LedgerTypes, AtRest, Replace
<1>2. PICK T : T = Target(event.size)
  OBVIOUS
<1>3. /\ T \in Seq(Segments) /\ Len(T) # 0 /\ Text(T) = log /\ Mended(T)
      /\ \A i \in DOMAIN T : Reads(T[i])
  BY <1>1, <1>2, TargetIs DEF AtRest
<1>4. PICK n, s, g : n = Len(T) /\ s = T[n] /\ g = Grown(s, 0, event.size)
  OBVIOUS
<1>5. n \in DOMAIN T /\ s \in Segments /\ ~s.broken /\ (s.open # Nobody => stopped)
  BY <1>3, <1>4 DEF Reads, Mended
<1>6. segments' = [T EXCEPT ![n] = g]
  BY <1>2, <1>4 DEF Replace
<1>7. event.size \in Nat /\ 0 + event.size = event.size /\ 0 \in Nat
  BY <1>1, LineEventIs
<1>8. /\ g \in Segments /\ g.open = Nobody
      /\ s.open # Nobody => g.broken
      /\ s.open = Nobody => ~g.broken
      /\ ~g.broken => g.lines = Append(s.lines, event)
  <2>1. GrownAs(g, s, 0, event.size)
    BY <1>1, <1>4, <1>5, <1>7, GrownIs
  <2> QED
    BY <1>5, <1>7, <2>1 DEF GrownAs
<1>9. PICK front : front = SubSeq(T, 1, n - 1)
  OBVIOUS
<1>10. /\ segments' \in Seq(Segments) /\ DOMAIN segments' = DOMAIN T /\ segments'[n] = g
       /\ \A i \in DOMAIN T : i # n => segments'[i] = T[i]
       /\ Text(segments') = Text(front) \o Lines(g)
  <2>1. PICK new : LastIs(new, T, g)
    BY DEF LastIs
  <2>2. /\ new \in Seq(Segments) /\ DOMAIN new = DOMAIN T /\ new[Len(T)] = g
        /\ \A i \in DOMAIN T : i # Len(T) => new[i] = T[i]
        /\ Text(new) = Text(SubSeq(T, 1, Len(T) - 1)) \o Lines(g)
    BY ONLY <1>3, <1>8, <2>1, LastReplaced
  <2>3. segments' = new
    BY <1>4, <1>6, <2>1 DEF LastIs
  <2> QED
    BY <1>4, <1>9, <2>2, <2>3
<1>11. LedgerTypes' /\ Chained(log)'
  <2>1. Append(log, event) \in Seq(LineEvents) /\ Chained(Append(log, event))
    BY <1>1, ChainGrows
  <2> QED
    BY <1>1, <1>10, <2>1 DEF LedgerTypes
<1>12. Mended(segments)'
  BY <1>1, <1>3, <1>8, <1>10 DEF Mended
<1>13. CASE s.open # Nobody
  <2>1. ~Readable' /\ stopped'
    BY <1>1, <1>5, <1>8, <1>10, <1>13 DEF Readable, Reads
  <2>2. AtRest'
    BY <1>1, <1>12, <2>1 DEF AtRest
  <2> QED
    BY <1>1, <1>11, <2>2 DEF LogInv
<1>14. CASE s.open = Nobody
  <2>1. Reads(g) /\ Lines(g) = Append(Lines(s), event)
    BY <1>5, <1>8, <1>14, LinesIs DEF Reads
  <2>2. Readable'
    BY <1>3, <1>10, <2>1 DEF Readable
  <2>3. Text(segments') = Append(log, event)
    <3>1. /\ Text(T) = Text(front) \o Lines(s)
          /\ Text(front) \in Seq(LineEvents) /\ Lines(s) \in Seq(LineEvents)
      <4>1. front \in Seq(Segments)
        <5>1. n - 1 \in Nat /\ n - 1 <= Len(T)
          BY <1>3, <1>4
        <5> QED
          BY <1>3, <1>9, <5>1, FirstPart
      <4> QED
        BY <1>3, <1>4, <1>5, <1>9, <4>1, TextIs, LinesIs
    <3>2. Text(front) \o Append(Lines(s), event) = Append(Text(front) \o Lines(s), event)
      BY <1>1, <3>1
    <3> QED
      BY <1>3, <1>10, <2>1, <3>1, <3>2
  <2>4. AtRest'
    BY <1>1, <1>12, <2>2, <2>3 DEF AtRest, Text
  <2> QED
    BY <1>1, <1>11, <2>4 DEF LogInv
<1> QED
  BY <1>13, <1>14

LEMMA OpenKeeps ==
    ASSUME LogInv, Open
    PROVE  LogInv'
<1>1. /\ LedgerTypes /\ Chained(log) /\ event \in LineEvents /\ event # Nobody
      /\ writing = Nobody /\ Readable /\ AtRest
      /\ event.prev = NumberOf(log) /\ writing' = 0 /\ UNCHANGED <<event, log, stopped>>
  BY DEF LogInv, LedgerTypes, Open
<1>2. PICK T : T = Target(event.size)
  OBVIOUS
<1>3. /\ T \in Seq(Segments) /\ Len(T) # 0 /\ T # <<>> /\ Text(T) = log /\ Mended(T)
      /\ \A i \in DOMAIN T : Reads(T[i])
  BY <1>1, <1>2, TargetIs DEF AtRest
<1>4. segments' = T
  BY <1>2 DEF Open
<1>5. LedgerTypes'
  BY <1>1, <1>3, <1>4 DEF LedgerTypes
<1>6. Len(T) \in DOMAIN T
  BY <1>3
<1>7. AllButLast'
  BY <1>1, <1>3, <1>4 DEF AllButLast, Mended
<1>8. Arriving(segments[Len(segments)])'
  BY <1>1, <1>3, <1>4, <1>6 DEF Arriving, Mended
<1>9. event.size \in Nat
  BY <1>1, LineEventIs
<1>10. Chained(log)' /\ (event # Nobody => event.prev = NumberOf(log))'
  BY <1>1 DEF Chained, NumberOf
<1>11. (writing \in 0..event.size)' /\ writing' # Nobody /\ (segments # <<>>)'
  BY <1>1, <1>3, <1>4, <1>9, NobodyIs
<1> QED
  BY <1>1, <1>5, <1>7, <1>8, <1>10, <1>11 DEF LogInv

\* Bytes of the event join the last segment.
LEMMA WriteKeeps ==
    ASSUME LogInv, Write
    PROVE  LogInv'
<1>1. /\ LedgerTypes /\ Chained(log) /\ event \in LineEvents /\ segments # <<>>
      /\ writing # Nobody /\ AllButLast /\ Arriving(segments[Len(segments)])
      /\ event.prev = NumberOf(log) /\ UNCHANGED <<event, log, stopped>>
      /\ segments \in Seq(Segments) /\ log \in Seq(LineEvents)
  BY DEF LogInv, LedgerTypes, Write
<1>2. writing \in Nat /\ writing < event.size /\ event.size \in Nat
  BY <1>1, LineEventIs DEF LedgerTypes, Write
<1>3. PICK k \in 1..event.size - writing :
         /\ segments' = [segments EXCEPT ![Len(segments)] = Grown(@, writing, k)]
         /\ writing' = writing + k
  BY DEF Write
<1>4. PICK n, s, g, front : /\ n = Len(segments) /\ s = segments[n] /\ g = Grown(s, writing, k)
                            /\ front = SubSeq(segments, 1, n - 1)
  OBVIOUS
<1>5. n \in DOMAIN segments /\ n \in Nat /\ n # 0 /\ s \in Segments /\ DOMAIN segments = 1..n
  BY <1>1, <1>4, EmptySeq
<1>6. k \in Nat /\ k # 0 /\ writing + k \in Nat /\ writing + k # 0 /\ writing + k <= event.size
  BY <1>2, <1>3
<1>7. GrownAs(g, s, writing, k)
  BY <1>1, <1>2, <1>4, <1>5, <1>6, GrownIs
<1>8. /\ segments' \in Seq(Segments) /\ Len(segments') = n /\ DOMAIN segments' = DOMAIN segments
      /\ segments'[n] = g /\ segments' # <<>>
      /\ \A i \in DOMAIN segments : i # n => segments'[i] = segments[i]
      /\ SubSeq(segments', 1, n - 1) = front
      /\ Text(segments') = Text(front) \o Lines(g)
  <2>1. LastIs(segments', segments, g)
    BY <1>3, <1>4 DEF LastIs
  <2>2. Len(segments) # 0
    BY <1>4, <1>5
  <2> QED
    BY <1>1, <1>4, <1>7, <2>1, <2>2, LastReplaced DEF GrownAs
<1>9. front \in Seq(Segments) /\ Text(front) \in Seq(LineEvents)
  <2>1. n - 1 \in Nat /\ n - 1 <= Len(segments)
    BY <1>4, <1>5
  <2> QED
    BY <1>1, <1>4, <2>1, FirstPart, TextIs
<1>10. Text(segments) = Text(front) \o Lines(s)
  BY <1>1, <1>4, <1>5, TextIs
<1>11. LedgerTypes' /\ Chained(log)' /\ (event.prev = NumberOf(log))'
  BY <1>1, <1>3, <1>6, <1>8 DEF LedgerTypes, Chained, NumberOf
<1>12. AllButLast'
  BY <1>1, <1>4, <1>8 DEF AllButLast
<1>13. (writing \in 0..event.size)' /\ writing' # Nobody /\ event' # Nobody /\ writing' # 0
  BY <1>1, <1>2, <1>3, <1>6, NobodyIs
<1>14. CASE g.broken
  <2>1. stopped
    <3>1. CASE writing = 0
      BY <1>1, <1>4, <1>5, <1>7, <1>14, <3>1 DEF GrownAs, Arriving, Reads
    <3>2. CASE writing # 0
      BY <1>1, <1>4, <1>5, <1>7, <1>14, <3>2 DEF GrownAs, Arriving
    <3> QED
      BY <3>1, <3>2
  <2>2. Arriving(segments[Len(segments)])'
    BY <1>1, <1>8, <1>13, <1>14, <2>1 DEF Arriving
  <2> QED
    BY <1>8, <1>11, <1>12, <1>13, <2>2 DEF LogInv
<1>15. CASE ~g.broken
  <2>1. ~s.broken /\ (writing = 0 => s.open = Nobody) /\ s.lines \in Seq(LineEvents)
    BY <1>5, <1>7, <1>15 DEF GrownAs, Segments
  <2>2. Text(front) \o s.lines = log
    <3>1. CASE writing = 0
      <4>1. Lines(s) = s.lines
        BY <1>5, <2>1, <3>1, LinesIs
      <4> QED
        BY <1>1, <1>4, <1>10, <3>1, <4>1 DEF Arriving
    <3>2. CASE writing # 0
      <4>1. writing # event.size
        BY <1>2
      <4>2. Arriving(s) /\ BeforeLast = front
        BY <1>1, <1>4 DEF BeforeLast
      <4> QED
        BY <2>1, <3>2, <4>1, <4>2 DEF Arriving
    <3> QED
      BY <3>1, <3>2
  <2>3. CASE writing + k # event.size
    <3>1. g.lines = s.lines /\ g.open = [of |-> event, bytes |-> writing + k]
      BY <1>7, <2>3 DEF GrownAs
    <3>2. Text(front) \o g.lines = log
      BY <2>2, <3>1
    <3>3. BeforeLast' = front
      BY <1>8 DEF BeforeLast
    <3>4. Arriving(segments[Len(segments)])'
      BY <1>1, <1>3, <1>8, <1>13, <1>15, <2>3, <3>1, <3>2, <3>3 DEF Arriving
    <3> QED
      BY <1>8, <1>11, <1>12, <1>13, <3>4 DEF LogInv
  <2>4. CASE writing + k = event.size
    <3>1. g.open = Nobody /\ g.lines = Append(s.lines, event)
      BY <1>7, <1>15, <2>4 DEF GrownAs
    <3>2. Lines(g) = Append(s.lines, event)
      BY <1>7, <3>1, LinesIs DEF GrownAs
    <3>3. Text(front) \o Append(s.lines, event) = Append(Text(front) \o s.lines, event)
      BY <1>1, <1>9, <2>1
    <3>4. Text(segments') = Append(log, event)
      BY <1>8, <2>2, <3>2, <3>3
    <3>5. Arriving(segments[Len(segments)])'
      BY <1>1, <1>3, <1>8, <1>13, <1>15, <2>4, <3>1, <3>4 DEF Arriving, Text
    <3> QED
      BY <1>8, <1>11, <1>12, <1>13, <3>5 DEF LogInv
  <2> QED
    BY <2>3, <2>4
<1> QED
  BY <1>14, <1>15

\* What LogInv says of an append that runs.
LEMMA AppendIs ==
    ASSUME LogInv, writing # Nobody
    PROVE  /\ segments \in Seq(Segments) /\ segments # <<>> /\ Len(segments) \in DOMAIN segments
           /\ segments[Len(segments)] \in Segments
           /\ log \in Seq(LineEvents) /\ event \in LineEvents
           /\ writing \in Nat /\ event.size \in Nat /\ event.size >= 2 /\ writing <= event.size
           /\ AllButLast /\ Arriving(segments[Len(segments)])
           /\ Append(log, event) \in Seq(LineEvents) /\ Chained(Append(log, event))
<1>1. /\ segments \in Seq(Segments) /\ segments # <<>> /\ log \in Seq(LineEvents)
      /\ event \in LineEvents /\ writing \in Nat /\ writing \in 0..event.size
      /\ AllButLast /\ Arriving(segments[Len(segments)])
      /\ Chained(log) /\ event.prev = NumberOf(log)
  BY DEF LogInv, LedgerTypes
<1>2. event.size \in Nat /\ event.size >= 2
  BY <1>1, LineEventIs
<1>3. writing <= event.size
  BY <1>1, <1>2
<1>4. Len(segments) \in DOMAIN segments /\ segments[Len(segments)] \in Segments
  BY <1>1
<1>5. Append(log, event) \in Seq(LineEvents) /\ Chained(Append(log, event))
  BY <1>1, ChainGrows
<1> QED
  BY <1>1, <1>2, <1>3, <1>4, <1>5

\* All bytes of the event are there.
LEMMA WholeLine ==
    ASSUME LogInv, writing # Nobody, writing = event.size
    PROVE  /\ Readable => Text(segments) = Append(log, event)
           /\ stopped \/ Readable
           /\ Mended(segments)
<1>1. PICK n, s : n = Len(segments) /\ s = segments[n]
  OBVIOUS
<1>2. /\ n \in DOMAIN segments /\ s \in Segments /\ writing # 0 /\ AllButLast /\ Arriving(s)
  BY <1>1, AppendIs
<1>3. CASE s.broken /\ stopped
  BY <1>1, <1>2, <1>3 DEF Readable, Reads, Mended
<1>4. CASE ~s.broken /\ s.open = Nobody /\ Text(segments) = Append(log, event)
  BY <1>1, <1>2, <1>4 DEF AllButLast, Readable, Reads, Mended
<1> QED
  BY <1>2, <1>3, <1>4 DEF Arriving

LEMMA AcknowledgeKeeps ==
    ASSUME LogInv, Acknowledge
    PROVE  LogInv'
<1>1. /\ writing # Nobody /\ writing = event.size /\ log' = Append(log, event)
      /\ event' = Nobody /\ writing' = Nobody /\ UNCHANGED <<segments, stopped>>
  BY DEF Acknowledge, Drained
<1>2. LedgerTypes' /\ Chained(log)'
  BY <1>1, AppendIs DEF LogInv, LedgerTypes
<1>3. AtRest'
  BY <1>1, WholeLine DEF AtRest, Readable, Mended
<1> QED
  BY <1>1, <1>2, <1>3 DEF LogInv

\* An append stopped inside the line: only its newline may be missing.
LEMMA PartOfLine ==
    ASSUME LogInv, writing # Nobody, writing # 0, writing # event.size, Readable
    PROVE  writing + 1 >= event.size /\ Text(segments) = Append(log, event)
<1>1. PICK n, s : n = Len(segments) /\ s = segments[n]
  OBVIOUS
<1>2. /\ segments \in Seq(Segments) /\ segments # <<>> /\ n \in DOMAIN segments /\ s \in Segments
      /\ log \in Seq(LineEvents) /\ event \in LineEvents /\ writing \in Nat
      /\ event.size \in Nat /\ event.size >= 2 /\ writing <= event.size /\ Arriving(s)
  BY <1>1, AppendIs
<1>3. Reads(s)
  BY <1>1, <1>2 DEF Readable
<1>4. s.open = [of |-> event, bytes |-> writing] /\ Text(BeforeLast) \o s.lines = log
  BY <1>2, <1>3 DEF Arriving, Reads
<1>5. s.open.of = event /\ s.open.bytes = writing /\ s.open # Nobody
  <2>1. [of |-> event, bytes |-> writing] \in OpenLines
    BY <1>2 DEF OpenLines
  <2> QED
    BY <1>4, <2>1, NobodyIs
<1>6. ReadsOpen(s) /\ writing = event.size - 1
  BY <1>3, <1>5 DEF Reads, ReadsOpen
<1>7. writing + 1 >= event.size
  BY <1>2, <1>6
<1>8. Lines(s) = Append(s.lines, event)
  BY <1>5, <1>6 DEF Lines
<1>9. BeforeLast \in Seq(Segments) /\ Text(BeforeLast) \in Seq(LineEvents)
  <2>1. Len(segments) - 1 \in Nat /\ Len(segments) - 1 <= Len(segments)
    BY <1>1, <1>2
  <2> QED
    BY <1>2, <2>1, FirstPart, TextIs DEF BeforeLast
<1>10. Text(segments) = Text(BeforeLast) \o Lines(s)
  <2>1. Len(segments) # 0
    BY <1>1, <1>2
  <2> QED
    BY <1>1, <1>2, <2>1, TextIs DEF BeforeLast
<1>11. s.lines \in Seq(LineEvents)
  BY <1>2 DEF Segments
<1>12. Text(BeforeLast) \o Append(s.lines, event) = Append(Text(BeforeLast) \o s.lines, event)
  BY <1>2, <1>9, <1>11, SMTT(30)
<1> QED
  BY <1>4, <1>7, <1>8, <1>10, <1>12

LEMMA StopAppendKeeps ==
    ASSUME LogInv, StopAppend
    PROVE  LogInv'
<1>1. event' = Nobody /\ writing' = Nobody /\ UNCHANGED segments
  BY DEF StopAppend
<1>2. LedgerTypes /\ Chained(log)
  BY DEF LogInv
<1>3. ASSUME LedgerTypes', Chained(log)', AtRest' PROVE LogInv'
  BY <1>1, <1>3 DEF LogInv
<1>4. CASE writing = Nobody
  <2>1. AtRest /\ stopped' = stopped /\ log' = log
    BY <1>2, <1>4 DEF LogInv, LedgerTypes, StopAppend
  <2>2. LedgerTypes' /\ Chained(log)'
    BY <1>1, <1>2, <2>1 DEF LedgerTypes
  <2>3. AtRest'
    BY <1>1, <2>1 DEF AtRest, Readable, Mended
  <2> QED
    BY <1>3, <2>2, <2>3
<1>5. CASE writing # Nobody
  <2>1. /\ writing \in Nat /\ event.size \in Nat /\ event.size >= 2 /\ writing <= event.size
        /\ Append(log, event) \in Seq(LineEvents) /\ Chained(Append(log, event))
        /\ AllButLast /\ Arriving(segments[Len(segments)]) /\ Len(segments) \in DOMAIN segments
    BY <1>5, AppendIs
  <2>2. /\ stopped' = (stopped \/ writing \in 1..event.size - 1)
        /\ log' = IF writing + 1 >= event.size THEN Append(log, event) ELSE log
    BY <1>5 DEF StopAppend
  <2>3. LedgerTypes'
    <3>1. log' \in Seq(LineEvents) /\ stopped' \in BOOLEAN
      BY <1>2, <2>1, <2>2 DEF LedgerTypes
    <3> QED
      BY <1>1, <1>2, <3>1 DEF LedgerTypes
  <2>4. Chained(log)'
    <3>1. log' = Append(log, event) \/ log' = log
      BY <2>2
    <3> QED
      BY <1>2, <2>1, <3>1
  <2>5. CASE writing = 0
    <3>1. stopped' = stopped /\ log' = log
      <4>1. ~(writing + 1 >= event.size) /\ writing \notin 1..event.size - 1
        BY <2>1, <2>5
      <4> QED
        BY <1>2, <2>2, <4>1 DEF LedgerTypes
    <3>2. Readable /\ Text(segments) = log /\ Mended(segments)
      BY <2>1, <2>5 DEF Arriving, AllButLast, Readable, Mended
    <3>3. AtRest'
      BY <1>1, <3>1, <3>2 DEF AtRest, Readable, Mended
    <3> QED
      BY <1>3, <2>3, <2>4, <3>3
  <2>6. CASE writing = event.size
    <3>1. stopped' = stopped /\ log' = Append(log, event)
      <4>1. writing + 1 >= event.size /\ writing \notin 1..event.size - 1
        BY <2>1, <2>6
      <4> QED
        BY <1>2, <2>2, <4>1 DEF LedgerTypes
    <3>2. AtRest'
      BY <1>1, <1>5, <2>6, <3>1, WholeLine DEF AtRest, Readable, Mended
    <3> QED
      BY <1>3, <2>3, <2>4, <3>2
  <2>7. CASE writing # 0 /\ writing # event.size
    <3>1. stopped'
      <4>1. writing \in 1..event.size - 1
        BY <2>1, <2>7
      <4> QED
        BY <2>2, <4>1
    <3>2. Readable => Text(segments) = log'
      BY <1>5, <2>2, <2>7, PartOfLine
    <3>3. AtRest'
      BY <1>1, <3>1, <3>2 DEF AtRest, Readable, Mended
    <3> QED
      BY <1>3, <2>3, <2>4, <3>3
  <2> QED
    BY <2>5, <2>6, <2>7
<1> QED
  BY <1>4, <1>5

LEMMA LogKeeps == LogInv /\ [LedgerNext]_ledgerVars => LogInv'
<1> SUFFICES ASSUME LogInv, [LedgerNext]_ledgerVars PROVE LogInv'
  OBVIOUS
<1>1. CASE UNCHANGED ledgerVars
  <2>1. UNCHANGED <<segments, event, writing, log, stopped>>
    BY <1>1 DEF ledgerVars
  <2>2. AllButLast => AllButLast'
    BY <2>1 DEF AllButLast
  <2>3. ASSUME Arriving(segments[Len(segments)]) PROVE Arriving(segments[Len(segments)])'
    BY <2>1, <2>3 DEF Arriving, BeforeLast
  <2>4. AtRest => AtRest'
    BY <2>1 DEF AtRest, Readable, Mended
  <2>5. LedgerTypes' /\ Chained(log)' /\ (event # Nobody => event.prev = NumberOf(log))'
    BY <2>1 DEF LogInv, LedgerTypes, Chained, NumberOf
  <2> QED
    BY <2>1, <2>2, <2>3, <2>4, <2>5 DEF LogInv
<1>2. CASE PrepareLine
  BY <1>2, PrepareLineKeeps
<1>3. CASE Replace
  BY <1>3, ReplaceKeeps
<1>4. CASE Open
  BY <1>4, OpenKeeps
<1>5. CASE Write
  BY <1>5, WriteKeeps
<1>6. CASE Acknowledge
  BY <1>6, AcknowledgeKeeps
<1>7. CASE StopAppend
  BY <1>7, StopAppendKeeps
<1> QED
  BY <1>1, <1>2, <1>3, <1>4, <1>5, <1>6, <1>7 DEF LedgerNext

\* However lines arrive and appends are stopped, between writes a ledger that
\* reads back reads as the chain that were written whole, in their order and
\* chained; one that does not was stopped inside a line (ledger.py, read and
\* append_prepared).
THEOREM LogSafe == LedgerSpec => []LedgerIsLog
<1>1. LogInv => LedgerIsLog
  <2> SUFFICES ASSUME LogInv, writing = Nobody
               PROVE  (Readable => Events = log /\ Chained(Events)) /\ (stopped \/ Readable)
    BY DEF LedgerIsLog
  <2>1. AtRest /\ Chained(log)
    BY DEF LogInv
  <2>2. Events = Text(segments)
    BY DEF Events, Text
  <2> QED
    BY <2>1, <2>2 DEF AtRest
<1> QED
  BY LogStarts, LogKeeps, <1>1, PTL DEF LedgerSpec

---------------------------------------------------------------------------
(* MergePlan                                                               *)

MergeTypes ==
    /\ sources \in [1..NumBoards -> Boards]
    /\ target \in Boards
    /\ strategy \in {"keep-newer", "keep-both"}
    /\ stage \in {"inputs", "planned", "applied", "refused", "failed"}

MergeInv == MergeTypes /\ MergeAddsUp

\* What the sources combine to is a version that one of them has, and nothing only
\* where none of them has any.
LEMMA CombinedIs ==
    ASSUME MergeTypes, NEW id \in MergeIds
    PROVE  /\ Combined(id) \in Versions \cup {Absent}
           /\ \A i \in 1..NumBoards : sources[i][id] # Absent => Combined(id) # Absent
<1> DEFINE having == {i \in 1..NumBoards : sources[i][id] # Absent}
<1>1. CASE having = {}
  BY <1>1 DEF Combined
<1>2. CASE having # {}
  <2> DEFINE last == CHOOSE i \in having : \A j \in having : j <= i
  <2>1. \E i \in having : \A j \in having : j <= i
    <3>1. having \in SUBSET (1..NumBoards) /\ NumBoards \in Nat
      BY MergeAssumption
    <3> HIDE DEF having
    <3> QED
      BY <1>2, <3>1, LastOne
  <2>2. last \in having
    BY <2>1
  <2>3. Combined(id) = sources[last][id]
    BY <1>2 DEF Combined
  <2> HIDE DEF last
  <2>4. /\ last \in 1..NumBoards /\ sources[last] \in Boards
        /\ sources[last][id] # Absent
    BY <2>2 DEF MergeTypes
  <2>5. sources[last][id] \in Versions \cup {Absent}
    BY <2>4 DEF Boards
  <2> QED
    BY <2>3, <2>4, <2>5
<1> QED
  BY <1>1, <1>2

LEMMA MergeStarts == MergePlanInit => MergeInv
BY DEF MergePlanInit, MergeInv, MergeTypes, MergeAddsUp

\* Of a plan without renamed tasks: each task of the merged board.
LEMMA FinalIs ==
    ASSUME MergeTypes, \A id \in DOMAIN Final : ValidId(id), NEW id \in MergeIds
    PROVE  /\ DOMAIN Final = MergeIds
           /\ Final[id] \in Versions \cup {Absent}
           /\ target[id] # Absent =>
                 \/ Final[id] = target[id]
                 \/ Final[id] # Absent /\ Final[id].time > target[id].time
           /\ \A i \in 1..NumBoards : sources[i][id] # Absent => Final[id] # Absent
<1> DEFINE both == IF strategy = "keep-both" THEN Conflicts ELSE {}
           all == MergeIds \cup {Renamed(c) : c \in both}
           taken == IF id \notin Conflicts
                    THEN IF target[id] = Absent THEN Combined(id) ELSE target[id]
                    ELSE IF strategy = "keep-newer" /\ SourceIsNewer(id)
                         THEN Combined(id) ELSE target[id]
<1>1. DOMAIN Final = all /\ Final[id] = taken
  BY DEF Final
<1>2. \A c \in both : ~ValidId(Renamed(c))
  BY MergeAssumption DEF Conflicts, ValidId, Renamed
<1>3. all = MergeIds
  BY <1>1, <1>2
<1>4. /\ Combined(id) \in Versions \cup {Absent}
      /\ \A i \in 1..NumBoards : sources[i][id] # Absent => Combined(id) # Absent
  BY CombinedIs
<1>5. target[id] \in Versions \cup {Absent}
  BY DEF MergeTypes, Boards
<1>6. id \in Conflicts <=> Combined(id) # Absent /\ target[id] # Absent
  BY DEF Conflicts
<1>7. /\ taken \in Versions \cup {Absent}
      /\ target[id] # Absent =>
            taken = target[id] \/ (taken # Absent /\ taken.time > target[id].time)
      /\ \A i \in 1..NumBoards : sources[i][id] # Absent => taken # Absent
  <2>1. CASE id \notin Conflicts
    BY <1>4, <1>5, <1>6, <2>1
  <2>2. CASE id \in Conflicts /\ taken = target[id]
    BY <1>4, <1>5, <1>6, <2>2
  <2>3. CASE id \in Conflicts /\ taken = Combined(id) /\ SourceIsNewer(id)
    BY <1>4, <1>5, <1>6, <2>3 DEF SourceIsNewer
  <2> QED
    BY <2>1, <2>2, <2>3
<1> QED
  BY <1>1, <1>3, <1>7

LEMMA MergeKeeps == MergeInv /\ [MergePlanNext]_mergeVars => MergeInv'
<1> SUFFICES ASSUME MergeInv, [MergePlanNext]_mergeVars PROVE MergeInv'
  OBVIOUS
<1>1. CASE DryRun
  BY <1>1 DEF DryRun, MergeInv, MergeTypes, MergeAddsUp
<1>2. CASE EditBoard
  <2>1. sources' \in [1..NumBoards -> Boards] /\ target' \in Boards
    BY <1>2 DEF EditBoard, MergeInv, MergeTypes, Boards
  <2> QED
    BY <1>2, <2>1 DEF EditBoard, MergeInv, MergeTypes, MergeAddsUp
<1>3. CASE ApplyPlan
  <2>1. CASE stage' # "applied"
    BY <1>3, <2>1 DEF ApplyPlan, MergeInv, MergeTypes, MergeAddsUp
  <2>2. CASE stage' = "applied"
    <3>1. /\ Accepted /\ \A id \in DOMAIN Final : ValidId(id)
          /\ target' = Final /\ UNCHANGED <<sources, strategy, reviewed>>
      BY <1>3, <2>2 DEF ApplyPlan
    <3>2. /\ ~Contradicted(Final) /\ Final = reviewed.final
          /\ TargetBefore = target
      BY <3>1 DEF Accepted, Plan, TargetBefore
    <3>3. TargetBefore' = target
      BY <3>1, <3>2 DEF TargetBefore
    <3>4. MergeTypes'
      <4>1. Final \in Boards
        <5>1. Final = [id \in DOMAIN Final |-> Final[id]]
          BY DEF Final
        <5>2. DOMAIN Final = MergeIds
          BY <3>1, FinalIs, CombinedIs DEF MergeInv, Final, Conflicts, ValidId, Renamed
        <5> QED
          BY <3>1, <5>1, <5>2, FinalIs DEF MergeInv, Boards
      <4> QED
        BY <2>2, <3>1, <4>1 DEF MergeInv, MergeTypes
    <3>5. ASSUME NEW id \in MergeIds
          PROVE  /\ target[id] # Absent =>
                      \/ target'[id] = target[id]
                      \/ target'[id] # Absent /\ target'[id].time > target[id].time
                 /\ (\E i \in 1..NumBoards : sources'[i][id] # Absent) => target'[id] # Absent
      BY <3>1, FinalIs DEF MergeInv
    <3>6. ~Contradicted(target)'
      BY <3>1, <3>2 DEF Contradicted, On
    <3> QED
      BY <3>1, <3>2, <3>3, <3>4, <3>5, <3>6 DEF MergeInv, MergeAddsUp
  <2> QED
    BY <2>1, <2>2
<1>4. CASE UNCHANGED mergeVars
  BY <1>4 DEF mergeVars, MergeInv, MergeTypes, MergeAddsUp, TargetBefore, Contradicted, On
<1> QED
  BY <1>1, <1>2, <1>3, <1>4 DEF MergePlanNext

\* An applied merge leaves what was reviewed, on the board that was reviewed, for any
\* number of sources and tasks.
THEOREM MergeSafe == MergePlanSpec => []MergeAddsUp
<1>1. MergeInv => MergeAddsUp
  BY DEF MergeInv
<1> QED
  BY <1>1, MergeStarts, MergeKeeps, PTL DEF MergePlanSpec

---------------------------------------------------------------------------
(* Migration                                                               *)

\* What a verified entry promises, unless the Record was taken back.
There(s) ==
    plan[s] \notin takenBack =>
        made[plan[s]].of = s /\ made[plan[s]].stage \in {"whole", "revised"}

\* An ID that a source can never have: a Record that is not its own has it.
Lost(id, s) == Existing(id) /\ ~Matches(id, s) /\ LockFree(id)

\* How far the Record of a creating job is made.
Progress == [revision |-> "directory", event |-> "unlogged", linked |-> "whole"]

MigrationTypes ==
    /\ plan \in [Sources -> Ids] \cup {Nil}
    /\ receipt \in Copies
    /\ made \in [Ids -> [of : Sources \cup {0, Nil}, stage : Stages]]
    /\ job \in [Movers -> Jobs \cup {Nil}]
    /\ told \subseteq Sources

\* A call: it holds a copy of the receipt from the first entry it writes on.
\* What it has in hand, as verified, is there; an entry it is working on is not
\* told; a Record it creates is its own and as far as its step.
Works(j, isTold) ==
    /\ plan # Nil
    /\ (j.at \in {"status", "fresh"}) = (j.seen = Nil)
    /\ j.at \notin {"status", "items"} => j.src \in Sources
    /\ j.at \in Creating => made[plan[j.src]] = [of |-> j.src, stage |-> Progress[j.at]]
    /\ j.at \notin {"status", "fresh", "mark", "items"} => j.src \notin isTold
    /\ j.at = "verified" => There(j.src)
    /\ j.seen # Nil =>
          \A s \in Sources : /\ s \in isTold => j.seen[s] = "verified"
                             /\ j.seen[s] = "verified" => There(s)

Working == \A m \in Movers : job[m] # Nil => Works(job[m], told)

Exclusive == \A m, n \in Movers : \A id \in Ids : Creates(m, id) /\ Creates(n, id) => m = n

\* A source's Record has the ID of the plan.
OwnId == \A s \in Sources, id \in Ids : Matches(id, s) => plan # Nil /\ plan[s] = id

\* The candidates that a source was not given, up to the one it was, are lost to
\* it or given to an earlier source.
Chosen ==
    plan # Nil =>
        \A s \in Sources :
            /\ \A t \in 1..s - 1 : plan[t] # plan[s]
            /\ \E n \in 1..NumSources + 1 :
                  /\ plan[s] = Candidates[s][n]
                  /\ \A k \in 1..n - 1 :
                        \/ \E t \in 1..s - 1 : plan[t] = Candidates[s][k]
                        \/ Lost(Candidates[s][k], s)

ReceiptTrue ==
    receipt # Nil => plan # Nil /\ \A s \in Sources : receipt[s] = "verified" => There(s)

MigrationInv ==
    /\ MigrationTypes
    /\ Working
    /\ Exclusive
    /\ OwnId
    /\ Chosen
    /\ ReceiptTrue
    /\ VerifiedEntryKept

LEMMA ThereSame ==
    ASSUME UNCHANGED <<plan, made, takenBack>>
    PROVE  /\ \A s : There(s)' <=> There(s)
           /\ \A s, id : Matches(id, s)' <=> Matches(id, s)
           /\ \A id : Existing(id)' <=> Existing(id)
           /\ \A j, T : Works(j, T)' <=> Works(j, T)
BY DEF There, Matches, Existing, Works, Creating

LEMMA CandidateIsId ==
    \A s \in Sources, n \in 1..NumSources + 1 : Candidates[s][n] \in Ids
BY CandidatesAssumption

LEMMA BelowIsCandidate ==
    \A n \in 1..NumSources + 1 : \A k \in 1..n - 1 : k \in 1..NumSources + 1
BY NumSourcesAssumption

LEMMA ChosenStays ==
    ASSUME Chosen, UNCHANGED plan,
           \A s \in Sources, id \in Ids : Lost(id, s) => Lost(id, s)'
    PROVE  Chosen'
<1> SUFFICES ASSUME plan # Nil, NEW s \in Sources
             PROVE  /\ \A t \in 1..s - 1 : plan'[t] # plan'[s]
                    /\ \E n \in 1..NumSources + 1 :
                          /\ plan'[s] = Candidates[s][n]
                          /\ \A k \in 1..n - 1 :
                                \/ \E t \in 1..s - 1 : plan'[t] = Candidates[s][k]
                                \/ Lost(Candidates[s][k], s)'
  BY DEF Chosen
<1>1. PICK n \in 1..NumSources + 1 :
          /\ plan[s] = Candidates[s][n]
          /\ \A k \in 1..n - 1 :
                \/ \E t \in 1..s - 1 : plan[t] = Candidates[s][k]
                \/ Lost(Candidates[s][k], s)
  BY DEF Chosen
<1>2. \A k \in 1..n - 1 : Lost(Candidates[s][k], s) => Lost(Candidates[s][k], s)'
  BY BelowIsCandidate, CandidateIsId
<1> QED
  BY <1>1, <1>2 DEF Chosen

\* What holds of a call that a step leaves alone.
LEMMA OtherWorks ==
    ASSUME NEW j, NEW T, NEW TT, Works(j, T), UNCHANGED plan,
           \A s \in Sources : There(s) => There(s)',
           j.at \in Creating => made'[plan[j.src]] = made[plan[j.src]],
           TT \subseteq T \/ j.seen = Nil
    PROVE  Works(j, TT)'
<1>1. /\ plan' # Nil
      /\ (j.at \in {"status", "fresh"}) = (j.seen = Nil)
      /\ j.at \notin {"status", "items"} => j.src \in Sources
      /\ j.at \in Creating => made'[plan[j.src]] = [of |-> j.src, stage |-> Progress[j.at]]
  BY DEF Works
<1>2. j.at \notin {"status", "fresh", "mark", "items"} => j.src \notin TT
  BY DEF Works
<1>3. j.at = "verified" => There(j.src)'
  BY <1>1 DEF Works
<1>4. j.seen # Nil =>
          \A s \in Sources : /\ s \in TT => j.seen[s] = "verified"
                             /\ j.seen[s] = "verified" => There(s)'
  BY DEF Works
<1> QED
  BY <1>1, <1>2, <1>3, <1>4 DEF Works, Creating, Progress

\* A step of one command that leaves the Records as they are.
LEMMA QuietStep ==
    ASSUME MigrationInv, NEW m \in Movers, NEW j \in Jobs \cup {Nil},
           job' = [job EXCEPT ![m] = j],
           UNCHANGED <<plan, made, takenBack>>,
           receipt' \in Copies, told' \subseteq Sources,
           j # Nil => Works(j, told'),
           j # Nil /\ j.at \in Creating =>
               job[m] # Nil /\ job[m].at \in Creating /\ j.src = job[m].src,
           receipt' # Nil =>
               plan # Nil /\ \A s \in Sources : receipt'[s] = "verified" => There(s),
           \A s \in told' : receipt' # Nil /\ receipt'[s] = "verified",
           told' \subseteq told \/ Alone(m)
    PROVE  MigrationInv'
<1>1. MigrationTypes'
  BY DEF MigrationInv, MigrationTypes
<1>2. job'[m] = j /\ \A n \in Movers \ {m} : job'[n] = job[n]
  BY DEF MigrationInv, MigrationTypes
<1>3. Working'
  <2> SUFFICES ASSUME NEW n \in Movers, job'[n] # Nil
               PROVE  Works(job[n], told)'
    BY DEF Working
  <2>1. CASE n = m
    <3>1. PICK TT : TT = told'
      OBVIOUS
    <3>2. Works(j, TT)'
      BY <1>2, <2>1, <3>1, ThereSame
    <3> QED
      BY <1>2, <2>1, <3>1, <3>2 DEF Works
  <2>2. CASE n # m
    <3>1. Works(job[n], told) /\ job'[n] = job[n]
      BY <1>2, <2>2 DEF MigrationInv, Working
    <3>2. told' \subseteq told \/ job[n].seen = Nil
      BY <1>2, <2>2, <3>1 DEF Alone
    <3>3. PICK k : k = job[n]
      OBVIOUS
    <3>4. PICK T : T = told
      OBVIOUS
    <3>5. PICK TT : TT = told'
      OBVIOUS
    <3>6. Works(k, TT)'
      BY <3>1, <3>2, <3>3, <3>4, <3>5, OtherWorks, ThereSame
    <3> QED
      BY <1>2, <2>2, <3>3, <3>5, <3>6 DEF Works
  <2> QED
    BY <2>1, <2>2
<1>4. \A n \in Movers, id \in Ids : Creates(n, id)' => Creates(n, id)
  BY <1>2 DEF Creates
<1>5. Exclusive'
  BY <1>4 DEF MigrationInv, Exclusive
<1>6. OwnId'
  BY ThereSame DEF MigrationInv, OwnId
<1>7. \A s \in Sources, id \in Ids : Lost(id, s) => Lost(id, s)'
  BY <1>4, ThereSame DEF Lost, LockFree
<1>8. Chosen'
  BY <1>7, ChosenStays DEF MigrationInv
<1>9. ReceiptTrue'
  BY ThereSame DEF ReceiptTrue
<1>10. VerifiedEntryKept'
  BY DEF VerifiedEntryKept
<1> QED
  BY <1>1, <1>3, <1>5, <1>6, <1>8, <1>9, <1>10 DEF MigrationInv

\* What a command that goes on takes with it.
LEMMA StepIs ==
    ASSUME MigrationTypes, NEW m \in Movers, job[m] # Nil,
           NEW at, JobStep(m, at),
           at \in {"status", "fresh", "mark", "look", "create", "revision", "event",
                   "linked", "check", "verified", "failed", "items"}
    PROVE  \E j \in Jobs : /\ job' = [job EXCEPT ![m] = j] /\ j # Nil
                           /\ j.at = at /\ j.src = job[m].src /\ j.seen = job[m].seen
<1> DEFINE j == [job[m] EXCEPT !.at = at]
<1>1. job[m] \in Jobs
  BY DEF MigrationTypes
<1>2. /\ j \in Jobs
      /\ j.at = at /\ j.src = job[m].src /\ j.seen = job[m].seen
  BY <1>1 DEF Jobs
<1>3. job' = [job EXCEPT ![m] = j]
  BY DEF JobStep
<1> QED
  BY <1>2, <1>3, NilAssumption

LEMMA OnwardIs ==
    ASSUME MigrationTypes, NEW m \in Movers, job[m] # Nil, NEW raised, Onward(m, raised)
    PROVE  \E j \in Jobs \cup {Nil} :
              /\ job' = [job EXCEPT ![m] = j]
              /\ j # Nil => j.at = "status" /\ j.seen = Nil
<1> DEFINE rest == job[m].todo \ {job[m].src}
           j == [job[m] EXCEPT !.todo = rest, !.at = "status", !.src = 0, !.seen = Nil]
<1>1. job[m] \in Jobs
  BY DEF MigrationTypes
<1>2. j \in Jobs /\ j.at = "status" /\ j.seen = Nil
  <2>1. rest \in SUBSET Sources /\ 0 \in 0..NumSources /\ Nil \in Copies
    BY <1>1, NumSourcesAssumption DEF Jobs, Copies
  <2> HIDE DEF rest
  <2> QED
    BY <1>1, <2>1 DEF Jobs
<1>3. job' = [job EXCEPT ![m] = IF rest = {} \/ (raised /\ ~job[m].cont) THEN Nil ELSE j]
  BY DEF Onward
<1> HIDE DEF rest, j
<1> QED
  BY <1>2, <1>3

\* A command between two items, and what an entry of its copy is.
LEMMA BetweenWorks ==
    ASSUME NEW j, NEW T, plan # Nil, j.at = "status", j.seen = Nil
    PROVE  Works(j, T)
BY DEF Works, Creating

LEMMA EntryIs ==
    ASSUME MigrationInv, NEW m \in Movers, job[m] # Nil, job[m].seen # Nil,
           job[m].at # "items",
           NEW state \in States
    PROVE  /\ job[m].src \in Sources
           /\ Entry(m, state) \in [Sources -> States]
           /\ Entry(m, state)[job[m].src] = state
           /\ \A s \in Sources \ {job[m].src} : Entry(m, state)[s] = job[m].seen[s]
<1>1. job[m] \in Jobs /\ Works(job[m], told)
  BY DEF MigrationInv, MigrationTypes, Working
<1>2. job[m].seen \in [Sources -> States] /\ job[m].src \in Sources
  BY <1>1 DEF Jobs, Copies, Works
<1> QED
  BY <1>2 DEF Entry

LEMMA BeginKeeps == ASSUME MigrationInv, NEW m \in Movers, Begin(m) PROVE MigrationInv'
<1> USE DEF dest
<1>1. PICK todo \in Selections : \E do \in {"apply", "verify"} : \E cont \in BOOLEAN :
          job' = [job EXCEPT ![m] = Job(do, todo, cont, "status", 0, Nil)]
  BY DEF Begin
<1>2. PICK do \in {"apply", "verify"} : \E cont \in BOOLEAN :
          job' = [job EXCEPT ![m] = Job(do, todo, cont, "status", 0, Nil)]
  BY <1>1
<1>3. PICK cont \in BOOLEAN :
          job' = [job EXCEPT ![m] = Job(do, todo, cont, "status", 0, Nil)]
  BY <1>2
<1>4. PICK j : j = Job(do, todo, cont, "status", 0, Nil)
  OBVIOUS
<1>5. j \in Jobs /\ j.at = "status" /\ j.seen = Nil
  BY <1>4, NumSourcesAssumption, SelectionsAssumption DEF Job, Jobs, Copies
<1>6. plan # Nil /\ UNCHANGED <<plan, receipt, told, dest>>
  BY DEF Begin
<1>7. Works(j, told')
  BY <1>5, <1>6, BetweenWorks
<1> QED
  BY <1>3, <1>4, <1>5, <1>6, <1>7, QuietStep
     DEF MigrationInv, MigrationTypes, ReceiptTrue, VerifiedEntryKept, Creating

LEMMA ReadStatusKeeps ==
    ASSUME MigrationInv, NEW m \in Movers, ReadStatus(m) PROVE MigrationInv'
<1> USE DEF dest
<1>1. PICK s \in job[m].todo : job' = [job EXCEPT ![m].src = s,
          ![m].at = IF receipt = Nil THEN "fresh" ELSE "mark", ![m].seen = receipt]
  BY DEF ReadStatus
<1>2. PICK j : j = [job[m] EXCEPT !.src = s,
          !.at = IF receipt = Nil THEN "fresh" ELSE "mark", !.seen = receipt]
  OBVIOUS
<1>3. /\ job[m] # Nil /\ job[m] \in Jobs /\ plan # Nil
      /\ UNCHANGED <<plan, receipt, told, dest>>
  BY DEF ReadStatus, JobAt, MigrationInv, MigrationTypes, Working, Works
<1>4. s \in Sources /\ s \in 0..NumSources
  BY <1>3, NumSourcesAssumption DEF Jobs, Sources
<1>5. /\ j \in Jobs /\ j.seen = receipt /\ j.src = s
      /\ j.at = IF receipt = Nil THEN "fresh" ELSE "mark"
  BY <1>2, <1>3, <1>4 DEF Jobs, MigrationInv, MigrationTypes
<1>6. job' = [job EXCEPT ![m] = j]
  BY <1>1, <1>2
<1>7. Works(j, told')
  BY <1>3, <1>4, <1>5 DEF Works, Creating, MigrationInv, ReceiptTrue, VerifiedEntryKept
<1> QED
  BY <1>3, <1>5, <1>6, <1>7, QuietStep
     DEF MigrationInv, MigrationTypes, ReceiptTrue, VerifiedEntryKept, Creating

LEMMA CreateStatusKeeps ==
    ASSUME MigrationInv, NEW m \in Movers, CreateStatus(m) PROVE MigrationInv'
<1> USE DEF dest
<1>1. /\ job[m] # Nil /\ job[m].at = "fresh" /\ job[m] \in Jobs
      /\ Works(job[m], told) /\ UNCHANGED <<plan, told, dest>>
  BY DEF CreateStatus, JobAt, MigrationInv, MigrationTypes, Working
<1>2. plan # Nil /\ job[m].src \in Sources
  BY <1>1 DEF Works
<1>3. CASE receipt = Nil
  <2>1. PICK new : new = [s \in Sources |-> "pending"]
    OBVIOUS
  <2>2. PICK j : j = [job[m] EXCEPT !.seen = new, !.at = "mark"]
    OBVIOUS
  <2>3. receipt' = new /\ job' = [job EXCEPT ![m] = j]
    BY <1>3, <2>1, <2>2 DEF CreateStatus
  <2>4. new \in [Sources -> States] /\ new \in Copies /\ new # Nil
    BY <2>1, NilAssumption DEF States, Copies
  <2>5. j \in Jobs /\ j.seen = new /\ j.at = "mark" /\ j.src = job[m].src
    BY <1>1, <2>2, <2>4 DEF Jobs
  <2>6. told = {}
    BY <1>3 DEF MigrationInv, VerifiedEntryKept
  <2>7. Works(j, told')
    BY <1>1, <1>2, <2>1, <2>4, <2>5, <2>6 DEF Works, Creating
  <2> QED
    BY <1>1, <1>2, <2>1, <2>3, <2>4, <2>5, <2>6, <2>7, QuietStep DEF Creating
<1>4. CASE receipt # Nil
  <2>1. receipt' = receipt /\ Onward(m, TRUE)
    BY <1>4 DEF CreateStatus
  <2>2. PICK j \in Jobs \cup {Nil} :
            /\ job' = [job EXCEPT ![m] = j]
            /\ j # Nil => j.at = "status" /\ j.seen = Nil
    BY <1>1, <2>1, OnwardIs DEF MigrationInv
  <2>3. j # Nil => Works(j, told')
    BY <1>2, <2>2, BetweenWorks
  <2> QED
    BY <1>1, <1>2, <2>1, <2>2, <2>3, QuietStep
       DEF MigrationInv, MigrationTypes, ReceiptTrue, VerifiedEntryKept, Creating
<1> QED
  BY <1>3, <1>4

LEMMA MarkCopyingKeeps ==
    ASSUME MigrationInv, NEW m \in Movers, MarkCopying(m) PROVE MigrationInv'
<1> USE DEF dest
<1>1. /\ job[m] # Nil /\ job[m].at = "mark" /\ job[m] \in Jobs
      /\ Works(job[m], told) /\ UNCHANGED <<plan, dest>>
  BY DEF MarkCopying, JobAt, MigrationInv, MigrationTypes, Working
<1>2. plan # Nil /\ job[m].src \in Sources /\ job[m].seen # Nil
  BY <1>1 DEF Works
<1>3. PICK new : new = Entry(m, "copying")
  OBVIOUS
<1>4. /\ new \in [Sources -> States] /\ new[job[m].src] = "copying"
      /\ \A s \in Sources \ {job[m].src} : new[s] = job[m].seen[s]
  BY <1>1, <1>2, <1>3, EntryIs DEF States
<1>5. new \in Copies /\ new # Nil
  BY <1>4, NilAssumption DEF Copies
<1>6. PICK j : j = [job[m] EXCEPT !.seen = new, !.at = "look"]
  OBVIOUS
<1>7. /\ receipt' = new /\ told' = told \ {job[m].src}
      /\ job' = [job EXCEPT ![m] = j]
  BY <1>3, <1>6 DEF MarkCopying
<1>8. j \in Jobs /\ j.seen = new /\ j.at = "look" /\ j.src = job[m].src
  BY <1>1, <1>5, <1>6 DEF Jobs
<1>9. \A s \in Sources : /\ s \in told' => new[s] = "verified"
                         /\ new[s] = "verified" => There(s)
  BY <1>1, <1>2, <1>4, <1>7 DEF Works
<1>10. Works(j, told')
  BY <1>2, <1>5, <1>7, <1>8, <1>9 DEF Works, Creating
<1>11. told' \subseteq Sources
  BY <1>7 DEF MigrationInv, MigrationTypes
<1> QED
  BY <1>1, <1>2, <1>5, <1>7, <1>8, <1>9, <1>10, <1>11, QuietStep DEF Creating

\* A step that only takes the command on.
LEMMA OnlyStepKeeps ==
    ASSUME MigrationInv, NEW m \in Movers, NEW at, job[m] # Nil, JobStep(m, at),
           at \in {"create", "check", "verified", "failed"},
           job[m].at \in {"look", "create", "check"} \cup Creating,
           at = "verified" => There(job[m].src),
           UNCHANGED <<plan, receipt, told, made, takenBack>>
    PROVE  MigrationInv'
<1>1. job[m] \in Jobs /\ Works(job[m], told)
  BY DEF MigrationInv, MigrationTypes, Working
<1>2. PICK j \in Jobs : /\ job' = [job EXCEPT ![m] = j] /\ j # Nil
                        /\ j.at = at /\ j.src = job[m].src /\ j.seen = job[m].seen
  BY StepIs DEF MigrationInv
<1>3. Works(j, told')
  BY <1>1, <1>2 DEF Works, Creating
<1> QED
  BY <1>2, <1>3, QuietStep
     DEF MigrationInv, MigrationTypes, ReceiptTrue, VerifiedEntryKept, Creating

LEMMA LookKeeps == ASSUME MigrationInv, NEW m \in Movers, Look(m) PROVE MigrationInv'
<1>1. /\ job[m] # Nil /\ job[m].at = "look"
      /\ UNCHANGED <<plan, receipt, told, made, takenBack>>
  BY DEF Look, JobAt, dest
<1>2. JobStep(m, "failed") \/ JobStep(m, "check") \/ JobStep(m, "create")
  BY DEF Look
<1> QED
  BY <1>1, <1>2, OnlyStepKeeps

LEMMA CreatedKeeps == ASSUME MigrationInv, NEW m \in Movers, Created(m) PROVE MigrationInv'
BY OnlyStepKeeps DEF Created, JobAt, dest, Creating

LEMMA CheckKeeps == ASSUME MigrationInv, NEW m \in Movers, Check(m) PROVE MigrationInv'
<1>1. /\ job[m] # Nil /\ job[m].at = "check"
      /\ UNCHANGED <<plan, receipt, told, made, takenBack>>
  BY DEF Check, JobAt, dest
<1>2. CASE JobStep(m, "failed")
  BY <1>1, <1>2, OnlyStepKeeps
<1>3. CASE JobStep(m, "verified") /\ Verified(Destination(m), job[m].src)
  <2>1. There(job[m].src)
    BY <1>3 DEF Verified, Matches, There, Destination
  <2> QED
    BY <1>1, <1>3, <2>1, OnlyStepKeeps
<1> QED
  BY <1>2, <1>3 DEF Check

LEMMA WriteOutcomeKeeps ==
    ASSUME MigrationInv, NEW m \in Movers, WriteOutcome(m) PROVE MigrationInv'
<1> USE DEF dest
<1>1. /\ job[m] # Nil /\ job[m].at \in {"verified", "failed"} /\ job[m] \in Jobs
      /\ Works(job[m], told) /\ UNCHANGED <<plan, dest>>
      /\ told \subseteq Sources
  BY DEF WriteOutcome, MigrationInv, MigrationTypes, Working
<1>2. /\ plan # Nil /\ job[m].src \in Sources /\ job[m].seen # Nil
      /\ job[m].src \notin told
  BY <1>1 DEF Works
<1>3. PICK new : new = Entry(m, job[m].at)
  OBVIOUS
<1>4. /\ new \in [Sources -> States] /\ new[job[m].src] = job[m].at
      /\ \A s \in Sources \ {job[m].src} : new[s] = job[m].seen[s]
  BY <1>1, <1>2, <1>3, EntryIs DEF States
<1>5. new \in Copies /\ new # Nil
  BY <1>4, NilAssumption DEF Copies
<1>6. /\ receipt' = new
      /\ told' = told \cup {s \in {job[m].src} : job[m].at = "verified" /\ Alone(m)}
      /\ Onward(m, job[m].at = "failed")
  BY <1>3 DEF WriteOutcome
<1>7. PICK raised : Onward(m, raised)
  BY <1>6
<1>8. PICK j \in Jobs \cup {Nil} :
          /\ job' = [job EXCEPT ![m] = j]
          /\ j # Nil => j.at = "status" /\ j.seen = Nil
  BY <1>1, <1>7, OnwardIs DEF MigrationInv
<1>9. j # Nil => Works(j, told')
  BY <1>2, <1>8, BetweenWorks
<1>10. /\ told' \subseteq Sources /\ (told' \subseteq told \/ Alone(m))
       /\ \A s \in told' : new[s] = "verified"
  BY <1>1, <1>2, <1>4, <1>6 DEF Works
<1>11. \A s \in Sources : new[s] = "verified" => There(s)
  BY <1>1, <1>2, <1>4 DEF Works
<1> QED
  BY <1>1, <1>2, <1>5, <1>6, <1>8, <1>9, <1>10, <1>11, QuietStep DEF Creating

LEMMA KillKeeps ==
    ASSUME MigrationInv, NEW m \in Movers, KillMover(m) PROVE MigrationInv'
BY QuietStep DEF KillMover, dest, MigrationInv, MigrationTypes, ReceiptTrue, VerifiedEntryKept

LEMMA VerifyReadKeeps ==
    ASSUME MigrationInv, NEW m \in Movers, VerifyRead(m) PROVE MigrationInv'
<1> USE DEF dest
<1>1. /\ job[m] # Nil /\ job[m] \in Jobs /\ plan # Nil
      /\ UNCHANGED <<plan, receipt, told, dest>>
  BY DEF VerifyRead, JobAt, MigrationInv, MigrationTypes, Working, Works
<1>2. PICK j : j = IF receipt = Nil THEN Nil
                   ELSE [job[m] EXCEPT !.at = "items", !.seen = receipt]
  OBVIOUS
<1>3. job' = [job EXCEPT ![m] = j]
  BY <1>2 DEF VerifyRead, MigrationInv, MigrationTypes
<1>4. j # Nil => j \in Jobs /\ j.at = "items" /\ j.seen = receipt /\ receipt # Nil
  BY <1>1, <1>2 DEF Jobs, MigrationInv, MigrationTypes
<1>5. j # Nil => Works(j, told')
  BY <1>1, <1>4 DEF Works, Creating, MigrationInv, ReceiptTrue, VerifiedEntryKept
<1> QED
  BY <1>1, <1>3, <1>4, <1>5, QuietStep
     DEF MigrationInv, MigrationTypes, ReceiptTrue, VerifiedEntryKept, Creating

LEMMA VerifyItemKeeps ==
    ASSUME MigrationInv, NEW m \in Movers, NEW s \in Sources, VerifyItem(m, s)
    PROVE  MigrationInv'
<1> USE DEF dest
<1>1. /\ job[m] # Nil /\ job[m].at = "items" /\ job[m] \in Jobs /\ Works(job[m], told)
      /\ UNCHANGED <<plan, receipt, told, dest>>
  BY DEF VerifyItem, JobAt, MigrationInv, MigrationTypes, Working
<1>2. plan # Nil /\ job[m].seen # Nil /\ job[m].seen \in [Sources -> States]
  BY <1>1 DEF Works, Jobs, Copies
<1>3. PICK entry : entry = IF s \notin drifted /\ Verified(plan[s], s) THEN "verified"
                           ELSE job[m].seen[s]
  OBVIOUS
<1>4. PICK new : new = [job[m].seen EXCEPT ![s] = entry]
  OBVIOUS
<1>5. PICK j : j = [job[m] EXCEPT !.todo = @ \ {s}, !.seen = new]
  OBVIOUS
<1>6. job' = [job EXCEPT ![m] = j]
  BY <1>3, <1>4, <1>5 DEF VerifyItem, MigrationInv, MigrationTypes
<1>7. entry \in States /\ (entry = "verified" => There(s) \/ job[m].seen[s] = "verified")
      /\ (job[m].seen[s] = "verified" => entry = "verified")
  BY <1>2, <1>3 DEF States, Verified, Matches, There
<1>8. new \in [Sources -> States] /\ new \in Copies /\ new # Nil
  BY <1>2, <1>4, <1>7, NilAssumption DEF Copies
<1>9. j \in Jobs /\ j.at = "items" /\ j.seen = new
  BY <1>1, <1>5, <1>8 DEF Jobs
<1>10. \A u \in Sources : /\ u \in told => new[u] = "verified"
                          /\ new[u] = "verified" => There(u)
  BY <1>1, <1>2, <1>4, <1>7 DEF Works
<1>11. Works(j, told')
  BY <1>1, <1>2, <1>8, <1>9, <1>10 DEF Works, Creating
<1> QED
  BY <1>1, <1>6, <1>9, <1>11, QuietStep
     DEF MigrationInv, MigrationTypes, ReceiptTrue, VerifiedEntryKept, Creating

LEMMA VerifyWriteKeeps ==
    ASSUME MigrationInv, NEW m \in Movers, VerifyWrite(m) PROVE MigrationInv'
<1> USE DEF dest
<1>1. /\ job[m] # Nil /\ job[m].at = "items" /\ job[m] \in Jobs /\ Works(job[m], told)
      /\ UNCHANGED <<plan, told, dest>> /\ receipt' = job[m].seen
      /\ job' = [job EXCEPT ![m] = Nil]
  BY DEF VerifyWrite, JobAt, MigrationInv, MigrationTypes, Working
<1>2. plan # Nil /\ job[m].seen # Nil /\ job[m].seen \in Copies
  BY <1>1 DEF Works, Jobs
<1>3. told \subseteq Sources
  BY DEF MigrationInv, MigrationTypes
<1>4. \A s \in Sources : /\ s \in told => job[m].seen[s] = "verified"
                         /\ job[m].seen[s] = "verified" => There(s)
  BY <1>1, <1>2 DEF Works
<1> QED
  BY <1>1, <1>2, <1>3, <1>4, QuietStep

---------------------------------------------------------------------------
(* Migration: steps that make or change a Record *)

LEMMA RecordStep ==
    ASSUME MigrationInv, MigrationTypes', UNCHANGED <<plan, receipt, told>>,
           \A n \in Movers : \/ /\ job'[n] = job[n]
                                /\ job[n] # Nil /\ job[n].at \in Creating =>
                                      made'[plan[job[n].src]] = made[plan[job[n].src]]
                             \/ job'[n] # Nil => Works(job[n], told)',
           \A s \in Sources : There(s) => There(s)',
           \A s \in Sources, id \in Ids : Lost(id, s) => Lost(id, s)',
           OwnId', Exclusive'
    PROVE  MigrationInv'
<1>1. Working'
  <2> SUFFICES ASSUME NEW n \in Movers, job'[n] # Nil
               PROVE  Works(job[n], told)'
    BY DEF Working
  <2>1. CASE /\ job'[n] = job[n]
             /\ job[n] # Nil /\ job[n].at \in Creating =>
                    made'[plan[job[n].src]] = made[plan[job[n].src]]
    <3>1. PICK k : k = job[n]
      OBVIOUS
    <3>2. PICK T : T = told
      OBVIOUS
    <3>3. Works(k, T)
      BY <2>1, <3>1, <3>2 DEF MigrationInv, Working
    <3>4. Works(k, T)'
      BY <2>1, <3>1, <3>3, OtherWorks
    <3> QED
      BY <2>1, <3>1, <3>2, <3>4 DEF Works
  <2> QED
    BY <2>1
<1>2. Chosen'
  BY ChosenStays DEF MigrationInv
<1>3. ReceiptTrue'
  BY DEF MigrationInv, ReceiptTrue
<1>4. VerifiedEntryKept'
  BY DEF MigrationInv, VerifiedEntryKept
<1> QED
  BY <1>1, <1>2, <1>3, <1>4 DEF MigrationInv

LEMMA ReviseKeeps ==
    ASSUME MigrationInv, NEW id \in Ids, ReviseRecord(id) PROVE MigrationInv'
<1>1. /\ UNCHANGED <<plan, receipt, told, takenBack, job>> /\ LockFree(id) /\ Existing(id)
      /\ made' = [made EXCEPT ![id].stage = "revised"]
  BY DEF ReviseRecord, Set
<1>2. /\ made'[id] = [made[id] EXCEPT !.stage = "revised"]
      /\ made'[id].of = made[id].of /\ made'[id].stage = "revised"
      /\ \A i \in Ids \ {id} : made'[i] = made[i]
      /\ made' \in [Ids -> [of : Sources \cup {0, Nil}, stage : Stages]]
  BY <1>1 DEF MigrationInv, MigrationTypes, Stages
<1>3. \A n \in Movers : job[n] # Nil /\ job[n].at \in Creating =>
          plan[job[n].src] \in Ids \ {id}
  BY <1>1 DEF LockFree, Creates, MigrationInv, MigrationTypes, Working, Works, Creating
<1>4. \A s \in Sources : plan # Nil => plan[s] \in Ids
  BY DEF MigrationInv, MigrationTypes
<1>5. \A s \in Sources : There(s) => There(s)'
  BY <1>1, <1>2, <1>4 DEF There
<1>6. \A s \in Sources, i \in Ids :
          /\ Matches(i, s)' => Matches(i, s)
          /\ Existing(i) => Existing(i)'
          /\ LockFree(i)' <=> LockFree(i)
  BY <1>1, <1>2 DEF Matches, Existing, LockFree, Creates
<1>7. MigrationTypes'
  BY <1>1, <1>2 DEF MigrationInv, MigrationTypes
<1>8. OwnId' /\ Exclusive'
  BY <1>1, <1>6 DEF MigrationInv, OwnId, Exclusive, Creates
<1>9. \A s \in Sources, i \in Ids : Lost(i, s) => Lost(i, s)'
  BY <1>6 DEF Lost
<1> QED
  BY <1>1, <1>2, <1>3, <1>5, <1>7, <1>8, <1>9, RecordStep

LEMMA OtherKeeps ==
    ASSUME MigrationInv, NEW id \in Ids, OtherRecord(id) PROVE MigrationInv'
<1>1. /\ UNCHANGED <<plan, receipt, told, takenBack, job>> /\ LockFree(id)
      /\ made[id].stage = "none"
      /\ made' = [made EXCEPT ![id] = [of |-> 0, stage |-> "whole"]]
  BY DEF OtherRecord
<1>2. /\ made'[id].of = 0 /\ made'[id].stage = "whole"
      /\ \A i \in Ids \ {id} : made'[i] = made[i]
      /\ made' \in [Ids -> [of : Sources \cup {0, Nil}, stage : Stages]]
  BY <1>1 DEF MigrationInv, MigrationTypes, Stages
<1>3. \A n \in Movers : job[n] # Nil /\ job[n].at \in Creating =>
          plan[job[n].src] \in Ids \ {id}
  BY <1>1 DEF LockFree, Creates, MigrationInv, MigrationTypes, Working, Works, Creating
<1>4. \A s \in Sources : plan # Nil => plan[s] \in Ids
  BY DEF MigrationInv, MigrationTypes
<1>5. \A s \in Sources : There(s) => There(s)'
  BY <1>1, <1>2, <1>4 DEF There
<1>6. \A s \in Sources, i \in Ids :
          /\ Matches(i, s)' => Matches(i, s)
          /\ Existing(i) => Existing(i)'
          /\ LockFree(i)' <=> LockFree(i)
  BY <1>1, <1>2, NumSourcesAssumption DEF Matches, Existing, LockFree, Creates, Sources
<1>7. MigrationTypes'
  BY <1>1, <1>2 DEF MigrationInv, MigrationTypes
<1>8. OwnId' /\ Exclusive'
  BY <1>1, <1>6 DEF MigrationInv, OwnId, Exclusive, Creates
<1>9. \A s \in Sources, i \in Ids : Lost(i, s) => Lost(i, s)'
  BY <1>6 DEF Lost
<1> QED
  BY <1>1, <1>2, <1>3, <1>5, <1>7, <1>8, <1>9, RecordStep

LEMMA TakeIdKeeps ==
    ASSUME MigrationInv, NEW m \in Movers, TakeId(m) PROVE MigrationInv'
<1> DEFINE id == Destination(m)
<1>1. /\ job[m] # Nil /\ job[m].at = "create" /\ job[m] \in Jobs /\ Works(job[m], told)
      /\ UNCHANGED <<plan, receipt, told, takenBack>> /\ LockFree(id)
  BY DEF TakeId, JobAt, MigrationInv, MigrationTypes, Working
<1>2. plan # Nil /\ job[m].src \in Sources /\ job[m].seen # Nil /\ id = plan[job[m].src]
  BY <1>1 DEF Works, Destination
<1>3. id \in Ids
  BY <1>2 DEF MigrationInv, MigrationTypes
<1> HIDE DEF id
<1>4. CASE made[id].stage = "none"
  <2>1. /\ made' = [made EXCEPT ![id] = [of |-> job[m].src, stage |-> "directory"]]
        /\ JobStep(m, "revision")
    BY <1>4 DEF TakeId, id
  <2>2. PICK j \in Jobs : /\ job' = [job EXCEPT ![m] = j] /\ j # Nil
                          /\ j.at = "revision" /\ j.src = job[m].src /\ j.seen = job[m].seen
    BY <1>1, <2>1, StepIs DEF MigrationInv
  <2>3. /\ made'[id] = [of |-> job[m].src, stage |-> "directory"]
        /\ \A i \in Ids \ {id} : made'[i] = made[i]
        /\ made' \in [Ids -> [of : Sources \cup {0, Nil}, stage : Stages]]
    BY <1>2, <1>3, <2>1 DEF MigrationInv, MigrationTypes, Stages
  <2>4. /\ job'[m] = j /\ \A n \in Movers \ {m} : job'[n] = job[n]
        /\ job' \in [Movers -> Jobs \cup {Nil}]
    BY <2>2 DEF MigrationInv, MigrationTypes
  <2>5. MigrationTypes'
    BY <1>1, <2>3, <2>4 DEF MigrationInv, MigrationTypes
  <2>6. \A n \in Movers : job[n] # Nil /\ job[n].at \in Creating =>
            plan[job[n].src] \in Ids \ {id}
    BY <1>1 DEF LockFree, Creates, MigrationInv, MigrationTypes, Working, Works, Creating
  <2>7. \A s \in Sources : plan[s] \in Ids
    BY <1>2 DEF MigrationInv, MigrationTypes
  <2>8. \A s \in Sources : There(s) => There(s)'
    BY <1>1, <1>4, <2>3, <2>7 DEF There
  <2>9. Works(job[m], told)'
    <3>1. PICK T : T = told
      OBVIOUS
    <3>2. Works(j, T)'
      BY <1>1, <1>2, <2>2, <2>3, <2>8, <3>1 DEF Works, Creating, Progress
    <3> QED
      BY <1>1, <2>4, <3>1, <3>2 DEF Works
  <2>10. \A n \in Movers, i \in Ids : Creates(n, i)' <=> Creates(n, i) \/ (n = m /\ i = id)
    BY <1>1, <1>2, <2>2, <2>4 DEF Creates, Creating
  <2>11. Exclusive'
    BY <1>1, <2>10 DEF Exclusive, LockFree, MigrationInv
  <2>12. \A s \in Sources, i \in Ids :
            /\ Matches(i, s)' => Matches(i, s)
            /\ Existing(i) => Existing(i)' /\ i # id
    BY <1>3, <1>4, <2>3 DEF Matches, Existing
  <2>13. OwnId'
    BY <1>1, <2>12 DEF MigrationInv, OwnId
  <2>14. \A s \in Sources, i \in Ids : Lost(i, s) => Lost(i, s)'
    BY <2>10, <2>12 DEF Lost, LockFree
  <2>15. \A n \in Movers : \/ /\ job'[n] = job[n]
                              /\ job[n] # Nil /\ job[n].at \in Creating =>
                                    made'[plan[job[n].src]] = made[plan[job[n].src]]
                           \/ job'[n] # Nil => Works(job[n], told)'
    BY <2>3, <2>4, <2>6, <2>9
  <2> QED
    BY <1>1, <2>5, <2>8, <2>11, <2>13, <2>14, <2>15, RecordStep
<1>5. CASE made[id].stage # "none"
  <2>1. made' = made /\ JobStep(m, "failed")
    BY <1>5 DEF TakeId, id
  <2> QED
    BY <1>1, <2>1, OnlyStepKeeps
<1> QED
  BY <1>4, <1>5

\* A step of a creation, or its rollback.
LEMMA MakingKeeps ==
    ASSUME MigrationInv, NEW m \in Movers, job[m] # Nil, job[m].at \in Creating,
           NEW grown \in {"directory", "unlogged", "whole"},
           NEW at \in {"event", "linked", "failed"},
           at # "failed" => grown = Progress[at],
           at = "failed" => grown = "directory",
           at = "failed" /\ job[m].at = "linked" => Destination(m) \in takenBack',
           at # "failed" => job[m].at # "linked",
           takenBack \subseteq takenBack',
           Set(Destination(m), grown), JobStep(m, at),
           UNCHANGED <<plan, receipt, told>>
    PROVE  MigrationInv'
<1>1. PICK id : id = Destination(m)
  OBVIOUS
<1>2. job[m] \in Jobs /\ Works(job[m], told)
  BY DEF MigrationInv, MigrationTypes, Working
<1>3. /\ plan # Nil /\ job[m].src \in Sources /\ job[m].seen # Nil
      /\ id = plan[job[m].src] /\ job[m].src \notin told
      /\ made[id] = [of |-> job[m].src, stage |-> Progress[job[m].at]]
  BY <1>1, <1>2 DEF Works, Destination, Creating
<1>4. id \in Ids /\ Creates(m, id)
  BY <1>3 DEF MigrationInv, MigrationTypes, Creates
<1>5. PICK j \in Jobs : /\ job' = [job EXCEPT ![m] = j] /\ j # Nil
                        /\ j.at = at /\ j.src = job[m].src /\ j.seen = job[m].seen
  BY StepIs DEF MigrationInv
<1>6. /\ job'[m] = j /\ \A n \in Movers \ {m} : job'[n] = job[n]
      /\ job' \in [Movers -> Jobs \cup {Nil}]
  BY <1>5 DEF MigrationInv, MigrationTypes
<1>7. /\ made'[id] = [of |-> job[m].src, stage |-> grown]
      /\ \A i \in Ids \ {id} : made'[i] = made[i]
      /\ made' \in [Ids -> [of : Sources \cup {0, Nil}, stage : Stages]]
  <2>1. made' = [made EXCEPT ![id].stage = grown]
    BY <1>1 DEF Set
  <2> QED
    BY <1>3, <1>4, <2>1 DEF MigrationInv, MigrationTypes, Stages
<1>8. MigrationTypes'
  BY <1>6, <1>7 DEF MigrationInv, MigrationTypes
<1>9. \A n \in Movers \ {m} : job[n] # Nil /\ job[n].at \in Creating =>
          plan[job[n].src] \in Ids \ {id}
  BY <1>4 DEF Creates, Exclusive, MigrationInv, MigrationTypes, Working, Works, Creating
<1>10. \A s \in Sources : plan[s] \in Ids
  BY <1>3 DEF MigrationInv, MigrationTypes
<1>11. \A s \in Sources : There(s) => There(s)'
  <2> SUFFICES ASSUME NEW s \in Sources, There(s), plan[s] \notin takenBack'
               PROVE  made'[plan[s]].of = s /\ made'[plan[s]].stage \in {"whole", "revised"}
    BY DEF There
  <2>1. made[plan[s]].of = s /\ made[plan[s]].stage \in {"whole", "revised"}
    BY DEF There
  <2>2. CASE plan[s] = id
    <3>1. job[m].at = "linked"
      BY <1>3, <2>1, <2>2 DEF Creating, Progress
    <3> QED
      BY <1>1, <2>2, <3>1
  <2> QED
    BY <1>7, <1>10, <2>1, <2>2
<1>12. Works(job[m], told)'
  <2>1. PICK T : T = told
    OBVIOUS
  <2>2. Works(j, T)'
    BY <1>2, <1>3, <1>5, <1>7, <1>11, <2>1 DEF Works, Creating, Progress
  <2> QED
    BY <1>6, <2>1, <2>2 DEF Works
<1>13. \A n \in Movers, i \in Ids : Creates(n, i)' => Creates(n, i)
  BY <1>5, <1>6 DEF Creates
<1>14. Exclusive'
  BY <1>13 DEF Exclusive, MigrationInv
<1>15. OwnId'
  <2> SUFFICES ASSUME NEW s \in Sources, NEW i \in Ids, Matches(i, s)'
               PROVE  plan # Nil /\ plan[s] = i
    BY DEF OwnId
  <2>1. CASE i = id
    BY <1>3, <1>7, <2>1 DEF Matches
  <2>2. CASE i # id
    BY <1>7, <2>2 DEF Matches, MigrationInv, OwnId
  <2> QED
    BY <2>1, <2>2
<1>16. \A s \in Sources, i \in Ids : Lost(i, s) => Lost(i, s)'
  <2> SUFFICES ASSUME NEW s \in Sources, NEW i \in Ids, Lost(i, s)  PROVE Lost(i, s)'
    OBVIOUS
  <2>1. i # id
    BY <1>4 DEF Lost, LockFree
  <2> QED
    BY <1>7, <1>13, <2>1 DEF Lost, LockFree, Existing, Matches
<1>17. \A n \in Movers : \/ /\ job'[n] = job[n]
                            /\ job[n] # Nil /\ job[n].at \in Creating =>
                                  made'[plan[job[n].src]] = made[plan[job[n].src]]
                         \/ job'[n] # Nil => Works(job[n], told)'
  BY <1>6, <1>7, <1>9, <1>12
<1> QED
  BY <1>8, <1>11, <1>14, <1>15, <1>16, <1>17, RecordStep

LEMMA LinkKeeps ==
    ASSUME MigrationInv, NEW m \in Movers, LinkRevision(m) \/ LinkEvent(m)
    PROVE  MigrationInv'
<1>1. CASE LinkRevision(m)
  BY <1>1, MakingKeeps DEF LinkRevision, JobAt, Creating, Progress
<1>2. CASE LinkEvent(m)
  BY <1>2, MakingKeeps DEF LinkEvent, JobAt, Creating, Progress
<1> QED
  BY <1>1, <1>2

LEMMA FailKeeps ==
    ASSUME MigrationInv, NEW m \in Movers, Fail(m) PROVE MigrationInv'
<1>1. /\ job[m] # Nil /\ job[m].at \in Creating \cup {"look", "check"}
      /\ JobStep(m, "failed") /\ UNCHANGED <<plan, receipt, told>>
  BY DEF Fail
<1>2. CASE job[m].at \in Creating
  <2>1. PICK id : id = Destination(m)
    OBVIOUS
  <2>2. /\ made' = [made EXCEPT ![id] = RolledBack(id)]
        /\ takenBack' = takenBack \cup {i \in {id} : job[m].at = "linked"}
    BY <1>2, <2>1 DEF Fail
  <2>3. made' = [made EXCEPT ![id].stage = "directory"]
    BY <2>2 DEF RolledBack
  <2>4. Set(Destination(m), "directory")
    BY <2>1, <2>3 DEF Set
  <2> QED
    BY <1>1, <1>2, <2>1, <2>2, <2>4, MakingKeeps
<1>3. CASE job[m].at \notin Creating
  <2>1. UNCHANGED dest
    BY <1>3 DEF Fail
  <2> QED
    BY <1>1, <1>3, <2>1, OnlyStepKeeps DEF dest
<1> QED
  BY <1>2, <1>3

---------------------------------------------------------------------------
(* Migration: planning again *)

\* An ID that a plan can give to a source.
Available(f, s, id) == (\A t \in 1..s - 1 : f[t] # id) /\ Usable(id, s)

LEMMA FirstAvailable ==
    ASSUME NEW f, IsPlan(f), NEW s \in Sources
    PROVE  \E n \in 1..NumSources + 1 :
              /\ f[s] = Candidates[s][n] /\ Available(f, s, Candidates[s][n])
              /\ \A k \in 1..n - 1 : ~Available(f, s, Candidates[s][k])
<1>1. DOMAIN Candidates[s] = 1..NumSources + 1
  BY CandidatesAssumption
<1> QED
  BY <1>1 DEF IsPlan, Available

\* A source keeps its ID in the next plan unless another Record has it or an
\* earlier source has got it.  By induction on the source.
LEMMA Displaced ==
    ASSUME MigrationInv, plan # Nil, NEW f, IsPlan(f)
    PROVE  \A s \in Sources : \/ f[s] = plan[s]
                              \/ ~Usable(plan[s], s)
                              \/ \E t \in 1..s - 1 : f[t] = plan[s]
<1> DEFINE Kept(s) == \/ f[s] = plan[s]
                      \/ ~Usable(plan[s], s)
                      \/ \E t \in 1..s - 1 : f[t] = plan[s]
           bad == {s \in Sources : ~Kept(s)}
<1>1. SUFFICES bad = {}
  OBVIOUS
<1>2. SUFFICES ASSUME bad # {} PROVE FALSE
  OBVIOUS
<1>3. bad \in SUBSET Nat
  BY NumSourcesAssumption DEF Sources
<1>4. PICK s \in bad : \A t \in bad : s <= t
  <2> HIDE DEF bad
  <2> QED
    BY <1>2, <1>3, LeastNumber
<1>5. s \in Sources /\ s \in Nat /\ ~Kept(s)
  BY <1>3, <1>4
<1>6. \A t \in 1..s - 1 : t \in Sources /\ Kept(t)
  <2>1. \A t \in 1..s - 1 : t \in Sources /\ t < s
    BY <1>5, NumSourcesAssumption DEF Sources
  <2> QED
    BY <1>3, <1>4, <2>1
<1>7. Available(f, s, plan[s])
  BY <1>5 DEF Available
<1>8. PICK n \in 1..NumSources + 1 :
          /\ plan[s] = Candidates[s][n]
          /\ \A k \in 1..n - 1 :
                \/ \E t \in 1..s - 1 : plan[t] = Candidates[s][k]
                \/ Lost(Candidates[s][k], s)
  BY <1>5 DEF MigrationInv, Chosen
<1>9. PICK l \in 1..NumSources + 1 :
          /\ f[s] = Candidates[s][l] /\ Available(f, s, Candidates[s][l])
          /\ \A k \in 1..l - 1 : ~Available(f, s, Candidates[s][k])
  BY <1>5, FirstAvailable
<1>10. l < n
  <2>1. ~(n < l)
    BY <1>7, <1>8, <1>9
  <2>2. n # l
    BY <1>5, <1>8, <1>9
  <2> QED
    BY <2>1, <2>2
<1>11. ~Lost(Candidates[s][l], s)
  BY <1>9 DEF Available, Lost, Usable
<1>12. PICK t \in 1..s - 1 : plan[t] = Candidates[s][l]
  BY <1>8, <1>10, <1>11
<1>13. f[t] # f[s] /\ \A u \in 1..t - 1 : f[u] # f[s]
  <2>1. \A u \in 1..t - 1 : u \in 1..s - 1
    BY <1>5
  <2> QED
    BY <1>9, <2>1 DEF Available
<1>14. Existing(f[s])
  BY <1>6, <1>9, <1>12, <1>13 DEF Usable
<1>15. Matches(f[s], s) /\ f[s] \in Ids
  BY <1>5, <1>9, <1>14, CandidateIsId DEF Available, Usable
<1>16. plan[s] = f[s]
  BY <1>5, <1>15 DEF MigrationInv, OwnId
<1> QED
  BY <1>5, <1>16

LEMMA MakePlanKeeps == ASSUME MigrationInv, MakePlan PROVE MigrationInv'
<1>1. PICK f \in [Sources -> Ids] : IsPlan(f) /\ plan' = f
  BY DEF MakePlan
<1>2. /\ \A m \in Movers : job[m] = Nil
      /\ UNCHANGED <<made, takenBack, job>> /\ receipt' = Nil /\ told' = {}
  BY DEF MakePlan, Idle, dest
<1>3. plan' # Nil
  BY <1>1, NilAssumption
<1>4. MigrationTypes'
  BY <1>1, <1>2 DEF MigrationInv, MigrationTypes, Copies
<1>5. Working' /\ Exclusive' /\ ReceiptTrue' /\ VerifiedEntryKept'
  BY <1>2 DEF Working, Exclusive, Creates, ReceiptTrue, VerifiedEntryKept
<1>6. \A s \in Sources, i \in Ids : (Matches(i, s)' <=> Matches(i, s)) /\ (Existing(i)' <=> Existing(i))
  BY <1>2 DEF Matches, Existing
<1>7. \A i \in Ids : LockFree(i)'
  BY <1>2 DEF LockFree, Creates
<1>8. OwnId'
  <2> SUFFICES ASSUME NEW s \in Sources, NEW i \in Ids, Matches(i, s)
               PROVE  f[s] = i
    BY <1>1, <1>3, <1>6 DEF OwnId
  <2>1. plan # Nil /\ plan[s] = i
    BY DEF MigrationInv, OwnId
  <2>2. Existing(i) /\ \A t \in 1..s - 1 : t \in Sources /\ t # s
    BY NumSourcesAssumption DEF Matches, Existing, Sources
  <2>3. \A t \in 1..s - 1 : Usable(f[t], t)
    BY <1>1, <2>2, FirstAvailable DEF Available
  <2>4. \A t \in 1..s - 1 : f[t] # i
    BY <2>2, <2>3 DEF Usable, Matches
  <2> QED
    BY <1>1, <2>1, <2>4, Displaced DEF Usable
<1>9. Chosen'
  <2> SUFFICES ASSUME NEW s \in Sources
               PROVE  /\ \A t \in 1..s - 1 : f[t] # f[s]
                      /\ \E n \in 1..NumSources + 1 :
                            /\ f[s] = Candidates[s][n]
                            /\ \A k \in 1..n - 1 :
                                  \/ \E t \in 1..s - 1 : f[t] = Candidates[s][k]
                                  \/ Lost(Candidates[s][k], s)'
    BY <1>1 DEF Chosen
  <2>1. PICK n \in 1..NumSources + 1 :
              /\ f[s] = Candidates[s][n] /\ Available(f, s, Candidates[s][n])
              /\ \A k \in 1..n - 1 : ~Available(f, s, Candidates[s][k])
    BY <1>1, FirstAvailable
  <2>2. ASSUME NEW k \in 1..n - 1
        PROVE  \/ \E t \in 1..s - 1 : f[t] = Candidates[s][k]
               \/ Lost(Candidates[s][k], s)'
    <3>1. Candidates[s][k] \in Ids
      BY BelowIsCandidate, CandidateIsId
    <3>2. PICK i \in Ids : i = Candidates[s][k]
      BY <3>1
    <3>3. (\E t \in 1..s - 1 : f[t] = i) \/ ~Usable(i, s)
      BY <2>1, <3>2 DEF Available
    <3>4. ~Usable(i, s) => Lost(i, s)'
      BY <1>6, <1>7 DEF Lost, Usable
    <3> QED
      BY <3>2, <3>3, <3>4
  <2> QED
    BY <2>1, <2>2 DEF Available
<1> QED
  BY <1>4, <1>5, <1>8, <1>9 DEF MigrationInv

LEMMA ReusePlanKeeps == ASSUME MigrationInv, ReusePlan PROVE MigrationInv'
<1>1. /\ \A m \in Movers : job[m] = Nil
      /\ UNCHANGED <<plan, made, takenBack, job>> /\ receipt' = Nil /\ told' = {}
  BY DEF ReusePlan, Idle, dest
<1>2. MigrationTypes'
  BY <1>1 DEF MigrationInv, MigrationTypes, Copies
<1>3. Working' /\ Exclusive' /\ ReceiptTrue' /\ VerifiedEntryKept'
  BY <1>1 DEF Working, Exclusive, Creates, ReceiptTrue, VerifiedEntryKept
<1>4. OwnId'
  BY <1>1, ThereSame DEF MigrationInv, OwnId
<1>5. \A s \in Sources, id \in Ids : Lost(id, s) => Lost(id, s)'
  BY <1>1, ThereSame DEF Lost, LockFree, Creates
<1> QED
  BY <1>1, <1>2, <1>3, <1>4, <1>5, ChosenStays DEF MigrationInv

---------------------------------------------------------------------------

LEMMA MigrationStarts == MigrationInit => MigrationInv
<1> SUFFICES ASSUME MigrationInit PROVE MigrationInv
  OBVIOUS
<1>1. MigrationTypes
  BY DEF MigrationInit, MigrationTypes, Copies, Stages
<1>2. Working /\ Exclusive /\ Chosen /\ ReceiptTrue /\ VerifiedEntryKept
  BY DEF MigrationInit, Working, Exclusive, Creates, Chosen, ReceiptTrue, VerifiedEntryKept
<1>3. OwnId
  BY DEF MigrationInit, OwnId, Matches
<1> QED
  BY <1>1, <1>2, <1>3 DEF MigrationInv

LEMMA MigrationKeeps == MigrationInv /\ [MigrationNext]_migrationVars => MigrationInv'
<1> SUFFICES ASSUME MigrationInv, [MigrationNext]_migrationVars PROVE MigrationInv'
  OBVIOUS
<1>1. CASE MakePlan \/ ReusePlan
  BY <1>1, MakePlanKeeps, ReusePlanKeeps
<1>2. ASSUME \/ UNCHANGED migrationVars
             \/ UNCHANGED <<plan, receipt, told, dest, job>>
      PROVE  MigrationInv'
  <2>1. UNCHANGED <<plan, receipt, told, made, takenBack, job>>
    BY <1>2 DEF migrationVars, dest
  <2>2. MigrationTypes' /\ Exclusive' /\ OwnId'
    BY <2>1, ThereSame DEF MigrationInv, MigrationTypes, Exclusive, Creates, OwnId
  <2>3. \A s \in Sources, id \in Ids : Lost(id, s) => Lost(id, s)'
    BY <2>1, ThereSame DEF Lost, LockFree, Creates
  <2>4. \A s \in Sources : There(s) => There(s)'
    BY <2>1, ThereSame
  <2> QED
    BY <2>1, <2>2, <2>3, <2>4, RecordStep
<1>3. CASE \E s \in Sources : Edit(s)
  BY <1>2, <1>3 DEF Edit
<1>4. CASE \E id \in Ids : ReviseRecord(id) \/ OtherRecord(id)
  BY <1>4, ReviseKeeps, OtherKeeps
<1>5. ASSUME NEW m \in Movers, \/ Begin(m) \/ Apply(m) \/ VerifyRead(m) \/ VerifyWrite(m)
                               \/ \E s \in Sources : VerifyItem(m, s)
      PROVE  MigrationInv'
  BY <1>5, BeginKeeps, VerifyReadKeeps, VerifyWriteKeeps, VerifyItemKeeps, ReadStatusKeeps,
     CreateStatusKeeps, MarkCopyingKeeps, LookKeeps, TakeIdKeeps, LinkKeeps, CreatedKeeps,
     CheckKeeps, WriteOutcomeKeeps, FailKeeps, KillKeeps DEF Apply
<1> QED
  BY <1>1, <1>2, <1>3, <1>4, <1>5 DEF MigrationNext

LEMMA MigrationAlways == MigrationSpec => []MigrationInv
BY MigrationStarts, MigrationKeeps, PTL DEF MigrationSpec

\* What a receipt calls verified is there, unless the Record was taken back, and the
\* entry stays, for any sources, commands, plans and failures.
THEOREM VerifiedSafe == MigrationSpec => []VerifiedHolds
<1>1. MigrationInv => VerifiedHolds
  BY DEF MigrationInv, VerifiedHolds, ReceiptTrue, VerifiedIsThere, There
<1> QED
  BY <1>1, MigrationAlways, PTL

\* No source has two Records of its bytes, however often the sources are planned.
THEOREM OneRecordSafe == MigrationSpec => []OneRecordPerSource
<1>1. MigrationInv => OneRecordPerSource
  <2> SUFFICES ASSUME MigrationInv, NEW s \in Sources
               PROVE  Cardinality({id \in Ids : Matches(id, s)}) <= 1
    BY DEF OneRecordPerSource
  <2> DEFINE own == {id \in Ids : Matches(id, s)}
  <2>1. own \subseteq {plan[s]}
    BY DEF MigrationInv, OwnId
  <2> HIDE DEF own
  <2>2. IsFiniteSet({plan[s]}) /\ Cardinality({plan[s]}) = 1
    BY FS_Singleton
  <2>3. Cardinality(own) <= Cardinality({plan[s]})
    BY <2>1, <2>2, FS_Subset
  <2> QED
    BY <2>2, <2>3 DEF own
<1> QED
  BY <1>1, MigrationAlways, PTL

---------------------------------------------------------------------------
(* WholeBoard                                                              *)

Acknowledged == {w \in Writers : writer[w].at = "acknowledged"}

\* Who has a task file on the board for certain, and who a ledger entry as well: those
\* that wrote it, but not after a tool's last look.
Sure == {w \in Writers \ exposed : writer[w].at \in {"halfway", "acknowledged"}}
Due == Sure \cap Acknowledged

\* Tasks and ledger that make a whole board with all of it.
Kept(mine, due, t, l) ==
    /\ t # None /\ mine \subseteq t.has
    /\ t.form = "markdown" => l # None /\ l.by = t.by /\ due \subseteq l.has

BoardTypes ==
    /\ tasks \in Directories \cup {None} /\ ledger \in Directories \cup {None}
    /\ writer \in [Writers -> [at : {"new", "admitted", "prepared", "halfway",
                                     "acknowledged", "refused"},
                               tasks : 0..MaxRuns, ledger : 0..MaxRuns]]
    /\ git \in [tasks : Directories \cup {None}, ledger : Directories \cup {None},
                cutover : BOOLEAN]
    /\ tool \in Tools \cup {None}
    /\ runs \in 0..MaxRuns
    /\ exposed \subseteq Writers

\* A ledger speaks of acknowledged mutations only.
Truthful(dir) == dir # None => dir.has \subseteq Acknowledged
LedgersSpeakTrue ==
    Truthful(ledger) /\ \A t \in {tool} \ {None} : Truthful(t.copy.ledger) /\ Truthful(t.saved.ledger)

\* The cutover commit has no mutation but those made while it was prepared.
CutoverIsBare ==
    git.cutover => git.tasks # None /\ git.tasks.form = "markdown" /\ git.tasks.has \subseteq exposed

\* The board is as it was before the tool, so far.
Untouched(t) ==
    t.put = {} /\ t.saved = [tasks |-> None, ledger |-> None] /\ Kept(Sure, Due, tasks, ledger)

\* A merge, before its last look: what the copies may lack, the look will find.
MergeCopying(t) ==
    /\ t.at \in {"copy tasks", "copy ledger", "compare"} /\ ~t.past /\ Untouched(t)
    /\ tasks.form = "markdown" /\ t.seen.ledger # None
    /\ t.seen.ledger.has \subseteq ledger.has
    /\ t.at # "copy tasks" =>
          /\ t.copy.tasks # None /\ t.copy.tasks.form = "markdown" /\ t.copy.tasks.by = runs
          /\ Due \subseteq t.copy.tasks.has \cup (Writers \ t.seen.ledger.has)
    /\ t.at = "compare" =>
          /\ t.copy.ledger # None /\ t.copy.ledger.by = runs
          /\ t.seen.ledger.has \subseteq t.copy.ledger.has

\* After it: the old board and the new one, each in parts.
MergeSwapping(t) ==
    /\ t.past
    /\ \/ /\ t.at = "save tasks" /\ Untouched(t) /\ tasks.form = "markdown"
          /\ t.copy.tasks.form = "markdown" /\ Kept(Sure, Due, t.copy.tasks, t.copy.ledger)
       \/ /\ t.at = "put tasks" /\ t.put = {} /\ t.saved.ledger = None
          /\ t.saved.tasks.form = "markdown" /\ Kept(Sure, Due, t.saved.tasks, ledger)
          /\ t.copy.tasks.form = "markdown" /\ Kept(Sure, Due, t.copy.tasks, t.copy.ledger)
       \/ /\ t.at = "save ledger" /\ t.put = {"tasks"} /\ t.saved.ledger = None
          /\ t.saved.tasks.form = "markdown" /\ Kept(Sure, Due, t.saved.tasks, ledger)
          /\ tasks.form = "markdown" /\ Kept(Sure, Due, tasks, t.copy.ledger)
       \/ /\ t.at = "put ledger" /\ t.put = {"tasks"} /\ t.saved.ledger # None
          /\ t.saved.tasks.form = "markdown" /\ Kept(Sure, Due, t.saved.tasks, t.saved.ledger)
          /\ tasks.form = "markdown" /\ Kept(Sure, Due, tasks, t.copy.ledger)
       \/ /\ t.at = "verify" /\ t.put = {"tasks", "ledger"}
          /\ Kept(Sure, Due, t.saved.tasks, t.saved.ledger) /\ Kept(Sure, Due, tasks, ledger)

\* A conversion past its look has nobody's writes to keep.
ConvertSwapping(t) ==
    /\ t.past /\ Sure = {}
    /\ t.copy = [tasks |-> NoWrites("markdown"), ledger |-> NoWrites("markdown")]
    /\ \/ t.at = "save" /\ Untouched(t) /\ tasks.form = "legacy"
       \/ /\ t.saved.tasks # None /\ t.saved.tasks.form = "legacy"
          /\ \/ t.at = "save ledger" /\ t.put = {} /\ t.saved.ledger = None
             \/ t.at = "put tasks" /\ t.put = {}
             \/ t.at = "put ledger" /\ t.put = {"tasks"}
             \/ t.at \in {"doctor", "commit"} /\ t.put = {"tasks", "ledger"}
          /\ t.at \in {"put ledger", "doctor", "commit"} =>
                /\ tasks # None /\ tasks.form = "markdown" /\ tasks.by = runs
                /\ tasks.has \subseteq exposed
          /\ t.at \in {"doctor", "commit"} => ledger # None /\ ledger.by = runs

\* A rollback has all of it in its export.
RollbackSwapping(t) ==
    /\ t.past
    /\ t.copy.tasks # None /\ t.copy.tasks.form = "legacy" /\ Sure \subseteq t.copy.tasks.has
    /\ \/ t.at = "archive" /\ Untouched(t)
       \/ /\ t.at = "remove" /\ t.put = {} /\ Kept(Sure, Due, tasks, ledger)
          /\ Kept(Sure, Due, t.saved.tasks, t.saved.ledger)
       \/ /\ t.at = "put" /\ t.put = {"tasks"} /\ tasks # None
          /\ Kept(Sure, Due, t.saved.tasks, t.saved.ledger)
       \/ /\ t.at \in {"probe", "commit"} /\ t.put = {"tasks", "ledger"}
          /\ Kept(Sure, Due, t.saved.tasks, t.saved.ledger)
          /\ tasks # None /\ tasks.form = "legacy" /\ Sure \subseteq tasks.has

Sound(t) ==
    \/ t.kind = "merge" /\ (MergeCopying(t) \/ MergeSwapping(t))
    \/ /\ t.kind = "convert"
       /\ \/ t.at = "preflight" /\ ~t.past /\ Untouched(t) /\ tasks.form = "legacy"
          \/ ConvertSwapping(t)
    \/ /\ t.kind = "immediate" /\ t.at = "revert" /\ ~t.past /\ Untouched(t)
       /\ git.cutover /\ tasks.form = "markdown"
    \/ /\ t.kind = "rollback"
       /\ \/ t.at \in {"freeze", "export"} /\ ~t.past /\ Untouched(t) /\ tasks.form = "markdown"
          \/ RollbackSwapping(t)

\* As long as no tool was stopped in the middle.
Good ==
    /\ LedgersSpeakTrue /\ CutoverIsBare
    /\ IF tool = None THEN Kept(Sure, Due, tasks, ledger) ELSE Sound(tool)

WholeInv == BoardTypes /\ (broken # "no" => tool = None) /\ (broken = "no" => Good)

LEMMA NoneIs ==
    /\ None \notin Directories /\ None \notin Tools /\ None \notin Writers
    /\ Creators \subseteq Writers /\ Updaters \subseteq Writers
    /\ 0 \in 0..MaxRuns /\ MaxRuns \in Nat
BY NoneAssumption, WritersAssumption, RunsAssumption DEF Writers

\* A directory with one more write, or one less.
LEMMA WithIs ==
    ASSUME NEW d \in Directories \cup {None}, NEW w \in Writers
    PROVE  /\ With(d, w) \in Directories
           /\ w \in With(d, w).has
           /\ d # None => /\ With(d, w).form = d.form /\ With(d, w).by = d.by
                          /\ With(d, w).has = d.has \cup {w}
           /\ d = None => With(d, w).has = {w}
           /\ d # None => /\ [d EXCEPT !.has = @ \ {w}] \in Directories
                          /\ [d EXCEPT !.has = @ \ {w}].form = d.form
                          /\ [d EXCEPT !.has = @ \ {w}].by = d.by
                          /\ [d EXCEPT !.has = @ \ {w}].has = d.has \ {w}
BY NoneIs DEF With, Directories

LEMMA NoWritesIs ==
    ASSUME runs \in 0..MaxRuns, NEW form \in {"legacy", "markdown"}
    PROVE  /\ NoWrites(form) \in Directories
           /\ NoWrites(form).form = form /\ NoWrites(form).by = runs /\ NoWrites(form).has = {}
           /\ \A S \in SUBSET Writers :
                 /\ [NoWrites(form) EXCEPT !.has = S] \in Directories
                 /\ [NoWrites(form) EXCEPT !.has = S].form = form
                 /\ [NoWrites(form) EXCEPT !.has = S].has = S
BY NoneIs DEF NoWrites, Directories

---------------------------------------------------------------------------
(* WholeBoard: mutations *)

LEMMA GotoIs ==
    ASSUME BoardTypes, NEW w \in Writers,
           NEW s \in {"new", "admitted", "prepared", "halfway", "acknowledged", "refused"}, Goto(w, s)
    PROVE  /\ writer' \in [Writers -> [at : {"new", "admitted", "prepared", "halfway",
                                             "acknowledged", "refused"},
                                       tasks : 0..MaxRuns, ledger : 0..MaxRuns]]
           /\ writer'[w].at = s
           /\ \A v \in Writers \ {w} : writer'[v] = writer[v]
BY DEF BoardTypes, Goto

\* What a step of a mutation that writes leaves, and what it adds.
Writes(w) ==
    /\ tasks # None => /\ tasks' # None
                       /\ tasks'.form = tasks.form /\ tasks'.by = tasks.by
                       /\ tasks.has \ {w} \subseteq tasks'.has
                       /\ tasks'.has \subseteq tasks.has \cup {w}
    /\ ledger # None => /\ ledger' # None
                        /\ ledger'.form = ledger.form /\ ledger'.by = ledger.by
                        /\ ledger.has \subseteq ledger'.has
    /\ Truthful(ledger) => Truthful(ledger)'
    /\ Acknowledged \subseteq Acknowledged' /\ Acknowledged' \subseteq Acknowledged \cup {w}
    /\ Sure' \subseteq Sure \cup {w} /\ Due' \subseteq Due \cup {w}
    /\ w \in Due' => w \notin Due /\ ledger' # None /\ w \in ledger'.has
                     /\ (ledger # None => w \notin ledger.has)
    /\ w \in Sure' => w \in Sure \/ (tasks' # None /\ w \in tasks'.has)
    /\ w \in Sure' \cap Sure => tasks' = tasks
    /\ exposed \subseteq exposed'
    /\ PastLastLook => w \in exposed'

LEMMA WriteTaskIs ==
    ASSUME BoardTypes, NEW w \in Writers, WriteTask(w)
    PROVE  BoardTypes' /\ Writes(w)
<1>1. /\ writer[w].at = "prepared"
      /\ tasks' = With(tasks, w)
      /\ UNCHANGED <<ledger, frozen, lock, git, tool, runs, broken>>
      /\ exposed' = IF PastLastLook THEN exposed \cup {w} ELSE exposed
  BY DEF WriteTask, Expose
<1>2. /\ writer' \in [Writers -> [at : {"new", "admitted", "prepared", "halfway",
                                        "acknowledged", "refused"},
                                  tasks : 0..MaxRuns, ledger : 0..MaxRuns]]
      /\ writer'[w].at = "halfway"
      /\ \A v \in Writers \ {w} : writer'[v] = writer[v]
  BY GotoIs DEF WriteTask
<1>3. /\ tasks' \in Directories /\ w \in tasks'.has
      /\ tasks # None => /\ tasks'.form = tasks.form /\ tasks'.by = tasks.by
                         /\ tasks'.has = tasks.has \cup {w}
  BY <1>1, WithIs DEF BoardTypes
<1>4. BoardTypes'
  BY <1>1, <1>2, <1>3 DEF BoardTypes
<1>5. /\ Acknowledged' = Acknowledged /\ w \notin Sure /\ Sure' \subseteq Sure \cup {w}
      /\ w \notin Acknowledged
  BY <1>1, <1>2 DEF Acknowledged, Sure
<1>6. Due' \subseteq Due /\ w \notin Due'
  BY <1>5 DEF Due
<1>7. Truthful(ledger) => Truthful(ledger)'
  BY <1>1, <1>5 DEF Truthful
<1> QED
  BY <1>1, <1>3, <1>4, <1>5, <1>6, <1>7, NoneIs DEF Writes

LEMMA WriteLedgerIs ==
    ASSUME BoardTypes, NEW w \in Writers, WriteLedger(w)
    PROVE  BoardTypes' /\ Writes(w)
<1>1. /\ writer[w].at = "halfway"
      /\ ledger' = With(ledger, w) /\ (ledger # None => w \notin ledger.has)
      /\ UNCHANGED <<tasks, frozen, git, tool, runs, broken>>
      /\ exposed' = IF PastLastLook THEN exposed \cup {w} ELSE exposed
  BY DEF WriteLedger, Expose, Unchanged
<1>2. /\ writer' \in [Writers -> [at : {"new", "admitted", "prepared", "halfway",
                                        "acknowledged", "refused"},
                                  tasks : 0..MaxRuns, ledger : 0..MaxRuns]]
      /\ writer'[w].at = "acknowledged"
      /\ \A v \in Writers \ {w} : writer'[v] = writer[v]
  BY GotoIs DEF WriteLedger
<1>3. /\ ledger' \in Directories /\ w \in ledger'.has
      /\ ledger # None => /\ ledger'.form = ledger.form /\ ledger'.by = ledger.by
                          /\ ledger'.has = ledger.has \cup {w}
      /\ ledger = None => ledger'.has = {w}
  BY <1>1, WithIs DEF BoardTypes
<1>4. BoardTypes'
  BY <1>1, <1>2, <1>3 DEF BoardTypes
<1>5. /\ Acknowledged' = Acknowledged \cup {w} /\ Sure' \subseteq Sure
      /\ w \notin Acknowledged
  BY <1>1, <1>2 DEF Acknowledged, Sure
<1>6. Due' \subseteq Due \cup {w} /\ w \notin Due
  BY <1>5 DEF Due
<1>7. Truthful(ledger) => Truthful(ledger)'
  BY <1>3, <1>5 DEF Truthful
<1> QED
  BY <1>1, <1>3, <1>4, <1>5, <1>6, <1>7, NoneIs DEF Writes

LEMMA RefuseIs ==
    ASSUME BoardTypes, NEW w \in Writers, Refuse(w)
    PROVE  BoardTypes' /\ Writes(w)
<1>1. /\ writer[w].at \in {"prepared", "halfway"}
      /\ UNCHANGED <<ledger, frozen, git, tool, runs, broken>>
      /\ exposed' = IF PastLastLook THEN exposed \cup {w} ELSE exposed
      /\ tasks' = tasks \/ (tasks # None /\ tasks' = [tasks EXCEPT !.has = @ \ {w}])
  BY DEF Refuse, Expose, In
<1>2. /\ writer' \in [Writers -> [at : {"new", "admitted", "prepared", "halfway",
                                        "acknowledged", "refused"},
                                  tasks : 0..MaxRuns, ledger : 0..MaxRuns]]
      /\ writer'[w].at = "refused"
      /\ \A v \in Writers \ {w} : writer'[v] = writer[v]
  BY GotoIs DEF Refuse
<1>3. /\ tasks' \in Directories \cup {None}
      /\ tasks # None => /\ tasks' # None /\ tasks'.form = tasks.form /\ tasks'.by = tasks.by
                         /\ tasks.has \ {w} \subseteq tasks'.has /\ tasks'.has \subseteq tasks.has
  <2>1. CASE tasks' = tasks
    BY <2>1 DEF BoardTypes
  <2>2. CASE tasks # None /\ tasks' = [tasks EXCEPT !.has = @ \ {w}]
    <3>1. tasks \in Directories \cup {None}
      BY DEF BoardTypes
    <3>2. /\ tasks' \in Directories /\ tasks'.form = tasks.form /\ tasks'.by = tasks.by
          /\ tasks'.has = tasks.has \ {w}
      BY <2>2, <3>1, WithIs
    <3> QED
      BY <3>2, NoneIs
  <2> QED
    BY <1>1, <2>1, <2>2
<1>4. BoardTypes'
  BY <1>1, <1>2, <1>3 DEF BoardTypes
<1>5. /\ Acknowledged' = Acknowledged /\ Sure' \subseteq Sure /\ w \notin Sure'
      /\ w \notin Acknowledged
  BY <1>1, <1>2 DEF Acknowledged, Sure
<1>6. Due' \subseteq Due /\ w \notin Due'
  BY <1>5 DEF Due
<1>7. Truthful(ledger) => Truthful(ledger)'
  BY <1>1, <1>5 DEF Truthful
<1> QED
  BY <1>1, <1>3, <1>4, <1>5, <1>6, <1>7 DEF Writes

\* A board that the tool is not swapping stays whole.
LEMMA WritesKeep ==
    ASSUME NEW w \in Writers, Writes(w), Kept(Sure, Due, tasks, ledger)
    PROVE  /\ Kept(Sure, Due, tasks, ledger)'
           /\ tasks'.form = tasks.form /\ tasks'.by = tasks.by
<1>1. /\ tasks' # None /\ tasks'.form = tasks.form /\ tasks'.by = tasks.by
      /\ tasks.has \ {w} \subseteq tasks'.has /\ Sure \subseteq tasks.has
  BY DEF Writes, Kept
<1>2. Sure' \subseteq tasks'.has
  BY <1>1 DEF Writes
<1>3. ASSUME tasks.form = "markdown"
      PROVE  ledger' # None /\ ledger'.by = tasks'.by /\ Due' \subseteq ledger'.has
  BY <1>1, <1>3 DEF Writes, Kept
<1> QED
  BY <1>1, <1>2, <1>3 DEF Kept

\* After a tool's last look nothing more is to be kept, and what the tool has is.
LEMMA PastWrites ==
    ASSUME NEW w \in Writers, Writes(w), PastLastLook
    PROVE  /\ Sure' \subseteq Sure /\ Due' \subseteq Due /\ w \notin Sure' /\ w \notin Due'
           /\ \A t, l : Kept(Sure, Due, t, l) => Kept(Sure', Due', t, l)
           /\ tasks # None => Sure' \subseteq tasks'.has \/ ~ Sure \subseteq tasks.has
           /\ \A l : Kept(Sure, Due, tasks, l) => Kept(Sure', Due', tasks', l)
           /\ \A t : t.form = "markdown" /\ Kept(Sure, Due, t, ledger) => Kept(Sure', Due', t, ledger')
<1>1. w \notin Sure' /\ w \notin Due'
  BY DEF Writes, Sure, Due
<1>2. Sure' \subseteq Sure /\ Due' \subseteq Due
  BY <1>1 DEF Writes
<1>3. \A t, l : Kept(Sure, Due, t, l) => Kept(Sure', Due', t, l)
  BY <1>2 DEF Kept
<1>4. tasks # None => Sure' \subseteq tasks'.has \/ ~ Sure \subseteq tasks.has
  BY <1>1, <1>2 DEF Writes
<1>5. \A l : Kept(Sure, Due, tasks, l) => Kept(Sure', Due', tasks', l)
  <2>1. ASSUME NEW l, Kept(Sure, Due, tasks, l)
        PROVE  Kept(Sure', Due', tasks', l)
    <3>1. /\ tasks # None /\ tasks' # None /\ tasks'.form = tasks.form /\ tasks'.by = tasks.by
          /\ Sure \subseteq tasks.has
      BY <2>1 DEF Kept, Writes
    <3>2. Sure' \subseteq tasks'.has
      BY <1>4, <3>1
    <3> QED
      BY <1>2, <2>1, <3>1, <3>2 DEF Kept
  <2> QED
    BY <2>1
<1>6. \A t : t.form = "markdown" /\ Kept(Sure, Due, t, ledger) => Kept(Sure', Due', t, ledger')
  BY <1>2 DEF Kept, Writes
<1> QED
  BY <1>1, <1>2, <1>3, <1>4, <1>5, <1>6

\* Steps of mutations that write nothing, and the operator's commit.
LEMMA QuietIs ==
    ASSUME BoardTypes, Commit \/ \E w \in Writers : PassFreeze(w) \/ Prepare(w)
    PROVE  /\ BoardTypes'
           /\ UNCHANGED <<tasks, ledger, tool, runs, exposed, broken>>
           /\ Sure' = Sure /\ Acknowledged' = Acknowledged /\ Due' = Due
           /\ git' = git \/ (tool = None /\ ~git'.cutover)
<1>1. CASE Commit
  <2>1. /\ UNCHANGED <<tasks, ledger, writer, tool, runs, exposed, broken>>
        /\ git' = [tasks |-> tasks, ledger |-> ledger, cutover |-> FALSE] /\ tool = None
    BY <1>1 DEF Commit
  <2>2. Sure' = Sure /\ Acknowledged' = Acknowledged
    BY <2>1 DEF Sure, Acknowledged
  <2> QED
    BY <2>1, <2>2 DEF BoardTypes, Due
<1>2. ASSUME NEW w \in Writers, PassFreeze(w) \/ Prepare(w)
      PROVE  /\ BoardTypes'
             /\ UNCHANGED <<tasks, ledger, git, tool, runs, exposed, broken>>
             /\ Sure' = Sure /\ Acknowledged' = Acknowledged
  <2>1. UNCHANGED <<tasks, ledger, git, tool, runs, exposed, broken>>
    BY <1>2 DEF PassFreeze, Prepare
  <2>2. /\ writer[w].at \in {"new", "admitted"}
        /\ writer' \in [Writers -> [at : {"new", "admitted", "prepared", "halfway",
                                          "acknowledged", "refused"},
                                    tasks : 0..MaxRuns, ledger : 0..MaxRuns]]
        /\ writer'[w].at \in {"admitted", "prepared"}
        /\ \A v \in Writers \ {w} : writer'[v] = writer[v]
    <3>1. CASE PassFreeze(w)
      BY <3>1, GotoIs DEF PassFreeze
    <3>2. CASE Prepare(w)
      <4>1. Rev(tasks, w) \in 0..MaxRuns /\ Rev(ledger, w) \in 0..MaxRuns
        BY NoneIs DEF BoardTypes, Rev, Directories
      <4> QED
        BY <3>2, <4>1 DEF Prepare, BoardTypes
    <3> QED
      BY <1>2, <3>1, <3>2
  <2>3. Sure' = Sure /\ Acknowledged' = Acknowledged
    BY <2>1, <2>2 DEF Sure, Acknowledged
  <2> QED
    BY <2>1, <2>2, <2>3 DEF BoardTypes
<1> QED
  BY <1>1, <1>2 DEF Due

LEMMA QuietKeeps ==
    ASSUME WholeInv, Commit \/ \E w \in Writers : PassFreeze(w) \/ Prepare(w)
    PROVE  WholeInv'
<1>1. /\ BoardTypes'
      /\ UNCHANGED <<tasks, ledger, tool, runs, exposed, broken>>
      /\ Sure' = Sure /\ Acknowledged' = Acknowledged /\ Due' = Due
      /\ git' = git \/ (tool = None /\ ~git'.cutover)
  BY QuietIs DEF WholeInv, Good
<1>2. LedgersSpeakTrue => LedgersSpeakTrue'
  BY <1>1 DEF LedgersSpeakTrue, Truthful
<1>3. CutoverIsBare => CutoverIsBare'
  BY <1>1 DEF CutoverIsBare
<1>4. tool # None => \A t : Sound(t) => Sound(t)'
  <2>1. SUFFICES ASSUME tool # None, NEW t PROVE Sound(t) => Sound(t)'
    OBVIOUS
  <2>2. /\ Untouched(t) <=> Untouched(t)'
        /\ git' = git
    BY <1>1, <2>1 DEF Untouched, Kept
  <2>3. MergeCopying(t) => MergeCopying(t)'
    BY <1>1, <2>2 DEF MergeCopying
  <2>4. MergeSwapping(t) => MergeSwapping(t)'
    BY <1>1, <2>2 DEF MergeSwapping, Kept
  <2>5. ConvertSwapping(t) => ConvertSwapping(t)'
    BY <1>1, <2>2 DEF ConvertSwapping, NoWrites
  <2>6. RollbackSwapping(t) => RollbackSwapping(t)'
    BY <1>1, <2>2 DEF RollbackSwapping, Kept
  <2> QED
    BY <1>1, <2>2, <2>3, <2>4, <2>5, <2>6 DEF Sound
<1>5. tool = None => (Kept(Sure, Due, tasks, ledger) => Kept(Sure, Due, tasks, ledger)')
  BY <1>1 DEF Kept
<1> QED
  BY <1>1, <1>2, <1>3, <1>4, <1>5 DEF WholeInv, Good

\* A mutation that writes before the last look writes on the board that is there;
\* one that writes after it is not counted any more.
LEMMA WritesKeepSound ==
    ASSUME BoardTypes, NEW w \in Writers, Writes(w), NEW t, tool = t, t # None, tool' = t,
           UNCHANGED <<git, runs>>, Sound(t)
    PROVE  Sound(t)'
<1>1. CASE ~t.past
  <2>1. Untouched(t) => Untouched(t)' /\ tasks'.form = tasks.form
    BY WritesKeep DEF Untouched
  <2>2. MergeCopying(t) => MergeCopying(t)'
    <3>1. SUFFICES ASSUME MergeCopying(t) PROVE MergeCopying(t)'
      OBVIOUS
    <3>2. /\ t.at \in {"copy tasks", "copy ledger", "compare"} /\ ~t.past /\ Untouched(t)'
          /\ tasks'.form = "markdown" /\ t.seen.ledger # None
      BY <2>1, <3>1 DEF MergeCopying
    <3>3. ledger # None /\ t.seen.ledger.has \subseteq ledger.has
      BY <3>1 DEF MergeCopying, Untouched, Kept
    <3>4. t.seen.ledger.has \subseteq ledger'.has
      BY <3>3 DEF Writes
    <3>5. ASSUME t.at # "copy tasks"
          PROVE  Due' \subseteq t.copy.tasks.has \cup (Writers \ t.seen.ledger.has)
      BY <3>1, <3>3, <3>5 DEF MergeCopying, Writes
    <3> QED
      BY <3>1, <3>2, <3>4, <3>5 DEF MergeCopying
  <2> QED
    BY <1>1, <2>1, <2>2 DEF Sound, MergeSwapping, ConvertSwapping, RollbackSwapping
<1>2. CASE t.past
  <2>1. /\ Sure' \subseteq Sure /\ Due' \subseteq Due /\ w \in exposed'
        /\ exposed \subseteq exposed'
        /\ \A s, l : Kept(Sure, Due, s, l) => Kept(Sure', Due', s, l)
        /\ tasks # None => Sure' \subseteq tasks'.has \/ ~ Sure \subseteq tasks.has
        /\ \A l : Kept(Sure, Due, tasks, l) => Kept(Sure', Due', tasks', l)
        /\ \A s : s.form = "markdown" /\ Kept(Sure, Due, s, ledger) => Kept(Sure', Due', s, ledger')
    BY <1>2, PastWrites DEF PastLastLook, Writes
  <2>2. /\ tasks # None => /\ tasks' # None
                           /\ tasks'.form = tasks.form /\ tasks'.by = tasks.by
                           /\ tasks'.has \subseteq tasks.has \cup {w}
        /\ ledger # None => ledger' # None /\ ledger'.by = ledger.by
    BY DEF Writes
  <2>3. Untouched(t) => Untouched(t)'
    BY WritesKeep DEF Untouched
  <2>4. Kept(Sure, Due, tasks, ledger) => Kept(Sure', Due', tasks', ledger')
    BY WritesKeep
  <2>5. \A s, l : Kept(Sure, Due, s, l) => s # None
    BY DEF Kept
  <2>6. MergeSwapping(t) => MergeSwapping(t)'
    <3>1. CASE t.at = "save tasks"
      BY <2>1, <2>2, <2>3, <2>5, <3>1 DEF MergeSwapping, Untouched
    <3>2. CASE t.at = "put tasks"
      BY <2>1, <3>2 DEF MergeSwapping
    <3>3. CASE t.at = "save ledger"
      BY <2>1, <2>2, <2>5, <3>3 DEF MergeSwapping
    <3>4. CASE t.at = "put ledger"
      BY <2>1, <2>2, <2>5, <3>4 DEF MergeSwapping
    <3>5. CASE t.at = "verify"
      BY <2>1, <2>4, <3>5 DEF MergeSwapping
    <3> QED
      BY <3>1, <3>2, <3>3, <3>4, <3>5 DEF MergeSwapping
  <2>7. ConvertSwapping(t) => ConvertSwapping(t)'
    <3>1. SUFFICES ASSUME ConvertSwapping(t) PROVE ConvertSwapping(t)'
      OBVIOUS
    <3>2. /\ Sure' = {} /\ t.past
          /\ t.copy = [tasks |-> NoWrites("markdown")', ledger |-> NoWrites("markdown")']
      BY <2>1, <3>1 DEF ConvertSwapping, NoWrites
    <3>3. t.at = "save" => Untouched(t)' /\ tasks'.form = "legacy"
      BY <2>2, <2>3, <2>5, <3>1 DEF ConvertSwapping, Untouched
    <3>4. t.at # "save" =>
             /\ t.saved.tasks # None /\ t.saved.tasks.form = "legacy"
             /\ \/ t.at = "save ledger" /\ t.put = {} /\ t.saved.ledger = None
                \/ t.at = "put tasks" /\ t.put = {}
                \/ t.at = "put ledger" /\ t.put = {"tasks"}
                \/ t.at \in {"doctor", "commit"} /\ t.put = {"tasks", "ledger"}
             /\ t.at \in {"put ledger", "doctor", "commit"} =>
                   /\ tasks # None /\ tasks.form = "markdown" /\ tasks.by = runs
                   /\ tasks.has \subseteq exposed
             /\ t.at \in {"doctor", "commit"} => ledger # None /\ ledger.by = runs
      BY <3>1 DEF ConvertSwapping
    <3>5. t.at \in {"put ledger", "doctor", "commit"} =>
             /\ tasks' # None /\ tasks'.form = "markdown" /\ tasks'.by = runs
             /\ tasks'.has \subseteq exposed'
      BY <2>1, <2>2, <3>4
    <3>6. t.at \in {"doctor", "commit"} => ledger' # None /\ ledger'.by = runs
      BY <2>2, <3>4
    <3> QED
      BY <3>2, <3>3, <3>4, <3>5, <3>6 DEF ConvertSwapping
  <2>8. RollbackSwapping(t) => RollbackSwapping(t)'
    <3>1. SUFFICES ASSUME RollbackSwapping(t) PROVE RollbackSwapping(t)'
      OBVIOUS
    <3>2. /\ t.past /\ t.copy.tasks # None /\ t.copy.tasks.form = "legacy"
          /\ Sure' \subseteq t.copy.tasks.has
      BY <2>1, <3>1 DEF RollbackSwapping
    <3>3. CASE t.at = "archive"
      BY <2>3, <3>1, <3>2, <3>3 DEF RollbackSwapping
    <3>4. CASE t.at = "remove"
      BY <2>1, <2>4, <3>1, <3>2, <3>4 DEF RollbackSwapping
    <3>5. CASE t.at = "put"
      BY <2>1, <2>2, <3>1, <3>2, <3>5 DEF RollbackSwapping
    <3>6. CASE t.at \in {"probe", "commit"}
      BY <2>1, <2>2, <3>1, <3>2, <3>6 DEF RollbackSwapping
    <3> QED
      BY <3>1, <3>3, <3>4, <3>5, <3>6 DEF RollbackSwapping
  <2> QED
    BY <1>2, <2>6, <2>7, <2>8 DEF Sound, MergeCopying
<1> QED
  BY <1>1, <1>2

LEMMA MutationsKeep ==
    ASSUME WholeInv, Mutate
    PROVE  WholeInv'
<1>1. ASSUME NEW w \in Writers, WriteTask(w) \/ WriteLedger(w) \/ Refuse(w)
      PROVE  WholeInv'
  <2>1. BoardTypes
    BY DEF WholeInv, Good
  <2>2. BoardTypes' /\ Writes(w)
    BY <1>1, <2>1, WriteTaskIs, WriteLedgerIs, RefuseIs
  <2>3. UNCHANGED <<git, tool, runs, broken>>
    BY <1>1 DEF WriteTask, WriteLedger, Refuse
  <2>4. LedgersSpeakTrue => LedgersSpeakTrue'
    BY <2>2, <2>3 DEF LedgersSpeakTrue, Truthful, Writes
  <2>5. CutoverIsBare => CutoverIsBare'
    BY <2>2, <2>3 DEF CutoverIsBare, Writes
  <2>6. tool = None /\ Kept(Sure, Due, tasks, ledger) => Kept(Sure, Due, tasks, ledger)'
    BY <2>2, WritesKeep
  <2>7. tool # None /\ Sound(tool) => Sound(tool)'
    <3>1. PICK t : t = tool
      OBVIOUS
    <3>2. t # None /\ Sound(t) => Sound(t)'
      BY <2>1, <2>2, <2>3, <3>1, WritesKeepSound
    <3>3. Sound(tool) <=> Sound(t)
      BY <3>1
    <3>4. Sound(tool)' <=> Sound(t)'
      BY <2>3, <3>1
    <3> QED
      BY <3>1, <3>2, <3>3, <3>4
  <2> QED
    BY <2>2, <2>3, <2>4, <2>5, <2>6, <2>7 DEF WholeInv, Good
<1> QED
  BY <1>1, QuietKeeps DEF Mutate

---------------------------------------------------------------------------
(* WholeBoard: merge *)

LEMMA Still ==
    ASSUME UNCHANGED <<writer, exposed>>
    PROVE  Sure' = Sure /\ Due' = Due /\ Acknowledged' = Acknowledged
BY DEF Sure, Due, Acknowledged

LEMMA SpeaksTrue ==
    ASSUME UNCHANGED writer, NEW l, ledger' = l, Truthful(l), NEW u, tool' = u,
           u # None => Truthful(u.copy.ledger) /\ Truthful(u.saved.ledger)
    PROVE  LedgersSpeakTrue'
<1>1. Acknowledged' = Acknowledged
  BY DEF Acknowledged
<1> QED
  BY <1>1 DEF LedgersSpeakTrue, Truthful

LEMMA BareStays ==
    ASSUME UNCHANGED <<git, exposed>>, CutoverIsBare
    PROVE  CutoverIsBare'
BY DEF CutoverIsBare

LEMMA OneMore ==
    ASSUME NEW r \in 0..MaxRuns, r < MaxRuns
    PROVE  r + 1 \in 0..MaxRuns
BY RunsAssumption

LEMMA StartIs ==
    ASSUME BoardTypes, Good,
           NEW kind \in {"merge", "convert", "immediate", "rollback"},
           NEW at \in {"copy tasks", "preflight", "revert", "freeze"},
           NEW touched \in SUBSET Writers, Start(kind, at, touched)
    PROVE  /\ tool' \in Tools /\ tool' # None /\ runs' \in 0..MaxRuns
           /\ tool'.kind = kind /\ tool'.at = at /\ ~tool'.past /\ tool'.put = {}
           /\ tool'.seen.ledger = ledger /\ tool'.seen.tasks = tasks
           /\ tool'.copy.ledger = None /\ tool'.saved.ledger = None
           /\ tool'.saved = [tasks |-> None, ledger |-> None]
           /\ tool = None /\ Kept(Sure, Due, tasks, ledger)
<1>1. /\ tool = None /\ runs < MaxRuns /\ runs' = runs + 1
      /\ tool' = [kind |-> kind, at |-> at, past |-> FALSE, touched |-> touched,
                  seen |-> [tasks |-> tasks, ledger |-> ledger],
                  copy |-> [tasks |-> None, ledger |-> None],
                  saved |-> [tasks |-> None, ledger |-> None], put |-> {}]
  BY DEF Start
<1>2. runs' \in 0..MaxRuns
  <2>1. runs \in 0..MaxRuns
    BY DEF BoardTypes
  <2>2. runs < MaxRuns /\ runs' = runs + 1
    BY <1>1
  <2> QED
    BY <2>1, <2>2, OneMore
<1>3. /\ [tasks |-> None, ledger |-> None] \in Pairs
      /\ [tasks |-> tasks, ledger |-> ledger] \in Pairs
  BY DEF Pairs, BoardTypes
<1>4. tool' \in Tools
  BY <1>1, <1>3 DEF Tools
<1> QED
  BY <1>1, <1>2, <1>4, NoneIs DEF Good

LEMMA MergePlanKeeps ==
    ASSUME BoardTypes, Good, MergePlan
    PROVE  BoardTypes' /\ Good'
<1>1. PICK touched \in SUBSET Writers : Start("merge", "copy tasks", touched)
  BY NoneIs DEF MergePlan, Agreed, BoardTypes, Directories
<1>2. UNCHANGED <<tasks, ledger, writer, git, exposed>> /\ tasks # None /\ ledger # None
      /\ tasks.form = "markdown"
  BY DEF MergePlan, Agreed
<1>3. PICK u : u = tool'
  OBVIOUS
<1>4. /\ u \in Tools /\ u # None /\ runs' \in 0..MaxRuns
      /\ u.kind = "merge" /\ u.at = "copy tasks" /\ ~u.past /\ u.put = {}
      /\ u.seen.ledger = ledger /\ u.copy.ledger = None /\ u.saved.ledger = None
      /\ u.saved = [tasks |-> None, ledger |-> None]
      /\ Kept(Sure, Due, tasks, ledger)
  BY <1>1, <1>3, StartIs
<1>5. Sure' = Sure /\ Due' = Due /\ Acknowledged' = Acknowledged
  BY <1>2, Still
<1>6. BoardTypes'
  BY <1>2, <1>3, <1>4 DEF BoardTypes
<1>7. Untouched(u)'
  BY <1>2, <1>4, <1>5 DEF Untouched
<1>8. MergeCopying(u)'
  BY <1>2, <1>4, <1>7 DEF MergeCopying
<1>9. Sound(u)'
  BY <1>4, <1>8 DEF Sound
<1>10. LedgersSpeakTrue' /\ CutoverIsBare'
  <2>1. Truthful(ledger) /\ Truthful(u.copy.ledger) /\ Truthful(u.saved.ledger)
    BY <1>4 DEF Good, LedgersSpeakTrue, Truthful
  <2> QED
    BY <1>2, <1>3, <2>1, SpeaksTrue, BareStays DEF Good
<1> QED
  BY <1>3, <1>4, <1>6, <1>9, <1>10 DEF Good

LEMMA StagedIs ==
    ASSUME BoardTypes, NEW d \in Directories
    PROVE  /\ Staged(d) \in Directories
           /\ Staged(d).form = d.form /\ Staged(d).by = runs /\ Staged(d).has = d.has
BY DEF Staged, Directories, BoardTypes

LEMMA MergeCopyTasksKeeps ==
    ASSUME BoardTypes, Good, MergeCopyTasks
    PROVE  BoardTypes' /\ Good'
<1>1. PICK t, u : t = tool /\ u = tool'
  OBVIOUS
<1>2. /\ t \in Tools /\ t # None /\ t.kind = "merge" /\ t.at = "copy tasks"
      /\ u = [t EXCEPT !.at = "copy ledger", !.copy = [@ EXCEPT !.tasks = Staged(tasks)]]
      /\ UNCHANGED <<tasks, ledger, writer, git, runs, exposed>>
  BY <1>1 DEF MergeCopyTasks, At, BoardTypes, dirs
<1>3. MergeCopying(t)
  BY <1>1, <1>2 DEF Good, Sound, MergeSwapping
<1>4. tasks \in Directories /\ Sure \subseteq tasks.has /\ tasks.form = "markdown"
      /\ Sure \subseteq Writers
  BY <1>3 DEF MergeCopying, Untouched, Kept, BoardTypes, Sure
<1>5. /\ u \in Tools /\ u.kind = "merge" /\ u.at = "copy ledger" /\ u.past = t.past
      /\ u.put = t.put /\ u.saved = t.saved /\ u.seen = t.seen
      /\ u.copy.tasks = Staged(tasks) /\ u.copy.ledger = t.copy.ledger
  BY <1>2, <1>4, StagedIs DEF Tools, Pairs
<1>6. Sure' = Sure /\ Due' = Due /\ Acknowledged' = Acknowledged
  BY <1>2, Still
<1>7. BoardTypes'
  BY <1>1, <1>2, <1>5 DEF BoardTypes
<1>8. Untouched(u)'
  BY <1>2, <1>3, <1>5, <1>6 DEF Untouched, MergeCopying
<1>9. MergeCopying(u)'
  BY <1>2, <1>3, <1>4, <1>5, <1>6, <1>8, StagedIs, NoneIs DEF MergeCopying, Due
<1>10. Sound(u)'
  BY <1>5, <1>9 DEF Sound
<1>11. LedgersSpeakTrue' /\ CutoverIsBare'
  <2>1. Truthful(ledger) /\ Truthful(u.copy.ledger) /\ Truthful(u.saved.ledger)
    BY <1>1, <1>2, <1>5 DEF Good, LedgersSpeakTrue
  <2> QED
    BY <1>1, <1>2, <2>1, SpeaksTrue, BareStays DEF Good
<1> QED
  BY <1>1, <1>5, <1>7, <1>10, <1>11, NoneIs DEF Good

LEMMA MergeCopyLedgerKeeps ==
    ASSUME BoardTypes, Good, MergeCopyLedger
    PROVE  BoardTypes' /\ Good'
<1>1. PICK t, u : t = tool /\ u = tool'
  OBVIOUS
<1>2. /\ t \in Tools /\ t # None /\ t.kind = "merge" /\ t.at = "copy ledger"
      /\ u = [t EXCEPT !.at = "compare", !.copy = [@ EXCEPT !.ledger = Staged(ledger)]]
      /\ UNCHANGED <<tasks, ledger, writer, git, runs, exposed>>
  BY <1>1 DEF MergeCopyLedger, At, BoardTypes, dirs
<1>3. MergeCopying(t)
  BY <1>1, <1>2 DEF Good, Sound, MergeSwapping
<1>4. ledger \in Directories /\ t.seen.ledger.has \subseteq ledger.has
  BY <1>3 DEF MergeCopying, Untouched, Kept, BoardTypes
<1>5. /\ u \in Tools /\ u.kind = "merge" /\ u.at = "compare" /\ u.past = t.past
      /\ u.put = t.put /\ u.saved = t.saved /\ u.seen = t.seen
      /\ u.copy.ledger = Staged(ledger) /\ u.copy.tasks = t.copy.tasks
  BY <1>2, <1>4, StagedIs DEF Tools, Pairs
<1>6. Sure' = Sure /\ Due' = Due /\ Acknowledged' = Acknowledged
  BY <1>2, Still
<1>7. BoardTypes'
  BY <1>1, <1>2, <1>5 DEF BoardTypes
<1>8. Untouched(u)'
  BY <1>2, <1>3, <1>5, <1>6 DEF Untouched, MergeCopying
<1>9. MergeCopying(u)'
  BY <1>2, <1>3, <1>4, <1>5, <1>6, <1>8, StagedIs, NoneIs DEF MergeCopying
<1>10. Sound(u)'
  BY <1>5, <1>9 DEF Sound
<1>11. LedgersSpeakTrue' /\ CutoverIsBare'
  <2>1. Truthful(ledger) /\ Truthful(u.saved.ledger)
    BY <1>1, <1>2, <1>5 DEF Good, LedgersSpeakTrue
  <2>2. Truthful(u.copy.ledger)
    BY <1>4, <1>5, <2>1, StagedIs, NoneIs DEF Truthful
  <2> QED
    BY <1>1, <1>2, <2>1, <2>2, SpeaksTrue, BareStays DEF Good
<1> QED
  BY <1>1, <1>5, <1>7, <1>10, <1>11, NoneIs DEF Good

\* What the second look finds in the ledger is what the first found: whatever was
\* acknowledged in between would be there too, and both copies have it.
LEMMA MergeCompareKeeps ==
    ASSUME BoardTypes, Good, MergeCompare
    PROVE  BoardTypes' /\ Good'
<1>1. PICK t, u : t = tool /\ u = tool'
  OBVIOUS
<1>2. /\ t \in Tools /\ t # None /\ t.kind = "merge" /\ t.at = "compare"
      /\ u = [t EXCEPT !.at = "save tasks", !.past = TRUE]
      /\ UNCHANGED <<tasks, ledger, writer, git, runs, exposed>>
      /\ tasks.has = ledger.has /\ t.seen = [tasks |-> tasks, ledger |-> ledger]
  BY <1>1 DEF MergeCompare, At, BoardTypes, dirs, Agreed
<1>3. MergeCopying(t)
  BY <1>1, <1>2 DEF Good, Sound, MergeSwapping
<1>4. t.seen.ledger = ledger
  BY <1>2
<1>5. /\ u \in Tools /\ u.kind = "merge" /\ u.at = "save tasks" /\ u.past
      /\ u.put = t.put /\ u.saved = t.saved /\ u.copy = t.copy
  BY <1>2 DEF Tools
<1>6. Sure' = Sure /\ Due' = Due /\ Acknowledged' = Acknowledged
  BY <1>2, Still
<1>7. BoardTypes'
  BY <1>1, <1>2, <1>5 DEF BoardTypes
<1>8. Untouched(u)'
  BY <1>2, <1>3, <1>5, <1>6 DEF Untouched, MergeCopying
<1>9. Kept(Sure, Due, t.copy.tasks, t.copy.ledger)
  <2>1. /\ tasks # None /\ tasks.form = "markdown" /\ ledger # None
        /\ Sure \subseteq tasks.has /\ Due \subseteq ledger.has
    BY <1>3 DEF MergeCopying, Untouched, Kept
  <2>2. ledger.has \subseteq Acknowledged
    BY <2>1 DEF Good, LedgersSpeakTrue, Truthful
  <2>3. Sure = Due
    BY <1>2, <2>1, <2>2 DEF Due
  <2>4. /\ t.copy.tasks # None /\ t.copy.tasks.by = runs
        /\ Due \subseteq t.copy.tasks.has \cup (Writers \ ledger.has)
        /\ t.copy.ledger # None /\ t.copy.ledger.by = runs
        /\ ledger.has \subseteq t.copy.ledger.has
    BY <1>2, <1>3, <1>4 DEF MergeCopying
  <2> QED
    BY <2>1, <2>3, <2>4 DEF Kept
<1>10. MergeSwapping(u)'
  BY <1>2, <1>3, <1>5, <1>6, <1>8, <1>9 DEF MergeSwapping, MergeCopying
<1>11. Sound(u)'
  BY <1>5, <1>10 DEF Sound
<1>12. LedgersSpeakTrue' /\ CutoverIsBare'
  <2>1. Truthful(ledger) /\ Truthful(u.copy.ledger) /\ Truthful(u.saved.ledger)
    BY <1>1, <1>2, <1>5 DEF Good, LedgersSpeakTrue
  <2> QED
    BY <1>1, <1>2, <2>1, SpeaksTrue, BareStays DEF Good
<1> QED
  BY <1>1, <1>5, <1>7, <1>11, <1>12, NoneIs DEF Good

LEMMA MergeSaveTasksKeeps ==
    ASSUME BoardTypes, Good, MergeSaveTasks
    PROVE  BoardTypes' /\ Good'
<1>1. PICK t, u : t = tool /\ u = tool'
  OBVIOUS
<1>2. /\ t \in Tools /\ t # None /\ t.kind = "merge" /\ t.at = "save tasks"
      /\ u = [t EXCEPT !.at = "put tasks", !.saved = [@ EXCEPT !.tasks = tasks]]
      /\ tasks' = None /\ UNCHANGED <<ledger, writer, git, runs, exposed>>
  BY <1>1 DEF MergeSaveTasks, At, BoardTypes
<1>3. MergeSwapping(t)
  BY <1>1, <1>2 DEF Good, Sound, MergeCopying
<1>4. tasks \in Directories \cup {None}
  BY DEF BoardTypes
<1>5. /\ u \in Tools /\ u.kind = "merge" /\ u.at = "put tasks" /\ u.past = t.past
      /\ u.put = t.put /\ u.copy = t.copy
      /\ u.saved.tasks = tasks /\ u.saved.ledger = t.saved.ledger
  BY <1>2, <1>4 DEF Tools, Pairs
<1>6. Sure' = Sure /\ Due' = Due /\ Acknowledged' = Acknowledged
  BY <1>2, Still
<1>7. BoardTypes'
  BY <1>1, <1>2, <1>5 DEF BoardTypes
<1>8. MergeSwapping(u)'
  <2>1. /\ t.past /\ Untouched(t) /\ tasks.form = "markdown"
        /\ t.copy.tasks.form = "markdown" /\ Kept(Sure, Due, t.copy.tasks, t.copy.ledger)
    BY <1>2, <1>3 DEF MergeSwapping
  <2>2. t.saved.ledger = None /\ t.put = {} /\ Kept(Sure, Due, tasks, ledger)
    BY <2>1 DEF Untouched
  <2> QED
    BY <1>2, <1>5, <1>6, <2>1, <2>2 DEF MergeSwapping
<1>9. Sound(u)'
  BY <1>5, <1>8 DEF Sound
<1>10. LedgersSpeakTrue' /\ CutoverIsBare'
  <2>1. Truthful(ledger) /\ Truthful(u.copy.ledger) /\ Truthful(u.saved.ledger)
    BY <1>1, <1>2, <1>5 DEF Good, LedgersSpeakTrue
  <2> QED
    BY <1>1, <1>2, <2>1, SpeaksTrue, BareStays DEF Good
<1> QED
  BY <1>1, <1>5, <1>7, <1>9, <1>10, NoneIs DEF Good

LEMMA MergePutTasksKeeps ==
    ASSUME BoardTypes, Good, MergePutTasks
    PROVE  BoardTypes' /\ Good'
<1>1. PICK t, u : t = tool /\ u = tool'
  OBVIOUS
<1>2. /\ t \in Tools /\ t # None /\ t.kind = "merge" /\ t.at = "put tasks"
      /\ u = [t EXCEPT !.at = "save ledger", !.put = @ \cup {"tasks"}]
      /\ tasks' = t.copy.tasks /\ UNCHANGED <<ledger, writer, git, runs, exposed>>
  BY <1>1 DEF MergePutTasks, At, BoardTypes
<1>3. /\ t.past /\ t.put = {} /\ t.saved.ledger = None
      /\ t.saved.tasks.form = "markdown" /\ Kept(Sure, Due, t.saved.tasks, ledger)
      /\ t.copy.tasks.form = "markdown" /\ Kept(Sure, Due, t.copy.tasks, t.copy.ledger)
  BY <1>1, <1>2 DEF Good, Sound, MergeCopying, MergeSwapping
<1>4. /\ u \in Tools /\ u.kind = "merge" /\ u.at = "save ledger" /\ u.past = t.past
      /\ u.put = {"tasks"} /\ u.copy = t.copy /\ u.saved = t.saved
      /\ t.copy.tasks \in Directories \cup {None}
  BY <1>2, <1>3 DEF Tools, Pairs
<1>5. Sure' = Sure /\ Due' = Due /\ Acknowledged' = Acknowledged
  BY <1>2, Still
<1>6. BoardTypes'
  BY <1>1, <1>2, <1>4 DEF BoardTypes
<1>7. MergeSwapping(u)'
  BY <1>2, <1>3, <1>4, <1>5 DEF MergeSwapping
<1>8. Sound(u)'
  BY <1>4, <1>7 DEF Sound
<1>9. LedgersSpeakTrue' /\ CutoverIsBare'
  <2>1. Truthful(ledger) /\ Truthful(u.copy.ledger) /\ Truthful(u.saved.ledger)
    BY <1>1, <1>2, <1>4 DEF Good, LedgersSpeakTrue
  <2> QED
    BY <1>1, <1>2, <2>1, SpeaksTrue, BareStays DEF Good
<1> QED
  BY <1>1, <1>4, <1>6, <1>8, <1>9, NoneIs DEF Good

LEMMA MergeSaveLedgerKeeps ==
    ASSUME BoardTypes, Good, MergeSaveLedger
    PROVE  BoardTypes' /\ Good'
<1>1. PICK t, u : t = tool /\ u = tool'
  OBVIOUS
<1>2. /\ t \in Tools /\ t # None /\ t.kind = "merge" /\ t.at = "save ledger"
      /\ u = [t EXCEPT !.at = "put ledger", !.saved = [@ EXCEPT !.ledger = ledger]]
      /\ ledger' = None /\ UNCHANGED <<tasks, writer, git, runs, exposed>>
  BY <1>1 DEF MergeSaveLedger, At, BoardTypes
<1>3. /\ t.past /\ t.put = {"tasks"}
      /\ t.saved.tasks.form = "markdown" /\ Kept(Sure, Due, t.saved.tasks, ledger)
      /\ tasks.form = "markdown" /\ Kept(Sure, Due, tasks, t.copy.ledger)
  BY <1>1, <1>2 DEF Good, Sound, MergeCopying, MergeSwapping
<1>4. ledger \in Directories \cup {None} /\ ledger # None
  BY <1>3 DEF BoardTypes, Kept
<1>5. /\ u \in Tools /\ u.kind = "merge" /\ u.at = "put ledger" /\ u.past = t.past
      /\ u.put = t.put /\ u.copy = t.copy
      /\ u.saved.ledger = ledger /\ u.saved.tasks = t.saved.tasks
  BY <1>2, <1>4 DEF Tools, Pairs
<1>6. Sure' = Sure /\ Due' = Due /\ Acknowledged' = Acknowledged
  BY <1>2, Still
<1>7. BoardTypes'
  BY <1>1, <1>2, <1>5 DEF BoardTypes
<1>8. MergeSwapping(u)'
  BY <1>2, <1>3, <1>4, <1>5, <1>6 DEF MergeSwapping
<1>9. Sound(u)'
  BY <1>5, <1>8 DEF Sound
<1>10. LedgersSpeakTrue' /\ CutoverIsBare'
  <2>1. Truthful(ledger) /\ Truthful(u.copy.ledger)
    BY <1>1, <1>2, <1>5 DEF Good, LedgersSpeakTrue
  <2>2. Truthful(None) /\ Truthful(u.saved.ledger)
    BY <1>5, <2>1 DEF Truthful
  <2> QED
    BY <1>1, <1>2, <2>1, <2>2, SpeaksTrue, BareStays DEF Good
<1> QED
  BY <1>1, <1>5, <1>7, <1>9, <1>10, NoneIs DEF Good

LEMMA MergePutLedgerKeeps ==
    ASSUME BoardTypes, Good, MergePutLedger
    PROVE  BoardTypes' /\ Good'
<1>1. PICK t, u : t = tool /\ u = tool'
  OBVIOUS
<1>2. /\ t \in Tools /\ t # None /\ t.kind = "merge" /\ t.at = "put ledger"
      /\ u = [t EXCEPT !.at = "verify", !.put = @ \cup {"ledger"}]
      /\ ledger' = t.copy.ledger /\ UNCHANGED <<tasks, writer, git, runs, exposed>>
  BY <1>1 DEF MergePutLedger, At, BoardTypes
<1>3. /\ t.past /\ t.put = {"tasks"}
      /\ Kept(Sure, Due, t.saved.tasks, t.saved.ledger)
      /\ Kept(Sure, Due, tasks, t.copy.ledger)
  BY <1>1, <1>2 DEF Good, Sound, MergeCopying, MergeSwapping
<1>4. /\ u \in Tools /\ u.kind = "merge" /\ u.at = "verify" /\ u.past = t.past
      /\ u.put = {"tasks", "ledger"} /\ u.copy = t.copy /\ u.saved = t.saved
      /\ t.copy.ledger \in Directories \cup {None}
  BY <1>2, <1>3 DEF Tools, Pairs
<1>5. Sure' = Sure /\ Due' = Due /\ Acknowledged' = Acknowledged
  BY <1>2, Still
<1>6. BoardTypes'
  BY <1>1, <1>2, <1>4 DEF BoardTypes
<1>7. MergeSwapping(u)'
  BY <1>2, <1>3, <1>4, <1>5 DEF MergeSwapping
<1>8. Sound(u)'
  BY <1>4, <1>7 DEF Sound
<1>9. LedgersSpeakTrue' /\ CutoverIsBare'
  <2>1. Truthful(t.copy.ledger) /\ Truthful(u.copy.ledger) /\ Truthful(u.saved.ledger)
    BY <1>1, <1>2, <1>4 DEF Good, LedgersSpeakTrue
  <2> QED
    BY <1>1, <1>2, <2>1, SpeaksTrue, BareStays DEF Good
<1> QED
  BY <1>1, <1>4, <1>6, <1>8, <1>9, NoneIs DEF Good

\* A tool that ends leaves the board that is there.
LEMMA Ends ==
    ASSUME BoardTypes, Good, tool' = None,
           UNCHANGED <<tasks, ledger, writer, git, runs, exposed>>,
           Kept(Sure, Due, tasks, ledger)
    PROVE  BoardTypes' /\ Good'
<1>1. Sure' = Sure /\ Due' = Due
  BY Still
<1>2. BoardTypes'
  BY DEF BoardTypes
<1>3. Truthful(ledger)
  BY DEF Good, LedgersSpeakTrue
<1>4. LedgersSpeakTrue' /\ CutoverIsBare'
  BY <1>3, SpeaksTrue, BareStays DEF Good
<1> QED
  BY <1>1, <1>2, <1>4 DEF Good

\* What is moved back, where nothing is in the way, is the old board.
LEMMA BackIs ==
    ASSUME BoardTypes, Good, NEW t, t = tool, t # None, t.kind \in {"merge", "convert"},
           ~Blocked("ledger", ledger), ~Blocked("tasks", tasks)
    PROVE  Kept(Sure, Due, Back("tasks", tasks), Back("ledger", ledger))
<1>1. /\ Back("tasks", tasks) =
            IF "tasks" \in t.put \/ t.saved.tasks # None THEN t.saved.tasks ELSE tasks
      /\ Back("ledger", ledger) =
            IF "ledger" \in t.put \/ t.saved.ledger # None THEN t.saved.ledger ELSE ledger
  BY DEF Back
<1>2. CASE Untouched(t)
  BY <1>1, <1>2 DEF Untouched
<1>3. CASE t.at = "put tasks" /\ MergeSwapping(t)
  BY <1>1, <1>3 DEF MergeSwapping, Kept
<1>4. CASE t.at = "save ledger" /\ MergeSwapping(t)
  BY <1>1, <1>4 DEF MergeSwapping, Kept
<1>5. CASE t.at = "put ledger" /\ MergeSwapping(t)
  BY <1>1, <1>5 DEF MergeSwapping, Kept
<1>6. CASE t.at = "verify" /\ MergeSwapping(t)
  BY <1>1, <1>6 DEF MergeSwapping, Kept
<1>7. CASE ConvertSwapping(t) /\ t.at # "save"
  BY <1>1, <1>7 DEF ConvertSwapping, Kept
<1>8. Sound(t)
  BY DEF Good
<1>9. CASE t.kind = "merge"
  BY <1>2, <1>3, <1>4, <1>5, <1>6, <1>8, <1>9 DEF Sound, MergeCopying, MergeSwapping
<1>10. CASE t.kind = "convert"
  BY <1>2, <1>7, <1>8, <1>10 DEF Sound, ConvertSwapping
<1> QED
  BY <1>9, <1>10

LEMMA UndoKeeps ==
    ASSUME BoardTypes, Good, tool # None, tool.kind \in {"merge", "convert"},
           NEW unfreeze \in BOOLEAN, Undo(unfreeze)
    PROVE  BoardTypes' /\ tool' = None /\ (broken' = "no" => Good')
<1>1. PICK t : t = tool
  OBVIOUS
<1>2. /\ tool' = None /\ UNCHANGED <<writer, git, runs, exposed>>
      /\ ledger' = IF Blocked("ledger", ledger) THEN ledger ELSE Back("ledger", ledger)
      /\ tasks' = IF Blocked("ledger", ledger) \/ Blocked("tasks", tasks) THEN tasks
                  ELSE Back("tasks", tasks)
      /\ Blocked("ledger", ledger) \/ Blocked("tasks", tasks) => broken' = "undo failed"
  BY DEF Undo
<1>3. t \in Tools /\ t # None
  BY <1>1 DEF BoardTypes
<1>4. t.saved.tasks \in Directories \cup {None} /\ t.saved.ledger \in Directories \cup {None}
  BY <1>3 DEF Tools, Pairs
<1>5. Back("tasks", tasks) \in {tasks, t.saved.tasks} /\ Back("ledger", ledger) \in {ledger, t.saved.ledger}
  BY <1>1 DEF Back
<1>6. tasks' \in Directories \cup {None} /\ ledger' \in Directories \cup {None}
  BY <1>2, <1>4, <1>5 DEF BoardTypes
<1>7. BoardTypes'
  BY <1>2, <1>6 DEF BoardTypes
<1>8. ASSUME broken' = "no"
      PROVE  Good'
  <2>1. ~Blocked("ledger", ledger) /\ ~Blocked("tasks", tasks)
    BY <1>2, <1>8
  <2>2. Kept(Sure, Due, tasks', ledger')
    BY <1>1, <1>2, <1>3, <2>1, BackIs
  <2>3. Sure' = Sure /\ Due' = Due
    BY <1>2, Still
  <2>4. Truthful(ledger) /\ Truthful(t.saved.ledger)
    BY <1>1, <1>3 DEF Good, LedgersSpeakTrue
  <2>5. ledger' \in {ledger, t.saved.ledger}
    BY <1>2, <1>5
  <2>6. PICK l : l = ledger' /\ Truthful(l)
    BY <2>4, <2>5
  <2>7. LedgersSpeakTrue' /\ CutoverIsBare'
    BY <1>2, <2>6, SpeaksTrue, BareStays DEF Good
  <2> QED
    BY <1>2, <2>2, <2>3, <2>7 DEF Good
<1> QED
  BY <1>2, <1>7, <1>8

LEMMA StopKeeps ==
    ASSUME BoardTypes, Good, tool # None, tool.kind \in {"merge", "convert"},
           NEW how \in {"killed", "interrupted"}, NEW unfreeze \in BOOLEAN, Stop(how, unfreeze)
    PROVE  BoardTypes' /\ tool' = None /\ (broken' = "no" => Good')
<1>1. PICK t : t = tool
  OBVIOUS
<1>2. /\ tool' = None /\ UNCHANGED <<tasks, ledger, writer, git, runs, exposed>>
      /\ broken' = "no" => ~Swapping
  BY DEF Stop
<1>3. t \in Tools /\ t # None /\ Sound(t) /\ t.kind \in {"merge", "convert"}
  BY <1>1 DEF BoardTypes, Good
<1>4. BoardTypes'
  BY <1>2 DEF BoardTypes
<1>5. ASSUME ~Swapping
      PROVE  Kept(Sure, Due, tasks, ledger)
  <2>1. t.put = {"tasks", "ledger"} \/ t.saved = [tasks |-> None, ledger |-> None]
    BY <1>1, <1>5 DEF Swapping
  <2>2. t.put = {"tasks", "ledger"} \/ t.saved.tasks = None
    BY <2>1
  <2>3. CASE Untouched(t)
    BY <2>3 DEF Untouched
  <2>4. CASE MergeSwapping(t) /\ ~Untouched(t)
    <3>1. "ledger" \in t.put
      BY <2>2, <2>4 DEF MergeSwapping, Kept
    <3>2. t.put # {} /\ t.put # {"tasks"}
      BY <3>1
    <3>3. t.at = "verify" /\ Kept(Sure, Due, tasks, ledger)
      BY <2>4, <3>2 DEF MergeSwapping
    <3> QED
      BY <3>3
  <2>5. CASE ConvertSwapping(t) /\ ~Untouched(t)
    <3>1. /\ t.at \in {"doctor", "commit"} /\ Sure = {}
          /\ tasks # None /\ tasks.form = "markdown" /\ tasks.by = runs
          /\ ledger # None /\ ledger.by = runs
      <4>1. "ledger" \in t.put
        BY <2>2, <2>5 DEF ConvertSwapping
      <4>2. t.put # {} /\ t.put # {"tasks"}
        BY <4>1
      <4> QED
        BY <2>5, <4>2 DEF ConvertSwapping
    <3> QED
      BY <3>1 DEF Kept, Due
  <2> QED
    BY <1>3, <2>3, <2>4, <2>5 DEF Sound, MergeCopying
<1> QED
  BY <1>2, <1>4, <1>5, Ends

LEMMA BoardMergeKeeps ==
    ASSUME BoardTypes, Good, broken = "no", MergeNext
    PROVE  BoardTypes' /\ (broken' # "no" => tool' = None) /\ (broken' = "no" => Good')
<1>1. CASE MergeVerify
  <2>1. tool # None /\ tool.kind = "merge" /\ tool.at = "verify"
    BY <1>1 DEF MergeVerify, At
  <2>2. Kept(Sure, Due, tasks, ledger)
    BY <2>1 DEF Good, Sound, MergeCopying, MergeSwapping
  <2>3. tool' = None /\ UNCHANGED <<tasks, ledger, writer, git, runs, exposed, broken>>
    BY <1>1 DEF MergeVerify, dirs
  <2> QED
    BY <2>2, <2>3, Ends
<1>2. CASE MergeFails
  BY <1>2, UndoKeeps DEF MergeFails
<1>3. CASE MergeStops
  BY <1>3, StopKeeps DEF MergeStops
<1>4. CASE MergePlan
  BY <1>4, MergePlanKeeps DEF MergePlan
<1>5. CASE MergeCopyTasks
  BY <1>5, MergeCopyTasksKeeps DEF MergeCopyTasks
<1>6. CASE MergeCopyLedger
  BY <1>6, MergeCopyLedgerKeeps DEF MergeCopyLedger
<1>7. CASE MergeCompare
  BY <1>7, MergeCompareKeeps DEF MergeCompare
<1>8. CASE MergeSaveTasks
  BY <1>8, MergeSaveTasksKeeps DEF MergeSaveTasks
<1>9. CASE MergePutTasks
  BY <1>9, MergePutTasksKeeps DEF MergePutTasks
<1>10. CASE MergeSaveLedger
  BY <1>10, MergeSaveLedgerKeeps DEF MergeSaveLedger
<1>11. CASE MergePutLedger
  BY <1>11, MergePutLedgerKeeps DEF MergePutLedger
<1> QED
  BY <1>1, <1>2, <1>3, <1>4, <1>5, <1>6, <1>7, <1>8, <1>9, <1>10, <1>11 DEF MergeNext

---------------------------------------------------------------------------
(* WholeBoard: conversion and its rollbacks *)

\* What a starting tool finds is still the board.
LEMMA Starts ==
    ASSUME BoardTypes, Good,
           NEW kind \in {"merge", "convert", "immediate", "rollback"},
           NEW at \in {"copy tasks", "preflight", "revert", "freeze"},
           Start(kind, at, {}), UNCHANGED <<tasks, ledger, writer, git, exposed>>
    PROVE  /\ BoardTypes' /\ LedgersSpeakTrue' /\ CutoverIsBare'
           /\ Untouched(tool)' /\ tool' # None
           /\ tool'.kind = kind /\ tool'.at = at /\ ~tool'.past
<1>1. PICK u : u = tool'
  OBVIOUS
<1>2. /\ u \in Tools /\ u # None /\ runs' \in 0..MaxRuns
      /\ u.kind = kind /\ u.at = at /\ ~u.past /\ u.put = {}
      /\ u.copy.ledger = None /\ u.saved.ledger = None
      /\ u.saved = [tasks |-> None, ledger |-> None]
      /\ Kept(Sure, Due, tasks, ledger)
  BY <1>1, StartIs
<1>3. Sure' = Sure /\ Due' = Due
  BY Still
<1>4. BoardTypes'
  BY <1>1, <1>2 DEF BoardTypes
<1>5. Untouched(u)'
  BY <1>2, <1>3 DEF Untouched
<1>6. Truthful(ledger) /\ Truthful(u.copy.ledger) /\ Truthful(u.saved.ledger)
  BY <1>2 DEF Good, LedgersSpeakTrue, Truthful
<1>7. LedgersSpeakTrue' /\ CutoverIsBare'
  BY <1>1, <1>6, SpeaksTrue, BareStays DEF Good
<1>8. Untouched(tool)' <=> Untouched(u)'
  BY <1>1
<1> QED
  BY <1>1, <1>2, <1>4, <1>5, <1>7, <1>8

LEMMA ConvertFreezeKeeps ==
    ASSUME BoardTypes, Good, ConvertFreeze
    PROVE  BoardTypes' /\ Good'
<1>1. /\ UNCHANGED <<tasks, ledger, writer, git, exposed>> /\ tasks.form = "legacy"
      /\ Start("convert", "preflight", {})
  BY DEF ConvertFreeze, board
<1>2. /\ BoardTypes' /\ LedgersSpeakTrue' /\ CutoverIsBare'
      /\ Untouched(tool)' /\ tool' # None
      /\ tool'.kind = "convert" /\ tool'.at = "preflight" /\ ~tool'.past
  BY <1>1, Starts
<1> QED
  BY <1>1, <1>2 DEF Good, Sound

LEMMA ConvertPreflightKeeps ==
    ASSUME BoardTypes, Good, ConvertPreflight
    PROVE  BoardTypes' /\ Good'
<1>1. PICK t, u : t = tool /\ u = tool'
  OBVIOUS
<1>2. /\ t \in Tools /\ t # None /\ t.kind = "convert" /\ t.at = "preflight"
      /\ UNCHANGED <<tasks, ledger, writer, git, runs, exposed>>
  BY <1>1 DEF ConvertPreflight, At, BoardTypes, board
<1>3. Untouched(t) /\ tasks.form = "legacy"
  BY <1>1, <1>2 DEF Good, Sound, ConvertSwapping
<1>4. CASE tasks.has = {}
  <2>1. u = [t EXCEPT !.at = "save", !.past = TRUE,
                !.copy = [tasks |-> NoWrites("markdown"), ledger |-> NoWrites("markdown")]]
    BY <1>1, <1>4 DEF ConvertPreflight
  <2>2. runs \in 0..MaxRuns
    BY DEF BoardTypes
  <2>3. /\ NoWrites("markdown") \in Directories /\ NoWrites("markdown").has = {}
        /\ NoWrites("markdown")' = NoWrites("markdown")
    BY <1>2, <2>2, NoWritesIs DEF NoWrites
  <2>4. [tasks |-> NoWrites("markdown"), ledger |-> NoWrites("markdown")] \in Pairs
    BY <2>3 DEF Pairs
  <2>5. /\ u \in Tools /\ u.kind = "convert" /\ u.at = "save" /\ u.past
        /\ u.put = t.put /\ u.saved = t.saved
        /\ u.copy = [tasks |-> NoWrites("markdown"), ledger |-> NoWrites("markdown")]
    BY <1>2, <2>1, <2>4 DEF Tools
  <2>6. Sure' = Sure /\ Due' = Due /\ Sure = {}
    BY <1>2, <1>3, <1>4, Still DEF Untouched, Kept
  <2>7. BoardTypes'
    BY <1>1, <1>2, <2>5 DEF BoardTypes
  <2>8. Untouched(u)'
    BY <1>2, <1>3, <2>5, <2>6 DEF Untouched
  <2>9. ConvertSwapping(u)'
    BY <1>2, <1>3, <2>3, <2>5, <2>6, <2>8 DEF ConvertSwapping
  <2>10. LedgersSpeakTrue' /\ CutoverIsBare'
    <3>1. u.copy.ledger = NoWrites("markdown")
      BY <2>5
    <3>2. Truthful(ledger) /\ Truthful(u.saved.ledger)
      BY <1>1, <1>2, <2>5 DEF Good, LedgersSpeakTrue
    <3>3. Truthful(u.copy.ledger)
      BY <2>3, <3>1 DEF Truthful
    <3> QED
      BY <1>1, <1>2, <3>2, <3>3, SpeaksTrue, BareStays DEF Good
  <2>11. Sound(u)'
    BY <2>5, <2>9 DEF Sound
  <2> QED
    BY <1>1, <2>5, <2>7, <2>10, <2>11, NoneIs DEF Good
<1>5. CASE tasks.has # {}
  <2>1. tool' = None
    BY <1>5 DEF ConvertPreflight
  <2> QED
    BY <1>2, <1>3, <2>1, Ends DEF Untouched
<1> QED
  BY <1>4, <1>5

LEMMA ConvertSaveTasksKeeps ==
    ASSUME BoardTypes, Good, ConvertSaveTasks
    PROVE  BoardTypes' /\ Good'
<1>1. PICK t, u : t = tool /\ u = tool'
  OBVIOUS
<1>2. /\ t \in Tools /\ t # None /\ t.kind = "convert" /\ t.at = "save"
      /\ u = [t EXCEPT !.at = "save ledger", !.saved = [@ EXCEPT !.tasks = tasks]]
      /\ tasks' = None /\ UNCHANGED <<ledger, writer, git, runs, exposed>>
  BY <1>1 DEF ConvertSaveTasks, At, BoardTypes
<1>3. /\ t.past /\ Sure = {} /\ Untouched(t) /\ tasks.form = "legacy"
      /\ t.copy = [tasks |-> NoWrites("markdown"), ledger |-> NoWrites("markdown")]
  BY <1>1, <1>2 DEF Good, Sound, ConvertSwapping
<1>4. /\ t.put = {} /\ t.saved.ledger = None
      /\ tasks # None /\ tasks \in Directories \cup {None}
  BY <1>3 DEF Untouched, Kept, BoardTypes
<1>5. /\ u \in Tools /\ u.kind = "convert" /\ u.at = "save ledger" /\ u.past
      /\ u.put = t.put /\ u.copy = t.copy
      /\ u.saved.tasks = tasks /\ u.saved.ledger = t.saved.ledger
  BY <1>2, <1>3, <1>4 DEF Tools, Pairs
<1>6. Sure' = Sure /\ NoWrites("markdown")' = NoWrites("markdown")
  BY <1>2, Still DEF NoWrites
<1>7. BoardTypes'
  BY <1>1, <1>2, <1>5 DEF BoardTypes
<1>8. ConvertSwapping(u)'
  BY <1>3, <1>4, <1>5, <1>6 DEF ConvertSwapping
<1>9. LedgersSpeakTrue' /\ CutoverIsBare'
  <2>1. Truthful(ledger) /\ Truthful(u.copy.ledger) /\ Truthful(u.saved.ledger)
    BY <1>1, <1>2, <1>5 DEF Good, LedgersSpeakTrue
  <2> QED
    BY <1>1, <1>2, <2>1, SpeaksTrue, BareStays DEF Good
<1>10. Sound(u)'
  BY <1>5, <1>8 DEF Sound
<1> QED
  BY <1>1, <1>5, <1>7, <1>9, <1>10, NoneIs DEF Good

LEMMA ConvertSaveLedgerKeeps ==
    ASSUME BoardTypes, Good, ConvertSaveLedger
    PROVE  BoardTypes' /\ Good'
<1>1. PICK t, u : t = tool /\ u = tool'
  OBVIOUS
<1>2. /\ t \in Tools /\ t # None /\ t.kind = "convert" /\ t.at = "save ledger"
      /\ u = [t EXCEPT !.at = "put tasks", !.saved = [@ EXCEPT !.ledger = ledger]]
      /\ ledger' = None /\ UNCHANGED <<tasks, writer, git, runs, exposed>>
  BY <1>1 DEF ConvertSaveLedger, At, BoardTypes
<1>3. /\ t.past /\ Sure = {} /\ t.put = {}
      /\ t.saved.tasks # None /\ t.saved.tasks.form = "legacy"
      /\ t.copy = [tasks |-> NoWrites("markdown"), ledger |-> NoWrites("markdown")]
  BY <1>1, <1>2 DEF Good, Sound, ConvertSwapping
<1>4. ledger \in Directories \cup {None}
  BY DEF BoardTypes
<1>5. /\ u \in Tools /\ u.kind = "convert" /\ u.at = "put tasks" /\ u.past
      /\ u.put = t.put /\ u.copy = t.copy
      /\ u.saved.tasks = t.saved.tasks /\ u.saved.ledger = ledger
  BY <1>2, <1>3, <1>4 DEF Tools, Pairs
<1>6. Sure' = Sure /\ NoWrites("markdown")' = NoWrites("markdown")
  BY <1>2, Still DEF NoWrites
<1>7. BoardTypes'
  BY <1>1, <1>2, <1>5 DEF BoardTypes
<1>8. ConvertSwapping(u)'
  BY <1>3, <1>5, <1>6 DEF ConvertSwapping
<1>9. LedgersSpeakTrue' /\ CutoverIsBare'
  <2>1. Truthful(ledger) /\ Truthful(u.copy.ledger) /\ Truthful(u.saved.ledger)
    BY <1>1, <1>2, <1>5 DEF Good, LedgersSpeakTrue
  <2>2. Truthful(None)
    BY DEF Truthful
  <2> QED
    BY <1>1, <1>2, <2>1, <2>2, SpeaksTrue, BareStays DEF Good
<1>10. Sound(u)'
  BY <1>5, <1>8 DEF Sound
<1> QED
  BY <1>1, <1>5, <1>7, <1>9, <1>10, NoneIs DEF Good

LEMMA ConvertPutTasksKeeps ==
    ASSUME BoardTypes, Good, ConvertPutTasks
    PROVE  BoardTypes' /\ Good'
<1>1. PICK t, u : t = tool /\ u = tool'
  OBVIOUS
<1>2. /\ t \in Tools /\ t # None /\ t.kind = "convert" /\ t.at = "put tasks"
      /\ u = [t EXCEPT !.at = "put ledger", !.put = @ \cup {"tasks"}]
      /\ tasks' = t.copy.tasks /\ UNCHANGED <<ledger, writer, git, runs, exposed>>
  BY <1>1 DEF ConvertPutTasks, At, BoardTypes
<1>3. /\ t.past /\ Sure = {} /\ t.put = {}
      /\ t.saved.tasks # None /\ t.saved.tasks.form = "legacy"
      /\ t.copy = [tasks |-> NoWrites("markdown"), ledger |-> NoWrites("markdown")]
  BY <1>1, <1>2 DEF Good, Sound, ConvertSwapping
<1>4. /\ u \in Tools /\ u.kind = "convert" /\ u.at = "put ledger" /\ u.past
      /\ u.put = {"tasks"} /\ u.copy = t.copy /\ u.saved = t.saved
  BY <1>2, <1>3 DEF Tools
<1>5. /\ Sure' = Sure /\ NoWrites("markdown")' = NoWrites("markdown")
      /\ runs \in 0..MaxRuns
  BY <1>2, Still DEF NoWrites, BoardTypes
<1>6. /\ tasks' \in Directories /\ tasks'.form = "markdown" /\ tasks'.by = runs
      /\ tasks'.has = {}
  <2>1. t.copy = [tasks |-> NoWrites("markdown"), ledger |-> NoWrites("markdown")]
    BY <1>3
  <2>2. t.copy.tasks = NoWrites("markdown")
    BY <2>1
  <2>3. tasks' = NoWrites("markdown")
    BY <1>2, <2>2
  <2> QED
    BY <1>5, <2>3, NoWritesIs
<1>7. BoardTypes'
  BY <1>1, <1>2, <1>4, <1>6 DEF BoardTypes
<1>8. ConvertSwapping(u)'
  BY <1>2, <1>3, <1>4, <1>5, <1>6, NoneIs DEF ConvertSwapping
<1>9. LedgersSpeakTrue' /\ CutoverIsBare'
  <2>1. Truthful(ledger) /\ Truthful(u.copy.ledger) /\ Truthful(u.saved.ledger)
    BY <1>1, <1>2, <1>4 DEF Good, LedgersSpeakTrue
  <2> QED
    BY <1>1, <1>2, <2>1, SpeaksTrue, BareStays DEF Good
<1>10. Sound(u)'
  BY <1>4, <1>8 DEF Sound
<1> QED
  BY <1>1, <1>4, <1>7, <1>9, <1>10, NoneIs DEF Good

LEMMA ConvertPutLedgerKeeps ==
    ASSUME BoardTypes, Good, ConvertPutLedger
    PROVE  BoardTypes' /\ Good'
<1>1. PICK t, u : t = tool /\ u = tool'
  OBVIOUS
<1>2. /\ t \in Tools /\ t # None /\ t.kind = "convert" /\ t.at = "put ledger"
      /\ u = [t EXCEPT !.at = "doctor", !.put = @ \cup {"ledger"}]
      /\ ledger' = t.copy.ledger /\ UNCHANGED <<tasks, writer, git, runs, exposed>>
  BY <1>1 DEF ConvertPutLedger, At, BoardTypes
<1>3. /\ t.past /\ Sure = {} /\ t.put = {"tasks"}
      /\ t.saved.tasks # None /\ t.saved.tasks.form = "legacy"
      /\ t.copy = [tasks |-> NoWrites("markdown"), ledger |-> NoWrites("markdown")]
      /\ tasks # None /\ tasks.form = "markdown" /\ tasks.by = runs
      /\ tasks.has \subseteq exposed
  BY <1>1, <1>2 DEF Good, Sound, ConvertSwapping
<1>4. /\ u \in Tools /\ u.kind = "convert" /\ u.at = "doctor" /\ u.past
      /\ u.put = {"tasks", "ledger"} /\ u.copy = t.copy /\ u.saved = t.saved
  BY <1>2, <1>3 DEF Tools
<1>5. /\ Sure' = Sure /\ NoWrites("markdown")' = NoWrites("markdown")
      /\ runs \in 0..MaxRuns
  BY <1>2, Still DEF NoWrites, BoardTypes
<1>6. /\ ledger' \in Directories /\ ledger'.by = runs /\ ledger'.has = {}
  <2>1. t.copy = [tasks |-> NoWrites("markdown"), ledger |-> NoWrites("markdown")]
    BY <1>3
  <2>2. t.copy.ledger = NoWrites("markdown")
    BY <2>1
  <2>3. ledger' = NoWrites("markdown")
    BY <1>2, <2>2
  <2> QED
    BY <1>5, <2>3, NoWritesIs
<1>7. BoardTypes'
  BY <1>1, <1>2, <1>4, <1>6 DEF BoardTypes
<1>8. ConvertSwapping(u)'
  BY <1>2, <1>3, <1>4, <1>5, <1>6, NoneIs DEF ConvertSwapping
<1>9. LedgersSpeakTrue' /\ CutoverIsBare'
  <2>1. PICK l : l = ledger' /\ l.has = {}
    BY <1>6
  <2>2. Truthful(u.copy.ledger) /\ Truthful(u.saved.ledger)
    BY <1>1, <1>2, <1>4 DEF Good, LedgersSpeakTrue
  <2>3. Truthful(l)
    BY <2>1 DEF Truthful
  <2> QED
    BY <1>1, <1>2, <2>1, <2>2, <2>3, SpeaksTrue, BareStays DEF Good
<1>10. Sound(u)'
  BY <1>4, <1>8 DEF Sound
<1> QED
  BY <1>1, <1>4, <1>7, <1>9, <1>10, NoneIs DEF Good

LEMMA ConvertDoctorKeeps ==
    ASSUME BoardTypes, Good, ConvertDoctor
    PROVE  BoardTypes' /\ Good'
<1>1. PICK t, u : t = tool /\ u = tool'
  OBVIOUS
<1>2. /\ t \in Tools /\ t # None /\ t.kind = "convert" /\ t.at = "doctor"
      /\ u = [t EXCEPT !.at = "commit"] \/ u = None
      /\ UNCHANGED <<tasks, ledger, writer, git, runs, exposed>>
  BY <1>1 DEF ConvertDoctor, At, BoardTypes, board, Step
<1>3. ConvertSwapping(t)
  BY <1>1, <1>2 DEF Good, Sound
<1>4. CASE u = [t EXCEPT !.at = "commit"]
  <2>1. /\ u \in Tools /\ u.kind = "convert" /\ u.at = "commit" /\ u.past = t.past
        /\ u.put = t.put /\ u.copy = t.copy /\ u.saved = t.saved
    BY <1>2, <1>4 DEF Tools
  <2>2. Sure' = Sure /\ NoWrites("markdown")' = NoWrites("markdown")
    BY <1>2, Still DEF NoWrites
  <2>3. BoardTypes'
    BY <1>1, <1>2, <2>1 DEF BoardTypes
  <2>4. ConvertSwapping(u)'
    BY <1>2, <1>3, <2>1, <2>2 DEF ConvertSwapping
  <2>5. Sound(u)'
    BY <2>1, <2>4 DEF Sound
  <2>6. Truthful(ledger) /\ Truthful(u.copy.ledger) /\ Truthful(u.saved.ledger)
    BY <1>1, <1>2, <2>1 DEF Good, LedgersSpeakTrue
  <2>7. LedgersSpeakTrue' /\ CutoverIsBare'
    BY <1>1, <1>2, <2>6, SpeaksTrue, BareStays DEF Good
  <2> QED
    BY <1>1, <2>1, <2>3, <2>5, <2>7, NoneIs DEF Good
<1>5. CASE u = None
  <2>1. Kept(Sure, Due, tasks, ledger)
    BY <1>2, <1>3 DEF ConvertSwapping, Kept, Due
  <2> QED
    BY <1>1, <1>2, <1>5, <2>1, Ends
<1> QED
  BY <1>2, <1>4, <1>5

\* The cutover commit.
LEMMA ConvertCommitKeeps ==
    ASSUME BoardTypes, Good, ConvertCommit
    PROVE  BoardTypes' /\ Good'
<1>1. PICK t : t = tool
  OBVIOUS
<1>2. /\ t \in Tools /\ t # None /\ t.kind = "convert" /\ t.at = "commit"
      /\ tool' = None /\ UNCHANGED <<tasks, ledger, writer, runs, exposed>>
      /\ git' = [tasks |-> tasks, ledger |-> ledger, cutover |-> TRUE]
  BY <1>1 DEF ConvertCommit, At, BoardTypes, board
<1>3. /\ Sure = {} /\ tasks # None /\ tasks.form = "markdown" /\ tasks.by = runs
      /\ tasks.has \subseteq exposed /\ ledger # None /\ ledger.by = runs
  BY <1>1, <1>2 DEF Good, Sound, ConvertSwapping
<1>4. Sure' = Sure /\ Due' = Due
  BY <1>2, Still
<1>5. Kept(Sure, Due, tasks, ledger)'
  BY <1>2, <1>3, <1>4 DEF Kept, Due
<1>6. BoardTypes'
  BY <1>2 DEF BoardTypes
<1>7. git'.cutover /\ git'.tasks = tasks
  BY <1>2
<1>8. CutoverIsBare'
  BY <1>2, <1>3, <1>7 DEF CutoverIsBare
<1>9. Truthful(ledger)
  BY DEF Good, LedgersSpeakTrue
<1>10. LedgersSpeakTrue'
  BY <1>2, <1>9, SpeaksTrue
<1> QED
  BY <1>2, <1>5, <1>6, <1>8, <1>10 DEF Good

LEMMA ImmediateCheckKeeps ==
    ASSUME BoardTypes, Good, ImmediateCheck
    PROVE  BoardTypes' /\ Good'
<1>1. /\ UNCHANGED <<tasks, ledger, writer, git, exposed>> /\ git.cutover /\ git.tasks = tasks
      /\ Start("immediate", "revert", {})
  BY DEF ImmediateCheck, board, Clean
<1>2. /\ BoardTypes' /\ LedgersSpeakTrue' /\ CutoverIsBare'
      /\ Untouched(tool)' /\ tool' # None
      /\ tool'.kind = "immediate" /\ tool'.at = "revert" /\ ~tool'.past
  BY <1>1, Starts
<1>3. tasks'.form = "markdown" /\ git'.cutover
  BY <1>1 DEF Good, CutoverIsBare
<1> QED
  BY <1>1, <1>2, <1>3 DEF Good, Sound

\* The revert leaves the files that the cutover commit does not have, and it has none
\* of a mutation that must be kept.
LEMMA ImmediateRevertKeeps ==
    ASSUME BoardTypes, Good, ImmediateRevert
    PROVE  BoardTypes' /\ Good'
<1>1. PICK t : t = tool
  OBVIOUS
<1>2. /\ t \in Tools /\ t # None /\ t.kind = "immediate" /\ t.at = "revert"
      /\ tool' = None /\ UNCHANGED <<writer, runs, exposed>>
  BY <1>1 DEF ImmediateRevert, At, BoardTypes
<1>3. /\ Untouched(t) /\ git.cutover /\ tasks.form = "markdown"
      /\ git.tasks # None /\ git.tasks.has \subseteq exposed
      /\ Truthful(ledger)
  BY <1>1, <1>2 DEF Good, Sound, CutoverIsBare, LedgersSpeakTrue
<1>4. Kept(Sure, Due, tasks, ledger) /\ tasks # None /\ Sure \subseteq tasks.has /\ ledger # None
  BY <1>3 DEF Untouched, Kept
<1>5. Sure' = Sure /\ Due' = Due /\ Sure \cap exposed = {}
  BY <1>2, Still DEF Sure
<1>6. CASE UNCHANGED <<tasks, ledger, git>>
  BY <1>2, <1>4, <1>6, Ends
<1>7. ASSUME /\ tasks' = [NoWrites("legacy") EXCEPT !.has = tasks.has \ git.tasks.has]
             /\ \/ ledger' = None
                \/ ledger' = [NoWrites("markdown") EXCEPT !.has = ledger.has \ git.ledger.has]
             /\ git' = [tasks |-> NoWrites("legacy"), ledger |-> None, cutover |-> FALSE]
      PROVE  BoardTypes' /\ Good'
  <2>1. tasks \in Directories /\ ledger \in Directories /\ runs \in 0..MaxRuns
    BY <1>4 DEF BoardTypes
  <2>2. tasks.has \ git.tasks.has \subseteq Writers /\ ledger.has \ git.ledger.has \subseteq Writers
    BY <2>1 DEF Directories
  <2>3. /\ tasks' \in Directories /\ tasks'.form = "legacy"
        /\ tasks'.has = tasks.has \ git.tasks.has
    BY <1>7, <2>1, <2>2, NoWritesIs
  <2>4. PICK l : l = ledger'
    OBVIOUS
  <2>5. /\ l \in Directories \cup {None}
        /\ l # None => l.has = ledger.has \ git.ledger.has
    BY <1>7, <2>1, <2>2, <2>4, NoWritesIs, ZenonT(30)
  <2>6. Truthful(l)
    BY <1>3, <1>4, <2>5 DEF Truthful
  <2>7. /\ git' \in [tasks : Directories \cup {None}, ledger : Directories \cup {None},
                     cutover : BOOLEAN]
        /\ ~git'.cutover
    BY <1>7, <2>1, NoWritesIs
  <2>8. BoardTypes'
    BY <1>2, <2>3, <2>4, <2>5, <2>7 DEF BoardTypes
  <2>9. LedgersSpeakTrue' /\ CutoverIsBare'
    BY <1>2, <2>4, <2>6, <2>7, SpeaksTrue DEF CutoverIsBare
  <2>10. Kept(Sure, Due, tasks, ledger)'
    BY <1>3, <1>4, <1>5, <2>3, NoneIs DEF Kept
  <2> QED
    BY <1>2, <2>8, <2>9, <2>10 DEF Good
<1> QED
  BY <1>6, <1>7 DEF ImmediateRevert

LEMMA RollbackReadKeeps ==
    ASSUME BoardTypes, Good, RollbackRead
    PROVE  BoardTypes' /\ Good'
<1>1. /\ UNCHANGED <<tasks, ledger, writer, git, exposed>> /\ tasks.form = "markdown"
      /\ Start("rollback", "freeze", {})
  BY DEF RollbackRead, board
<1>2. /\ BoardTypes' /\ LedgersSpeakTrue' /\ CutoverIsBare'
      /\ Untouched(tool)' /\ tool' # None
      /\ tool'.kind = "rollback" /\ tool'.at = "freeze" /\ ~tool'.past
  BY <1>1, Starts
<1> QED
  BY <1>1, <1>2 DEF Good, Sound

LEMMA RollbackFreezeKeeps ==
    ASSUME BoardTypes, Good, RollbackFreeze
    PROVE  BoardTypes' /\ Good'
<1>1. PICK t, u : t = tool /\ u = tool'
  OBVIOUS
<1>2. /\ t \in Tools /\ t # None /\ t.kind = "rollback" /\ t.at = "freeze"
      /\ u = [t EXCEPT !.at = "export"]
      /\ UNCHANGED <<tasks, ledger, writer, git, runs, exposed>>
  BY <1>1 DEF RollbackFreeze, At, BoardTypes, board, Step
<1>3. Untouched(t) /\ ~t.past /\ tasks.form = "markdown"
  BY <1>1, <1>2 DEF Good, Sound, RollbackSwapping
<1>4. /\ u \in Tools /\ u.kind = "rollback" /\ u.at = "export" /\ ~u.past
      /\ u.put = t.put /\ u.copy = t.copy /\ u.saved = t.saved
  BY <1>2, <1>3 DEF Tools
<1>5. Sure' = Sure /\ Due' = Due
  BY <1>2, Still
<1>6. BoardTypes'
  BY <1>1, <1>2, <1>4 DEF BoardTypes
<1>7. Untouched(u)'
  BY <1>2, <1>3, <1>4, <1>5 DEF Untouched
<1>8. Truthful(ledger) /\ Truthful(u.copy.ledger) /\ Truthful(u.saved.ledger)
  BY <1>1, <1>2, <1>4 DEF Good, LedgersSpeakTrue
<1>9. LedgersSpeakTrue' /\ CutoverIsBare'
  BY <1>1, <1>2, <1>8, SpeaksTrue, BareStays DEF Good
<1>10. Sound(u)'
  BY <1>2, <1>3, <1>4, <1>7 DEF Sound
<1> QED
  BY <1>1, <1>4, <1>6, <1>9, <1>10, NoneIs DEF Good

\* The export is made of the board as it is at that moment.
LEMMA RollbackExportKeeps ==
    ASSUME BoardTypes, Good, RollbackExport
    PROVE  BoardTypes' /\ Good'
<1>1. PICK t, u : t = tool /\ u = tool'
  OBVIOUS
<1>2. PICK d : d = [NoWrites("legacy") EXCEPT !.has = tasks.has]
  OBVIOUS
<1>3. /\ t \in Tools /\ t # None /\ t.kind = "rollback" /\ t.at = "export"
      /\ u = [t EXCEPT !.at = "archive", !.past = TRUE, !.copy = [@ EXCEPT !.tasks = d]]
      /\ UNCHANGED <<tasks, ledger, writer, git, runs, exposed>>
  BY <1>1, <1>2 DEF RollbackExport, At, BoardTypes, board
<1>4. Untouched(t)
  BY <1>1, <1>3 DEF Good, Sound, RollbackSwapping
<1>5. tasks # None /\ Sure \subseteq tasks.has /\ tasks \in Directories /\ runs \in 0..MaxRuns
  BY <1>4 DEF Untouched, Kept, BoardTypes
<1>6. tasks.has \in SUBSET Writers
  BY <1>5 DEF Directories
<1>7. d \in Directories /\ d.form = "legacy" /\ d.has = tasks.has
  BY <1>2, <1>5, <1>6, NoWritesIs
<1>8. /\ u \in Tools /\ u.kind = "rollback" /\ u.at = "archive" /\ u.past
      /\ u.put = t.put /\ u.saved = t.saved
      /\ u.copy.tasks = d /\ u.copy.ledger = t.copy.ledger
  BY <1>3, <1>7 DEF Tools, Pairs
<1>9. Sure' = Sure /\ Due' = Due
  BY <1>3, Still
<1>10. BoardTypes'
  BY <1>1, <1>3, <1>8 DEF BoardTypes
<1>11. Untouched(u)'
  BY <1>3, <1>4, <1>8, <1>9 DEF Untouched
<1>12. RollbackSwapping(u)'
  BY <1>5, <1>7, <1>8, <1>9, <1>11, NoneIs DEF RollbackSwapping
<1>13. Truthful(ledger) /\ Truthful(u.copy.ledger) /\ Truthful(u.saved.ledger)
  BY <1>1, <1>3, <1>8 DEF Good, LedgersSpeakTrue
<1>14. LedgersSpeakTrue' /\ CutoverIsBare'
  BY <1>1, <1>3, <1>13, SpeaksTrue, BareStays DEF Good
<1>15. Sound(u)'
  BY <1>8, <1>12 DEF Sound
<1> QED
  BY <1>1, <1>8, <1>10, <1>14, <1>15, NoneIs DEF Good

LEMMA RollbackArchiveKeeps ==
    ASSUME BoardTypes, Good, RollbackArchive
    PROVE  BoardTypes' /\ Good'
<1>1. PICK t, u : t = tool /\ u = tool'
  OBVIOUS
<1>2. /\ t \in Tools /\ t # None /\ t.kind = "rollback" /\ t.at = "archive"
      /\ u = [t EXCEPT !.at = "remove", !.saved = [tasks |-> tasks, ledger |-> ledger]]
      /\ UNCHANGED <<tasks, ledger, writer, git, runs, exposed>>
  BY <1>1 DEF RollbackArchive, At, BoardTypes, board
<1>3. /\ t.past /\ Untouched(t)
      /\ t.copy.tasks # None /\ t.copy.tasks.form = "legacy" /\ Sure \subseteq t.copy.tasks.has
  BY <1>1, <1>2 DEF Good, Sound, RollbackSwapping
<1>4. t.put = {} /\ Kept(Sure, Due, tasks, ledger)
  BY <1>3 DEF Untouched
<1>5. [tasks |-> tasks, ledger |-> ledger] \in Pairs
  BY DEF BoardTypes, Pairs
<1>6. /\ u \in Tools /\ u.kind = "rollback" /\ u.at = "remove" /\ u.past
      /\ u.put = t.put /\ u.copy = t.copy /\ u.saved = [tasks |-> tasks, ledger |-> ledger]
  BY <1>2, <1>3, <1>5 DEF Tools
<1>7. u.saved.tasks = tasks /\ u.saved.ledger = ledger
  BY <1>6
<1>8. Sure' = Sure /\ Due' = Due
  BY <1>2, Still
<1>9. BoardTypes'
  BY <1>1, <1>2, <1>6 DEF BoardTypes
<1>10. RollbackSwapping(u)'
  BY <1>2, <1>3, <1>4, <1>6, <1>7, <1>8 DEF RollbackSwapping
<1>11. Truthful(ledger) /\ Truthful(u.copy.ledger) /\ Truthful(u.saved.ledger)
  BY <1>1, <1>2, <1>6, <1>7 DEF Good, LedgersSpeakTrue
<1>12. LedgersSpeakTrue' /\ CutoverIsBare'
  BY <1>1, <1>2, <1>11, SpeaksTrue, BareStays DEF Good
<1>13. Sound(u)'
  BY <1>6, <1>10 DEF Sound
<1> QED
  BY <1>1, <1>6, <1>9, <1>12, <1>13, NoneIs DEF Good

LEMMA RollbackRemoveKeeps ==
    ASSUME BoardTypes, Good, RollbackRemove
    PROVE  BoardTypes' /\ Good'
<1>1. PICK t, u : t = tool /\ u = tool'
  OBVIOUS
<1>2. /\ t \in Tools /\ t # None /\ t.kind = "rollback" /\ t.at = "remove"
      /\ u = [t EXCEPT !.at = "put", !.put = {"tasks"}]
      /\ tasks' = NoWrites("legacy") /\ ledger' = None
      /\ UNCHANGED <<writer, git, runs, exposed>>
  BY <1>1 DEF RollbackRemove, At, BoardTypes
<1>3. /\ t.past
      /\ t.copy.tasks # None /\ t.copy.tasks.form = "legacy" /\ Sure \subseteq t.copy.tasks.has
      /\ Kept(Sure, Due, t.saved.tasks, t.saved.ledger)
  BY <1>1, <1>2 DEF Good, Sound, RollbackSwapping
<1>4. /\ u \in Tools /\ u.kind = "rollback" /\ u.at = "put" /\ u.past
      /\ u.put = {"tasks"} /\ u.copy = t.copy /\ u.saved = t.saved
  BY <1>2, <1>3 DEF Tools
<1>5. tasks' \in Directories
  <2>1. runs \in 0..MaxRuns
    BY DEF BoardTypes
  <2> QED
    BY <1>2, <2>1, NoWritesIs
<1>6. Sure' = Sure /\ Due' = Due
  BY <1>2, Still
<1>7. BoardTypes'
  BY <1>1, <1>2, <1>4, <1>5 DEF BoardTypes
<1>8. tasks' # None
  BY <1>5, NoneIs
<1>9. RollbackSwapping(u)'
  BY <1>3, <1>4, <1>6, <1>8 DEF RollbackSwapping
<1>10. Truthful(u.copy.ledger) /\ Truthful(u.saved.ledger)
  BY <1>1, <1>2, <1>4 DEF Good, LedgersSpeakTrue
<1>11. Truthful(None)
  BY DEF Truthful
<1>12. LedgersSpeakTrue' /\ CutoverIsBare'
  BY <1>1, <1>2, <1>10, <1>11, SpeaksTrue, BareStays DEF Good
<1>13. Sound(u)'
  BY <1>4, <1>9 DEF Sound
<1> QED
  BY <1>1, <1>4, <1>7, <1>12, <1>13, NoneIs DEF Good

\* What a mutation has written into the gap stays beside the export.
LEMMA RollbackPutKeeps ==
    ASSUME BoardTypes, Good, RollbackPut
    PROVE  BoardTypes' /\ Good'
<1>1. PICK t, u : t = tool /\ u = tool'
  OBVIOUS
<1>2. /\ t \in Tools /\ t # None /\ t.kind = "rollback" /\ t.at = "put"
      /\ u = [t EXCEPT !.at = "probe", !.put = {"tasks", "ledger"}]
      /\ UNCHANGED <<ledger, writer, git, runs, exposed>>
  BY <1>1 DEF RollbackPut, At, BoardTypes
<1>3. /\ t.past /\ tasks # None
      /\ t.copy.tasks # None /\ t.copy.tasks.form = "legacy" /\ Sure \subseteq t.copy.tasks.has
      /\ Kept(Sure, Due, t.saved.tasks, t.saved.ledger)
  BY <1>1, <1>2 DEF Good, Sound, RollbackSwapping
<1>4. PICK d, e : /\ d = t.copy.tasks /\ d \in Directories /\ d.form = "legacy" /\ Sure \subseteq d.has
                  /\ e = tasks /\ e \in Directories
  BY <1>2, <1>3 DEF Tools, Pairs, BoardTypes
<1>5. tasks' = [d EXCEPT !.has = @ \cup e.has]
  BY <1>1, <1>4 DEF RollbackPut
<1>6. tasks' \in Directories /\ tasks'.form = "legacy" /\ Sure \subseteq tasks'.has
  BY <1>4, <1>5 DEF Directories
<1>7. /\ u \in Tools /\ u.kind = "rollback" /\ u.at = "probe" /\ u.past
      /\ u.put = {"tasks", "ledger"} /\ u.copy = t.copy /\ u.saved = t.saved
  BY <1>2, <1>3 DEF Tools
<1>8. Sure' = Sure /\ Due' = Due
  BY <1>2, Still
<1>9. BoardTypes'
  BY <1>1, <1>2, <1>6, <1>7 DEF BoardTypes
<1>10. tasks' # None
  BY <1>6, NoneIs
<1>11. RollbackSwapping(u)'
  BY <1>3, <1>6, <1>7, <1>8, <1>10 DEF RollbackSwapping
<1>12. Truthful(ledger) /\ Truthful(u.copy.ledger) /\ Truthful(u.saved.ledger)
  BY <1>1, <1>2, <1>7 DEF Good, LedgersSpeakTrue
<1>13. LedgersSpeakTrue' /\ CutoverIsBare'
  BY <1>1, <1>2, <1>12, SpeaksTrue, BareStays DEF Good
<1>14. Sound(u)'
  BY <1>7, <1>11 DEF Sound
<1> QED
  BY <1>1, <1>7, <1>9, <1>13, <1>14, NoneIs DEF Good

LEMMA RollbackProbeKeeps ==
    ASSUME BoardTypes, Good, RollbackProbe
    PROVE  BoardTypes' /\ Good'
<1>1. PICK t, u : t = tool /\ u = tool'
  OBVIOUS
<1>2. /\ t \in Tools /\ t # None /\ t.kind = "rollback" /\ t.at = "probe"
      /\ u = [t EXCEPT !.at = "commit"]
      /\ UNCHANGED <<tasks, ledger, writer, git, runs, exposed>>
  BY <1>1 DEF RollbackProbe, At, BoardTypes, board, Step
<1>3. RollbackSwapping(t)
  BY <1>1, <1>2 DEF Good, Sound
<1>4. /\ u \in Tools /\ u.kind = "rollback" /\ u.at = "commit" /\ u.past = t.past
      /\ u.put = t.put /\ u.copy = t.copy /\ u.saved = t.saved
  BY <1>2 DEF Tools
<1>5. Sure' = Sure /\ Due' = Due
  BY <1>2, Still
<1>6. BoardTypes'
  BY <1>1, <1>2, <1>4 DEF BoardTypes
<1>7. RollbackSwapping(u)'
  BY <1>2, <1>3, <1>4, <1>5 DEF RollbackSwapping
<1>8. Truthful(ledger) /\ Truthful(u.copy.ledger) /\ Truthful(u.saved.ledger)
  BY <1>1, <1>2, <1>4 DEF Good, LedgersSpeakTrue
<1>9. LedgersSpeakTrue' /\ CutoverIsBare'
  BY <1>1, <1>2, <1>8, SpeaksTrue, BareStays DEF Good
<1>10. Sound(u)'
  BY <1>4, <1>7 DEF Sound
<1> QED
  BY <1>1, <1>4, <1>6, <1>9, <1>10, NoneIs DEF Good

LEMMA RollbackCommitKeeps ==
    ASSUME BoardTypes, Good, RollbackCommit
    PROVE  BoardTypes' /\ Good'
<1>1. PICK t : t = tool
  OBVIOUS
<1>2. /\ t \in Tools /\ t # None /\ t.kind = "rollback" /\ t.at = "commit"
      /\ tool' = None /\ UNCHANGED <<tasks, ledger, writer, runs, exposed>>
      /\ git' = [tasks |-> tasks, ledger |-> ledger, cutover |-> FALSE]
  BY <1>1 DEF RollbackCommit, At, BoardTypes, board
<1>3. tasks # None /\ tasks.form = "legacy" /\ Sure \subseteq tasks.has
  BY <1>1, <1>2 DEF Good, Sound, RollbackSwapping
<1>4. Sure' = Sure /\ Due' = Due
  BY <1>2, Still
<1>5. Kept(Sure, Due, tasks, ledger)'
  BY <1>2, <1>3, <1>4 DEF Kept
<1>6. BoardTypes'
  BY <1>2 DEF BoardTypes
<1>7. CutoverIsBare'
  BY <1>2 DEF CutoverIsBare
<1>8. Truthful(ledger)
  BY DEF Good, LedgersSpeakTrue
<1>9. LedgersSpeakTrue'
  BY <1>2, <1>8, SpeaksTrue
<1> QED
  BY <1>2, <1>5, <1>6, <1>7, <1>9 DEF Good

\* A failure that can restore the archive, or happens before anything was removed.
LEMMA RollbackFailsKeeps ==
    ASSUME BoardTypes, Good, RollbackFails, broken = "no"
    PROVE  BoardTypes' /\ tool' = None /\ (broken' = "no" => Good')
<1>1. PICK t : t = tool
  OBVIOUS
<1>2. /\ t \in Tools /\ t # None /\ t.kind = "rollback"
      /\ tool' = None /\ UNCHANGED <<writer, git, runs, exposed>>
  BY <1>1 DEF RollbackFails, BoardTypes
<1>3. CASE t.at \in {"probe", "commit"}
  <2>1. tasks' = t.saved.tasks /\ ledger' = t.saved.ledger
    BY <1>1, <1>3 DEF RollbackFails
  <2>2. Kept(Sure, Due, t.saved.tasks, t.saved.ledger)
    BY <1>1, <1>2, <1>3 DEF Good, Sound, RollbackSwapping
  <2>3. /\ t.saved.tasks \in Directories \cup {None}
        /\ t.saved.ledger \in Directories \cup {None}
    BY <1>2 DEF Tools, Pairs
  <2>4. Sure' = Sure /\ Due' = Due
    BY <1>2, Still
  <2>5. BoardTypes'
    BY <1>2, <2>1, <2>3 DEF BoardTypes
  <2>6. Kept(Sure, Due, tasks, ledger)'
    BY <2>1, <2>2, <2>4 DEF Kept
  <2>7. Truthful(t.saved.ledger)
    BY <1>1, <1>2 DEF Good, LedgersSpeakTrue
  <2>8. LedgersSpeakTrue' /\ CutoverIsBare'
    BY <1>2, <2>1, <2>7, SpeaksTrue, BareStays DEF Good
  <2> QED
    BY <1>2, <2>5, <2>6, <2>8 DEF Good
<1>4. CASE t.at \notin {"probe", "commit"}
  <2>1. /\ UNCHANGED <<tasks, ledger>>
        /\ broken' = IF t.at = "put" THEN "undo failed" ELSE broken
    BY <1>1, <1>4 DEF RollbackFails, dirs
  <2>2. BoardTypes'
    BY <1>2, <2>1 DEF BoardTypes
  <2>3. CASE t.at = "put"
    BY <1>2, <2>1, <2>2, <2>3
  <2>4. CASE t.at # "put"
    <3>1. Kept(Sure, Due, tasks, ledger)
      BY <1>1, <1>2, <1>4, <2>4 DEF Good, Sound, RollbackSwapping, Untouched
    <3> QED
      BY <1>2, <2>1, <3>1, Ends
  <2> QED
    BY <2>3, <2>4
<1> QED
  BY <1>3, <1>4

LEMMA RollbackStopsKeeps ==
    ASSUME BoardTypes, Good, RollbackStops, broken = "no"
    PROVE  BoardTypes' /\ tool' = None /\ (broken' = "no" => Good')
<1>1. PICK t : t = tool
  OBVIOUS
<1>2. /\ t \in Tools /\ t # None /\ t.kind = "rollback"
      /\ tool' = None /\ UNCHANGED <<tasks, ledger, writer, git, runs, exposed>>
      /\ broken' = IF t.put # {} THEN broken' ELSE "no"
      /\ t.put # {} => broken' \in {"killed", "interrupted"}
  BY <1>1 DEF RollbackStops, BoardTypes, board
<1>3. BoardTypes'
  BY <1>2 DEF BoardTypes
<1>4. CASE t.put # {}
  BY <1>2, <1>3, <1>4
<1>5. CASE t.put = {}
  <2>1. Kept(Sure, Due, tasks, ledger)
    BY <1>1, <1>2, <1>5 DEF Good, Sound, RollbackSwapping, Untouched
  <2> QED
    BY <1>2, <2>1, Ends
<1> QED
  BY <1>4, <1>5

LEMMA CutoverKeeps ==
    ASSUME BoardTypes, Good, broken = "no", CutoverNext
    PROVE  BoardTypes' /\ (broken' # "no" => tool' = None) /\ (broken' = "no" => Good')
<1>1. CASE ConvertFails
  <2>1. tool # None /\ tool.kind \in {"merge", "convert"} /\ Undo(TRUE)
    BY <1>1 DEF ConvertFails
  <2> QED
    BY <2>1, UndoKeeps
<1>2. CASE ConvertStops
  <2>1. /\ tool # None /\ tool.kind \in {"merge", "convert"}
        /\ Stop("killed", FALSE) \/ Stop("interrupted", TRUE)
    BY <1>2 DEF ConvertStops
  <2>2. CASE Stop("killed", FALSE)
    BY <2>1, <2>2, StopKeeps
  <2>3. CASE Stop("interrupted", TRUE)
    BY <2>1, <2>3, StopKeeps
  <2> QED
    BY <2>1, <2>2, <2>3
<1>3. CASE RollbackFails
  BY <1>3, RollbackFailsKeeps
<1>4. CASE RollbackStops
  BY <1>4, RollbackStopsKeeps
<1>5. CASE \/ ConvertFreeze \/ ConvertPreflight \/ ConvertSaveTasks \/ ConvertSaveLedger
           \/ ConvertPutTasks \/ ConvertPutLedger \/ ConvertDoctor \/ ConvertCommit
           \/ ImmediateCheck \/ ImmediateRevert
  <2>1. BoardTypes' /\ Good'
    BY <1>5, ConvertFreezeKeeps, ConvertPreflightKeeps, ConvertSaveTasksKeeps,
       ConvertSaveLedgerKeeps, ConvertPutTasksKeeps, ConvertPutLedgerKeeps, ConvertDoctorKeeps,
       ConvertCommitKeeps, ImmediateCheckKeeps, ImmediateRevertKeeps
  <2>2. broken' = broken
    BY <1>5 DEF ConvertFreeze, ConvertPreflight, ConvertSaveTasks, ConvertSaveLedger,
       ConvertPutTasks, ConvertPutLedger, ConvertDoctor, ConvertCommit, ImmediateCheck,
       ImmediateRevert
  <2> QED
    BY <2>1, <2>2
<1>6. CASE \/ RollbackRead \/ RollbackFreeze \/ RollbackExport \/ RollbackArchive
           \/ RollbackRemove \/ RollbackPut \/ RollbackProbe \/ RollbackCommit
  <2>1. BoardTypes' /\ Good'
    BY <1>6, RollbackReadKeeps, RollbackFreezeKeeps, RollbackExportKeeps, RollbackArchiveKeeps,
       RollbackRemoveKeeps, RollbackPutKeeps, RollbackProbeKeeps, RollbackCommitKeeps
  <2>2. broken' = broken
    BY <1>6 DEF RollbackRead, RollbackFreeze, RollbackExport, RollbackArchive, RollbackRemove,
       RollbackPut, RollbackProbe, RollbackCommit
  <2> QED
    BY <2>1, <2>2
<1> QED
  BY <1>1, <1>2, <1>3, <1>4, <1>5, <1>6 DEF CutoverNext

---------------------------------------------------------------------------
(* WholeBoard: the theorems *)

\* The original board is whole, and nobody has written yet.
LEMMA WholeStarts == Init => WholeInv
<1> SUFFICES ASSUME Init PROVE WholeInv
  OBVIOUS
<1>1. PICK form \in {"legacy", "markdown"} :
         /\ tasks = [form |-> form, by |-> 0, rev |-> [w \in Writers |-> 0], has |-> {}]
         /\ ledger = IF form = "legacy" THEN None ELSE tasks
  BY DEF Init
<1>2. /\ tasks \in Directories /\ tasks.form = form /\ tasks.by = 0 /\ tasks.has = {}
      /\ ledger \in Directories \cup {None} /\ (form = "markdown" => ledger = tasks)
      /\ ledger # None => ledger.has = {}
  BY <1>1, NoneIs DEF Directories
<1>3. /\ git = [tasks |-> tasks, ledger |-> ledger, cutover |-> FALSE]
      /\ writer = [w \in Writers |-> [at |-> "new", tasks |-> 0, ledger |-> 0]]
      /\ tool = None /\ runs = 0 /\ exposed = {} /\ broken = "no"
  BY DEF Init
<1>4. BoardTypes
  BY <1>2, <1>3, NoneIs DEF BoardTypes
<1>5. Sure = {} /\ Due = {}
  BY <1>3 DEF Sure, Due
<1>6. Kept(Sure, Due, tasks, ledger)
  BY <1>2, <1>5, NoneIs DEF Kept
<1>7. LedgersSpeakTrue /\ CutoverIsBare
  BY <1>2, <1>3 DEF LedgersSpeakTrue, CutoverIsBare, Truthful
<1> QED
  BY <1>3, <1>4, <1>6, <1>7 DEF WholeInv, Good

\* After a tool was stopped in the middle none begins, and none is running.
LEMMA NoToolAfter ==
    ASSUME broken # "no", tool = None
    PROVE  ~MergeNext /\ ~CutoverNext
<1>1. ~MergeNext
  BY DEF MergeNext, MergePlan, MergeCopyTasks, MergeCopyLedger, MergeCompare, MergeSaveTasks,
     MergePutTasks, MergeSaveLedger, MergePutLedger, MergeVerify, MergeFails, MergeStops, Start, At
<1>2. ~(\/ ConvertFreeze \/ ConvertPreflight \/ ConvertSaveTasks \/ ConvertSaveLedger
        \/ ConvertPutTasks \/ ConvertPutLedger \/ ConvertDoctor \/ ConvertCommit
        \/ ConvertFails \/ ConvertStops)
  BY DEF ConvertFreeze, ConvertPreflight, ConvertSaveTasks, ConvertSaveLedger,
     ConvertPutTasks, ConvertPutLedger, ConvertDoctor, ConvertCommit, ConvertFails, ConvertStops,
     Start, At
<1>3. ~(\/ ImmediateCheck \/ ImmediateRevert
        \/ RollbackRead \/ RollbackFreeze \/ RollbackExport \/ RollbackArchive
        \/ RollbackRemove \/ RollbackPut \/ RollbackProbe \/ RollbackCommit
        \/ RollbackFails \/ RollbackStops)
  BY DEF ImmediateCheck, ImmediateRevert, RollbackRead, RollbackFreeze, RollbackExport,
     RollbackArchive, RollbackRemove, RollbackPut, RollbackProbe, RollbackCommit, RollbackFails,
     RollbackStops, Start, At
<1> QED
  BY <1>1, <1>2, <1>3 DEF CutoverNext

LEMMA WholeKeeps == WholeInv /\ [Next]_vars => WholeInv'
<1> SUFFICES ASSUME WholeInv, [Next]_vars PROVE WholeInv'
  OBVIOUS
<1>1. CASE Mutate
  BY <1>1, MutationsKeep
<1>2. CASE MergeNext \/ CutoverNext
  <2>1. BoardTypes /\ broken = "no" /\ Good
    BY <1>2, NoToolAfter DEF WholeInv
  <2> QED
    BY <1>2, <2>1, BoardMergeKeeps, CutoverKeeps DEF WholeInv
<1>3. CASE UNCHANGED vars
  <2>1. BoardTypes'
    BY <1>3 DEF vars, WholeInv, BoardTypes
  <2>2. Sure' = Sure /\ Due' = Due /\ Acknowledged' = Acknowledged
    BY <1>3, Still DEF vars
  <2>3. ASSUME Good PROVE LedgersSpeakTrue' /\ CutoverIsBare'
    BY <1>3, <2>2, <2>3 DEF vars, Good, LedgersSpeakTrue, CutoverIsBare, Truthful
  <2>4. ASSUME Good, tool = None PROVE Kept(Sure, Due, tasks, ledger)'
    BY <1>3, <2>2, <2>4 DEF vars, Good, Kept
  <2>5. ASSUME Good, tool # None PROVE Sound(tool)'
    <3>1. PICK t : t = tool
      OBVIOUS
    <3>2. Sound(t) /\ tool' = t
      BY <1>3, <2>5, <3>1 DEF vars, Good
    <3>3. Untouched(t) => Untouched(t)'
      BY <1>3, <2>2 DEF vars, Untouched, Kept
    <3>4. MergeCopying(t) => MergeCopying(t)'
      BY <1>3, <2>2, <3>3 DEF vars, MergeCopying
    <3>5. MergeSwapping(t) => MergeSwapping(t)'
      BY <1>3, <2>2, <3>3 DEF vars, MergeSwapping, Kept
    <3>6. ConvertSwapping(t) => ConvertSwapping(t)'
      BY <1>3, <2>2, <3>3 DEF vars, ConvertSwapping, NoWrites
    <3>7. RollbackSwapping(t) => RollbackSwapping(t)'
      BY <1>3, <2>2, <3>3 DEF vars, RollbackSwapping, Kept
    <3>8. Sound(t)'
      BY <1>3, <3>2, <3>3, <3>4, <3>5, <3>6, <3>7 DEF vars, Sound
    <3> QED
      BY <3>2, <3>8
  <2>6. Good => Good'
    BY <1>3, <2>3, <2>4, <2>5 DEF vars, Good
  <2> QED
    BY <1>3, <2>1, <2>6 DEF vars, WholeInv
<1> QED
  BY <1>1, <1>2, <1>3 DEF Next

LEMMA WholeHolds == Spec => []WholeInv
BY WholeStarts, WholeKeeps, PTL DEF Spec

\* A mutation that was acknowledged is on the board, in the tasks and in the ledger, for
\* every number of mutations and of tool runs: whatever merges, conversions and rollbacks
\* (storage.py) have run, failed or were stopped since, unless it wrote after a tool's last
\* comparison and before its end, or a tool was stopped between its swaps.
THEOREM AcknowledgedSafe == Spec => []AcknowledgedSurvive
<1>1. WholeInv => AcknowledgedSurvive
  <2> SUFFICES ASSUME WholeInv, Quiet, NEW w \in Writers \ exposed, writer[w].at = "acknowledged"
               PROVE  /\ tasks # None /\ w \in tasks.has
                      /\ tasks.form = "markdown" => ledger # None /\ w \in ledger.has
    BY DEF AcknowledgedSurvive
  <2>1. Kept(Sure, Due, tasks, ledger)
    BY DEF WholeInv, Quiet, Good
  <2>2. w \in Sure /\ w \in Due
    BY DEF Sure, Due, Acknowledged
  <2> QED
    BY <2>1, <2>2 DEF Kept
<1> QED
  BY <1>1, WholeHolds, PTL

\* Between tools the tasks and the ledger come from the same run, the original's or one
\* tool's, unless a tool was stopped between its swaps or could not undo them.
THEOREM WholeSafe == Spec => []WholeOrUndone
<1>1. WholeInv => WholeOrUndone
  BY DEF WholeInv, WholeOrUndone, Quiet, Good, Kept
<1> QED
  BY <1>1, WholeHolds, PTL

---------------------------------------------------------------------------
(* Paging                                                                  *)

\* No two rows were changed at the same time.
Distinct(s) == \A q, r \in Present(s) : s[q] = s[r] => q = r

PagingTypes ==
    /\ stamp \in [Rows -> Nat] /\ first \in [Rows -> Nat] /\ clock \in Nat
    /\ revision \in Revisions /\ secret \in {0, 1}
    /\ cursor \in Cursors \cup {NoCursor} /\ from \in Nat \cup {NoCursor}
    /\ page \in {"ready", "query", "seal", "end"}
    /\ shown \in Seq(Rows) /\ between \in BOOLEAN

Stamped ==
    /\ Distinct(stamp) /\ Distinct(first)
    /\ \A r \in Rows : stamp[r] <= clock
    /\ revision = Computed(stamp) \/ revision = Unique(clock)

\* A revision of the walk's board, which the database can have now only if
\* that board is still the one.
Binds(r) == r = Computed(first) \/ \E n \in 0..clock : r = Unique(n) /\ (n = clock => stamp = first)

\* Shown are the first rows of the walk's board, down to this key.
ShownTo(key) ==
    LET k == Len(shown)  all == InOrder(first) IN
    /\ k \in 1..Len(all) /\ shown = SubSeq(all, 1, k)
    /\ key = first[all[k]]

Along ==
    /\ page = "query" /\ cursor = NoCursor => from = NoCursor /\ shown = <<>>
    /\ page = "query" /\ cursor # NoCursor => from = cursor.last
    /\ page = "seal" => from # NoCursor
    /\ ~between =>
          /\ cursor # NoCursor /\ page \in {"ready", "query"} =>
                Binds(cursor.revision) /\ ShownTo(cursor.last)
          /\ page = "query" /\ cursor # NoCursor => stamp = first
          /\ page \in {"seal", "end"} => stamp = first
          /\ page = "seal" => ShownTo(from)
          /\ page = "end" => shown = InOrder(first)

PagingInv == PagingTypes /\ Stamped /\ Along

\* Revisions of different kinds or contents differ.
LEMMA RevisionsDiffer ==
    /\ \A n \in Nat, s \in [Rows -> Nat] : Unique(n) # Computed(s)
    /\ \A n, m \in Nat : Unique(n) = Unique(m) => n = m
    /\ \A s, t \in [Rows -> Nat] : Computed(s) = Computed(t) => s = t
    /\ \A n \in Nat : Unique(n) \in Revisions
    /\ \A s \in [Rows -> Nat] : Computed(s) \in Revisions
BY DEF Unique, Computed, Revisions

LEMMA NoCursorIs == NoCursor \notin Nat /\ NoCursor \notin Cursors
BY NoCursorAssumption

LEMMA InOrderIs ==
    ASSUME NEW s \in [Rows -> Nat], Distinct(s)
    PROVE  /\ Timed(Present(s), s) /\ Lists(InOrder(s), Present(s), s)
           /\ Cardinality(Present(s)) \in Nat /\ Len(InOrder(s)) = Cardinality(Present(s))
           /\ InOrder(s) \in Seq(Rows)
<1>1. Timed(Present(s), s)
  <2>1. IsFiniteSet(Present(s))
    BY RowsAssumption, FS_Subset DEF Present
  <2> QED
    BY <2>1 DEF Timed, Present, Distinct
<1>2. /\ Lists(InOrder(s), Present(s), s)
      /\ Cardinality(Present(s)) \in Nat /\ Len(InOrder(s)) = Cardinality(Present(s))
      /\ InOrder(s) \in Seq(Present(s))
  BY <1>1, NewestFirstIs DEF InOrder
<1>3. Present(s) \subseteq Rows
  BY DEF Present
<1> QED
  BY <1>1, <1>2, <1>3, SeqMonotonic

\* The rows after a key are a list, and after the key of a row the rest of it.
LEMMA AfterKey ==
    ASSUME NEW s \in [Rows -> Nat], Distinct(s)
    PROVE  /\ \A key \in Nat : NewestFirst({r \in Present(s) : s[r] < key}, s) \in Seq(Rows)
           /\ \A k \in 1..Len(InOrder(s)) :
                 NewestFirst({r \in Present(s) : s[r] < s[InOrder(s)[k]]}, s)
                   = SubSeq(InOrder(s), k + 1, Len(InOrder(s)))
<1>1. PICK S, q, n : S = Present(s) /\ q = InOrder(s) /\ n = Cardinality(S)
  OBVIOUS
<1>2. /\ Timed(S, s) /\ Lists(q, S, s) /\ n \in Nat /\ Len(q) = n /\ S \subseteq Rows
      /\ \A x \in S : s[x] \in Nat
  BY <1>1, InOrderIs DEF Present, Timed
<1>3. ASSUME NEW key \in Nat PROVE NewestFirst({r \in S : s[r] < key}, s) \in Seq(Rows)
  <2>1. PICK T : T = {r \in S : s[r] < key}
    OBVIOUS
  <2>2. IsFiniteSet(T) /\ T \subseteq S /\ T \subseteq Rows
    BY <1>2, <2>1, FS_Subset DEF Timed
  <2>3. Timed(T, s)
    BY <1>2, <2>2 DEF Timed
  <2>4. NewestFirst(T, s) \in Seq(T)
    BY <2>3, NewestFirstIs
  <2> QED
    BY <2>1, <2>2, <2>4, SeqMonotonic
<1>4. ASSUME NEW k \in 1..n
      PROVE  NewestFirst({r \in S : s[r] < s[q[k]]}, s) = SubSeq(q, k + 1, n)
  <2>1. PICK c : c = s[q[k]]
    OBVIOUS
  <2>2. q[k] \in S /\ c \in Nat
    BY <1>1, <1>2, <2>1 DEF Lists
  <2>3. ASSUME NEW i \in 1..n PROVE s[q[i]] < c <=> i > k
    <3>1. /\ s[q[i]] \in Nat
          /\ k < i => s[q[k]] > s[q[i]]
          /\ i < k => s[q[i]] > s[q[k]]
      BY <1>1, <1>2 DEF Lists
    <3>2. i < k \/ i = k \/ k < i
      BY <1>2
    <3> QED
      BY <2>1, <2>2, <3>1, <3>2
  <2>4. Divides(c, k, q, S, s, s)
    BY <1>1, <1>2, <2>2, <2>3 DEF Divides
  <2> QED
    BY <1>1, <2>1, <2>4, OlderAreTheRest
<1> QED
  BY <1>1, <1>2, <1>3, <1>4

LEMMA PagingStarts == PagingInit => PagingInv
<1> SUFFICES ASSUME PagingInit PROVE PagingInv
  OBVIOUS
<1>1. Cardinality(Rows) \in Nat
  BY RowsAssumption, FS_CardinalityType
<1>2. /\ stamp \in [Rows -> Nat] /\ clock \in Nat /\ first = stamp /\ Distinct(stamp)
      /\ \A r \in Rows : stamp[r] <= clock
      /\ revision = Computed(stamp) /\ secret = 0 /\ cursor = NoCursor /\ page = "ready"
      /\ from = NoCursor /\ shown = <<>> /\ between = FALSE
  BY <1>1 DEF PagingInit, Distinct
<1>3. PagingTypes /\ Stamped
  <2>1. shown \in Seq(Rows) /\ between \in BOOLEAN
    BY <1>2, EmptySeq
  <2>2. revision \in Revisions
    BY <1>2, RevisionsDiffer
  <2>3. PagingTypes
    BY <1>2, <2>1, <2>2 DEF PagingTypes
  <2> QED
    BY <1>2, <2>3 DEF Stamped
<1>4. Along
  BY <1>2 DEF Along
<1> QED
  BY <1>3, <1>4 DEF PagingInv

LEMMA ChangeKeeps ==
    ASSUME PagingInv, NEW r \in Rows, NEW new \in {0, clock + 1}, Change(r, new)
    PROVE  PagingInv'
<1>1. /\ PagingTypes /\ Stamped /\ Along /\ clock \in Nat /\ clock' = clock + 1
      /\ stamp' = [stamp EXCEPT ![r] = new] /\ revision' = Unique(clock')
      /\ between' = (between \/ Walking)
      /\ UNCHANGED <<secret, cursor, page, from, shown, first>>
  BY DEF PagingInv, PagingTypes, Change
<1>2. clock' \in Nat /\ new \in Nat /\ stamp' \in [Rows -> Nat] /\ between' \in BOOLEAN
  BY <1>1 DEF PagingTypes
<1>3. PagingTypes'
  BY <1>1, <1>2, RevisionsDiffer DEF PagingTypes
<1>4. /\ \A q \in Rows \ {r} : stamp'[q] = stamp[q] /\ stamp[q] <= clock /\ stamp[q] \in Nat
      /\ stamp'[r] = new
  BY <1>1 DEF PagingTypes, Stamped
<1>5. \A q \in Rows : stamp'[q] <= clock'
  BY <1>1, <1>4
<1>6. Distinct(stamp)'
  <2> SUFFICES ASSUME NEW p \in Rows, NEW q \in Rows, stamp'[p] > 0, stamp'[q] > 0, stamp'[p] = stamp'[q]
               PROVE  p = q
    BY DEF Distinct, Present
  <2>1. CASE p = r \/ q = r
    BY <1>1, <1>4, <2>1
  <2>2. CASE p # r /\ q # r
    BY <1>1, <1>4, <2>2 DEF Stamped, Distinct, Present
  <2> QED
    BY <2>1, <2>2
<1>7. Stamped'
  BY <1>1, <1>5, <1>6 DEF Stamped, Distinct, Present
<1>8. Along'
  <2>1. CASE page = "ready" /\ ~between
    <3>1. ASSUME cursor # NoCursor PROVE Binds(cursor.revision)' /\ ShownTo(cursor.last)'
      <4>1. Binds(cursor.revision) /\ ShownTo(cursor.last)
        BY <1>1, <2>1, <3>1 DEF Along
      <4>2. \A n \in 0..clock : n \in 0..clock' /\ n # clock'
        BY <1>1
      <4> QED
        BY <1>1, <4>1, <4>2 DEF Binds, ShownTo
    <3> QED
      BY <1>1, <2>1, <3>1 DEF Along
  <2>2. CASE page # "ready" \/ between
    <3>1. between'
      BY <1>1, <2>2 DEF Walking
    <3> QED
      BY <1>1, <3>1 DEF Along
  <2> QED
    BY <2>1, <2>2
<1> QED
  BY <1>3, <1>7, <1>8 DEF PagingInv

LEMMA RebuildKeeps ==
    ASSUME PagingInv, Rebuild \/ Recreate
    PROVE  PagingInv'
<1>1. /\ PagingTypes /\ Stamped /\ Along /\ revision' = Computed(stamp) /\ secret' \in {0, 1}
      /\ UNCHANGED <<stamp, clock, cursor, page, from, shown, first, between>>
  BY DEF PagingInv, PagingTypes, Rebuild, Recreate
<1>2. PagingTypes'
  BY <1>1, RevisionsDiffer DEF PagingTypes
<1>3. Stamped'
  BY <1>1 DEF Stamped, Distinct, Present
<1>4. Along'
  BY <1>1 DEF Along, Binds, ShownTo
<1> QED
  BY <1>2, <1>3, <1>4 DEF PagingInv

LEMMA StartWalkKeeps ==
    ASSUME PagingInv, StartWalk
    PROVE  PagingInv'
<1>1. /\ PagingTypes /\ Stamped /\ page' = "query" /\ from' = NoCursor /\ cursor' = NoCursor
      /\ shown' = <<>> /\ between' = FALSE
      /\ UNCHANGED <<stamp, clock, revision, secret, first>>
  BY DEF PagingInv, StartWalk, pagingBoard
<1>2. PagingTypes'
  <2>1. shown' \in Seq(Rows) /\ between' \in BOOLEAN
    BY <1>1, EmptySeq
  <2> QED
    BY <1>1, <2>1 DEF PagingTypes
<1>3. Stamped'
  BY <1>1 DEF Stamped, Distinct, Present
<1>4. Along'
  BY <1>1 DEF Along
<1> QED
  BY <1>2, <1>3, <1>4 DEF PagingInv

\* A cursor that is accepted is one of the board as it is.
LEMMA ContinueKeeps ==
    ASSUME PagingInv, Continue
    PROVE  PagingInv'
<1>1. /\ PagingTypes /\ Stamped /\ Along /\ page = "ready" /\ cursor # NoCursor
      /\ cursor \in Cursors
      /\ UNCHANGED <<stamp, clock, revision, secret, shown, first, between>>
  BY DEF PagingInv, PagingTypes, Continue, pagingBoard
<1>2. Stamped'
  BY <1>1 DEF Stamped, Distinct, Present
<1>3. CASE ~Accepts(cursor)
  <2>1. page' = "ready" /\ from' = from /\ cursor' = NoCursor
    BY <1>1, <1>3 DEF Continue
  <2>2. PagingTypes'
    BY <1>1, <2>1 DEF PagingTypes
  <2>3. Along'
    BY <1>1, <2>1 DEF Along
  <2> QED
    BY <1>2, <2>2, <2>3 DEF PagingInv
<1>4. CASE Accepts(cursor)
  <2>1. page' = "query" /\ from' = cursor.last /\ cursor' = cursor
    BY <1>1, <1>4 DEF Continue
  <2>2. cursor.last \in Nat
    BY <1>1 DEF Cursors
  <2>3. PagingTypes'
    BY <1>1, <2>1, <2>2 DEF PagingTypes
  <2>4. ASSUME ~between PROVE Binds(cursor.revision) /\ ShownTo(cursor.last) /\ stamp = first
    <3>1. Binds(cursor.revision) /\ ShownTo(cursor.last)
      BY <1>1, <2>4 DEF Along
    <3>2. stamp = first
      <4>1. Binds(revision)
        BY <1>4, <3>1 DEF Accepts
      <4>2. stamp \in [Rows -> Nat] /\ first \in [Rows -> Nat] /\ clock \in Nat
        BY <1>1 DEF PagingTypes
      <4>3. CASE revision = Computed(first)
        BY <1>1, <4>2, <4>3, RevisionsDiffer DEF Stamped
      <4>4. CASE \E n \in 0..clock : revision = Unique(n) /\ (n = clock => stamp = first)
        <5>1. PICK n \in 0..clock : revision = Unique(n) /\ (n = clock => stamp = first)
          BY <4>4
        <5>2. n \in Nat
          OBVIOUS
        <5> QED
          BY <1>1, <4>2, <5>1, <5>2, RevisionsDiffer DEF Stamped
      <4> QED
        BY <4>1, <4>3, <4>4 DEF Binds
    <3> QED
      BY <3>1, <3>2
  <2>5. Along'
    BY <1>1, <2>1, <2>4 DEF Along, Binds, ShownTo
  <2> QED
    BY <1>2, <2>3, <2>5 DEF PagingInv
<1> QED
  BY <1>3, <1>4

LEMMA SealKeeps ==
    ASSUME PagingInv, Seal
    PROVE  PagingInv'
<1>1. /\ PagingTypes /\ Stamped /\ Along /\ page = "seal" /\ page' = "ready"
      /\ cursor' = [last |-> from, revision |-> revision, secret |-> secret]
      /\ UNCHANGED <<stamp, clock, revision, secret, from, shown, first, between>>
  BY DEF PagingInv, Seal, pagingBoard
<1>2. from \in Nat
  BY <1>1 DEF PagingTypes, Along
<1>3. cursor' \in Cursors /\ cursor'.last = from /\ cursor'.revision = revision
  BY <1>1, <1>2 DEF PagingTypes, Cursors
<1>4. PagingTypes'
  BY <1>1, <1>3 DEF PagingTypes
<1>5. Stamped'
  BY <1>1 DEF Stamped, Distinct, Present
<1>6. ASSUME ~between PROVE Binds(revision) /\ ShownTo(from)
  <2>1. stamp = first /\ ShownTo(from)
    BY <1>1, <1>6 DEF Along
  <2>2. clock \in 0..clock
    BY <1>1 DEF PagingTypes
  <2> QED
    BY <1>1, <2>1, <2>2 DEF Stamped, Binds
<1>7. Along'
  BY <1>1, <1>3, <1>6 DEF Along, Binds, ShownTo
<1> QED
  BY <1>4, <1>5, <1>7 DEF PagingInv

LEMMA EndWalkKeeps ==
    ASSUME PagingInv, EndWalk
    PROVE  PagingInv'
<1>1. /\ PagingTypes /\ Stamped /\ page' = "ready" /\ cursor' = NoCursor
      /\ UNCHANGED <<stamp, clock, revision, secret, from, shown, first, between>>
  BY DEF PagingInv, EndWalk, pagingBoard
<1>2. PagingTypes'
  BY <1>1 DEF PagingTypes
<1>3. Stamped'
  BY <1>1 DEF Stamped, Distinct, Present
<1>4. Along'
  BY <1>1 DEF Along
<1> QED
  BY <1>2, <1>3, <1>4 DEF PagingInv

LEMMA QueryKeeps ==
    ASSUME PagingInv, Query
    PROVE  PagingInv'
<1>1. /\ PagingTypes /\ Stamped /\ Along /\ page = "query" /\ PageSize \in Nat \ {0}
      /\ first' = (IF shown = <<>> THEN stamp ELSE first)
      /\ UNCHANGED <<stamp, clock, revision, secret, cursor, between>>
      /\ stamp \in [Rows -> Nat] /\ first \in [Rows -> Nat] /\ Distinct(stamp) /\ Distinct(first)
  BY PageSizeAssumption DEF PagingInv, PagingTypes, Stamped, Query, pagingBoard
<1>2. PICK rest, l : rest = Rest /\ l = Len(rest)
  OBVIOUS
<1>3. rest \in Seq(Rows) /\ l \in Nat
  <2>1. Rest \in Seq(Rows)
    BY <1>1, InOrderIs, AfterKey DEF PagingTypes, Rest
  <2> QED
    BY <1>2, <2>1
<1>4. PICK m : m = IF l < PageSize THEN l ELSE PageSize
  OBVIOUS
<1>5. /\ m \in Nat /\ m <= l /\ (l > PageSize => m = PageSize) /\ (l <= PageSize => m = l)
      /\ m = 0 => l = 0
  BY <1>1, <1>3, <1>4
<1>6. PICK rows : rows = SubSeq(rest, 1, m)
  OBVIOUS
<1>7. /\ rows \in Seq(Rows) /\ Len(rows) = m
      /\ \A i \in 1..m : rows[i] = rest[i] /\ rest[i] \in Rows
  BY <1>2, <1>3, <1>5, <1>6, FirstPart
<1>8. /\ shown' = shown \o rows
      /\ l > PageSize => page' = "seal" /\ from' = stamp[rows[m]]
      /\ ~(l > PageSize) => page' = "end" /\ from' = from
  <2>1. rows = SubSeq(Rest, 1, IF Len(Rest) < PageSize THEN Len(Rest) ELSE PageSize)
    BY <1>2, <1>4, <1>6
  <2> QED
    BY <1>2, <1>7, <2>1 DEF Query
<1>9. l > PageSize => from' \in Nat
  <2> SUFFICES ASSUME l > PageSize PROVE from' \in Nat
    OBVIOUS
  <2>1. m \in 1..m
    BY <1>1, <1>5
  <2>2. rows[m] \in Rows
    BY <1>7, <2>1
  <2> QED
    BY <1>1, <1>8, <2>2
<1>10. PagingTypes'
  <2>1. shown' \in Seq(Rows)
    BY <1>1, <1>7, <1>8, ConcatProperties DEF PagingTypes
  <2>2. first' \in [Rows -> Nat]
    BY <1>1
  <2>3. from' \in Nat \cup {NoCursor} /\ page' \in {"ready", "query", "seal", "end"}
    BY <1>1, <1>8, <1>9 DEF PagingTypes
  <2> QED
    BY <1>1, <2>1, <2>2, <2>3 DEF PagingTypes
<1>11. Stamped'
  <2>1. Distinct(first)'
    BY <1>1 DEF Distinct, Present
  <2>2. Distinct(stamp)'
    BY <1>1 DEF Distinct, Present
  <2> QED
    BY <1>1, <2>1, <2>2 DEF Stamped
<1>12. ASSUME ~between
       PROVE  /\ stamp' = first'
              /\ page' = "seal" => ShownTo(from)'
              /\ page' = "end" => shown' = InOrder(first)'
  <2>1. PICK k, all, n : k = Len(shown) /\ all = InOrder(stamp) /\ n = Len(all)
    OBVIOUS
  <2>2. /\ k \in Nat /\ all \in Seq(Rows) /\ n \in Nat
    BY <1>1, <2>1, InOrderIs DEF PagingTypes
  <2>3. /\ k <= n /\ shown = SubSeq(all, 1, k) /\ rest = SubSeq(all, k + 1, n)
        /\ first' = stamp
    <3>1. CASE cursor = NoCursor
      <4>1. shown = <<>> /\ from = NoCursor
        BY <1>1, <3>1 DEF Along
      <4>2. k = 0 /\ rest = all
        BY <1>2, <2>1, <4>1 DEF Rest
      <4>3. SubSeq(all, 1, 0) = <<>> /\ SubSeq(all, 1, n) = all
        BY <2>1, <2>2, SubSeqEmpty, SubSeqFull
      <4> QED
        BY <1>1, <2>2, <4>1, <4>2, <4>3
    <3>2. CASE cursor # NoCursor
      <4>1. stamp = first /\ from = cursor.last /\ ShownTo(cursor.last)
        BY <1>1, <1>12, <3>2 DEF Along
      <4>2. k \in 1..n /\ shown = SubSeq(all, 1, k) /\ from = stamp[all[k]]
        BY <2>1, <4>1 DEF ShownTo
      <4>3. from # NoCursor
        <5>1. cursor \in Cursors
          BY <1>1, <3>2 DEF PagingTypes
        <5> QED
          BY <4>1, <5>1, NoCursorIs DEF Cursors
      <4>4. rest = NewestFirst({r \in Present(stamp) : stamp[r] < stamp[all[k]]}, stamp)
        BY <1>2, <4>2, <4>3 DEF Rest
      <4>5. rest = SubSeq(all, k + 1, n)
        BY <1>1, <2>1, <4>2, <4>4, AfterKey
      <4> QED
        BY <1>1, <2>2, <4>1, <4>2, <4>5
    <3> QED
      BY <3>1, <3>2
  <2>4. PICK d \in Nat : n = k + d
    <3>1. n - k \in Nat /\ n = k + (n - k)
      BY <2>2, <2>3
    <3> QED
      BY <3>1
  <2>5. rest = SubSeq(all, k + 1, k + d) /\ k + d <= Len(all) /\ l = d /\ m <= d
    <3>1. rest = SubSeq(all, k + 1, k + d)
      BY <2>3, <2>4
    <3>2. k + d <= Len(all)
      BY <2>1, <2>2, <2>4
    <3>3. Len(SubSeq(all, k + 1, k + d)) = d
      BY <2>2, <2>4, <3>2, Part
    <3> QED
      BY <1>2, <1>5, <3>1, <3>2, <3>3
  <2>6. k + m \in Nat /\ k + m <= Len(all)
    BY <1>5, <2>1, <2>2, <2>4, <2>5
  <2>7. shown' = SubSeq(all, 1, k + m)
    <3>1. SubSeq(SubSeq(all, k + 1, k + d), 1, m) = SubSeq(all, k + 1, k + m)
      BY <1>5, <2>2, <2>4, <2>5, PartOfPart
    <3>2. SubSeq(all, 1, k) \o SubSeq(all, k + 1, k + m) = SubSeq(all, 1, k + m)
      BY <1>5, <2>2, <2>6, PartsJoin
    <3> QED
      BY <1>6, <1>8, <2>3, <2>5, <3>1, <3>2
  <2>8. Len(shown') = k + m /\ (InOrder(first))' = all
    <3>1. Len(SubSeq(all, 1, k + m)) = k + m
      BY <2>2, <2>6, FirstPart
    <3>2. (InOrder(first))' = all
      BY <1>1, <2>1, <2>3 DEF InOrder, Present
    <3> QED
      BY <2>7, <3>1, <3>2
  <2>9. CASE l > PageSize
    <3>1. m >= 1 /\ m \in 1..m /\ k + m \in 1..Len(all)
      BY <1>1, <1>5, <2>2, <2>6, <2>9
    <3>2. rows[m] = all[k + m]
      <4>1. \A i \in 1..d : SubSeq(all, k + 1, k + d)[i] = all[k + i]
        <5>1. all \in Seq(Rows) /\ k \in Nat /\ d \in Nat /\ k + d <= Len(all)
          BY <2>2, <2>4, <2>5
        <5> QED
          BY ONLY <5>1, Part
      <4>2. m \in 1..d
        BY <1>5, <2>5, <3>1
      <4> QED
        BY <1>7, <2>5, <3>1, <4>1, <4>2
    <3>3. page' = "seal" /\ from' = stamp[all[k + m]]
      BY <1>8, <2>9, <3>2
    <3> QED
      BY <1>1, <2>3, <2>7, <2>8, <3>1, <3>3 DEF ShownTo
  <2>10. CASE ~(l > PageSize)
    <3>1. m = d /\ k + m = n
      BY <1>1, <1>3, <1>5, <2>4, <2>5, <2>10
    <3>2. shown' = all
      BY <2>1, <2>2, <2>7, <3>1, SubSeqFull
    <3> QED
      BY <1>1, <1>8, <2>3, <2>8, <2>10, <3>2
  <2> QED
    BY <2>9, <2>10
<1>13. page' = "seal" \/ page' = "end"
  BY <1>8
<1>14. page' = "seal" => from' # NoCursor
  BY <1>8, <1>9, NoCursorIs
<1>15. Along'
  BY <1>1, <1>12, <1>13, <1>14 DEF Along
<1> QED
  BY <1>10, <1>11, <1>15 DEF PagingInv

LEMMA PagingKeeps == PagingInv /\ [PagingNext]_pagingVars => PagingInv'
<1> SUFFICES ASSUME PagingInv, [PagingNext]_pagingVars PROVE PagingInv'
  OBVIOUS
<1>1. ASSUME NEW r \in Rows, Change(r, clock + 1) \/ (stamp[r] > 0 /\ Change(r, 0))
      PROVE  PagingInv'
  BY <1>1, ChangeKeeps
<1>2. CASE Rebuild \/ Recreate \/ StartWalk \/ Continue \/ Query \/ Seal \/ EndWalk
  BY <1>2, RebuildKeeps, StartWalkKeeps, ContinueKeeps, QueryKeeps, SealKeeps, EndWalkKeeps
<1>3. CASE UNCHANGED pagingVars
  <2>1. UNCHANGED <<stamp, clock, revision, secret, cursor, page, from, shown, first, between>>
    BY <1>3 DEF pagingVars, pagingBoard
  <2> QED
    BY <2>1 DEF PagingInv, PagingTypes, Stamped, Distinct, Present, Along, Binds, ShownTo
<1> QED
  BY <1>1, <1>2, <1>3 DEF PagingNext

\* A walk that ends without a refusal, and with no change inside one of its commands, has
\* shown every row of one board once and in order, for any rows, page size, changes, rebuilds
\* and new databases between its commands (cache.py, query; cli.py, _cmd_indexed_collection).
THEOREM WalkSafe == PagingSpec => []WalkIsExact
<1>1. PagingInv => WalkIsExact
  BY DEF PagingInv, Along, WalkIsExact
<1> QED
  BY <1>1, PagingStarts, PagingKeeps, PTL DEF PagingSpec

---------------------------------------------------------------------------
(* DependencyGraph: lists without repetition *)

LEMMA ListGrows ==
    ASSUME NEW S, NEW s \in Seq(S), IsInjective(s), NEW x \in S, x \notin ToSet(s)
    PROVE  /\ Append(s, x) \in Seq(S) /\ IsInjective(Append(s, x))
           /\ ToSet(Append(s, x)) = ToSet(s) \cup {x}
<1>1. PICK n : n = Len(s) /\ n \in Nat /\ DOMAIN s = 1..n
  OBVIOUS
<1>2. PICK t : t = Append(s, x)
  OBVIOUS
<1>3. /\ t \in Seq(S) /\ Len(t) = n + 1 /\ t[n + 1] = x
      /\ \A i \in 1..n : t[i] = s[i]
  BY <1>1, <1>2, AppendProperties
<1>4. DOMAIN t = 1..n + 1 /\ \A i \in 1..n + 1 : i \in 1..n \/ i = n + 1
  BY <1>1, <1>3
<1>5. \A i \in 1..n : t[i] \in ToSet(s)
  BY <1>1, <1>3 DEF ToSet
<1>6. IsInjective(t)
  BY <1>1, <1>3, <1>4, <1>5 DEF IsInjective
<1>7. ToSet(t) = ToSet(s) \cup {x}
  <2>1. \A i \in 1..n : i \in 1..n + 1
    BY <1>1
  <2>2. n + 1 \in 1..n + 1
    BY <1>1
  <2> QED
    BY <1>1, <1>3, <1>4, <2>1, <2>2 DEF ToSet
<1> QED
  BY <1>2, <1>3, <1>6, <1>7

LEMMA HeadLeaves ==
    ASSUME NEW S, NEW s \in Seq(S), IsInjective(s), s # <<>>
    PROVE  /\ Head(s) \in ToSet(s) /\ Head(s) \in S
           /\ Tail(s) \in Seq(S) /\ IsInjective(Tail(s))
           /\ ToSet(Tail(s)) = ToSet(s) \ {Head(s)}
<1>1. PICK n : n + 1 = Len(s) /\ n \in Nat /\ DOMAIN s = 1..n + 1
  <2>1. Len(s) \in Nat \ {0} /\ DOMAIN s = 1..Len(s)
    OBVIOUS
  <2>2. Len(s) - 1 \in Nat /\ (Len(s) - 1) + 1 = Len(s)
    BY <2>1
  <2> QED
    BY <2>1, <2>2
<1>2. PICK t : t = Tail(s)
  OBVIOUS
<1>3. /\ t \in Seq(S) /\ Len(t) = n /\ Head(s) = s[1] /\ \A i \in 1..n : t[i] = s[i + 1]
  BY <1>1, <1>2, HeadTailProperties
<1>4. DOMAIN t = 1..n /\ 1 \in 1..n + 1
  BY <1>1, <1>3
<1>5. s[1] \in S /\ s[1] \in ToSet(s)
  BY <1>1, <1>4 DEF ToSet
<1>6. \A i \in 1..n : i + 1 \in 1..n + 1 /\ i + 1 # 1
  BY <1>1
<1>7. IsInjective(t)
  <2> SUFFICES ASSUME NEW i \in 1..n, NEW j \in 1..n, t[i] = t[j] PROVE i = j
    BY <1>4 DEF IsInjective
  <2>1. i + 1 = j + 1
    BY <1>1, <1>3, <1>6, SMTT(30) DEF IsInjective
  <2> QED
    BY <2>1
<1>8. ASSUME NEW x PROVE x \in ToSet(t) <=> x \in ToSet(s) /\ x # s[1]
  <2>1. ASSUME NEW i \in 1..n, t[i] = x PROVE x \in ToSet(s) /\ x # s[1]
    BY <1>1, <1>3, <1>4, <1>6, <2>1 DEF ToSet, IsInjective
  <2>2. ASSUME NEW i \in 1..n + 1, s[i] = x, x # s[1] PROVE x \in ToSet(t)
    <3>1. i # 1 /\ i - 1 \in 1..n /\ (i - 1) + 1 = i
      BY <1>1, <2>2
    <3>2. t[i - 1] = x
      BY <1>3, <2>2, <3>1
    <3> QED
      BY <1>4, <3>1, <3>2 DEF ToSet
  <2> QED
    BY <1>1, <1>4, <2>1, <2>2 DEF ToSet
<1>9. ToSet(t) = ToSet(s) \ {s[1]}
  BY <1>8
<1> QED
  BY <1>2, <1>3, <1>5, <1>7, <1>9

LEMMA ListsJoin ==
    ASSUME NEW S, NEW a \in Seq(S), NEW b \in Seq(S), IsInjective(a), IsInjective(b),
           ToSet(a) \cap ToSet(b) = {}
    PROVE  /\ a \o b \in Seq(S) /\ IsInjective(a \o b)
           /\ ToSet(a \o b) = ToSet(a) \cup ToSet(b)
<1>1. PICK m \in Nat, n \in Nat : m = Len(a) /\ n = Len(b) /\ DOMAIN a = 1..m /\ DOMAIN b = 1..n
  <2>1. Len(a) \in Nat /\ DOMAIN a = 1..Len(a) /\ Len(b) \in Nat /\ DOMAIN b = 1..Len(b)
    BY LenProperties
  <2> QED
    BY <2>1
<1>2. PICK t : t = a \o b
  OBVIOUS
<1>3. /\ t \in Seq(S) /\ Len(t) = m + n
      /\ \A i \in 1..m + n : t[i] = IF i <= m THEN a[i] ELSE b[i - m]
  BY <1>1, <1>2, ConcatProperties
<1>4. DOMAIN t = 1..m + n
  BY <1>1, <1>3
<1>5. /\ \A i \in 1..m + n : i <= m => i \in 1..m
      /\ \A i \in 1..m + n : ~(i <= m) => i - m \in 1..n
      /\ \A i \in 1..m : i \in 1..m + n /\ i <= m
      /\ \A i \in 1..n : i + m \in 1..m + n /\ ~(i + m <= m) /\ (i + m) - m = i
  BY <1>1
<1>6. \A i \in 1..m + n : IF i <= m THEN t[i] \in ToSet(a) ELSE t[i] \in ToSet(b)
  <2> SUFFICES ASSUME NEW i \in 1..m + n
               PROVE  IF i <= m THEN t[i] \in ToSet(a) ELSE t[i] \in ToSet(b)
    OBVIOUS
  <2>1. CASE i <= m
    <3>1. i \in DOMAIN a /\ t[i] = a[i]
      BY <1>1, <1>3, <1>5, <2>1
    <3> QED
      BY <2>1, <3>1 DEF ToSet
  <2>2. CASE ~(i <= m)
    <3>1. i - m \in DOMAIN b /\ t[i] = b[i - m]
      BY <1>1, <1>3, <1>5, <2>2
    <3> QED
      BY <2>2, <3>1 DEF ToSet
  <2> QED
    BY <2>1, <2>2
<1>7. IsInjective(t)
  <2> SUFFICES ASSUME NEW i \in 1..m + n, NEW j \in 1..m + n, t[i] = t[j] PROVE i = j
    BY <1>4 DEF IsInjective
  <2>1. (i <= m) <=> (j <= m)
    BY <1>6
  <2>2. CASE i <= m
    BY <1>1, <1>3, <1>5, <2>1, <2>2 DEF IsInjective
  <2>3. CASE ~(i <= m)
    <3>1. i - m \in DOMAIN b /\ j - m \in DOMAIN b /\ b[i - m] = b[j - m]
      BY <1>1, <1>3, <1>5, <2>1, <2>3
    <3>2. i - m = j - m
      BY <3>1 DEF IsInjective
    <3> QED
      BY <1>1, <3>2
  <2> QED
    BY <2>2, <2>3
<1>8. ToSet(t) = ToSet(a) \cup ToSet(b)
  <2>1. ToSet(t) \subseteq ToSet(a) \cup ToSet(b)
    BY <1>4, <1>6 DEF ToSet
  <2>2. ToSet(a) \subseteq ToSet(t)
    BY <1>1, <1>3, <1>4, <1>5 DEF ToSet
  <2>3. ASSUME NEW i \in 1..n PROVE b[i] \in ToSet(t)
    <3>1. t[i + m] = b[i] /\ i + m \in 1..m + n
      BY <1>3, <1>5
    <3> QED
      BY <1>4, <3>1 DEF ToSet
  <2>4. ToSet(b) \subseteq ToSet(t)
    BY <1>1, <2>3 DEF ToSet
  <2> QED
    BY <2>1, <2>2, <2>4
<1> QED
  BY <1>2, <1>3, <1>7, <1>8

\* A set of numbers in ascending order is such a list.
LEMMA AscendingList ==
    ASSUME NEW S \in SUBSET Nat, IsFiniteSet(S)
    PROVE  /\ Ascending(S) \in Seq(S) /\ IsInjective(Ascending(S))
           /\ ToSet(Ascending(S)) = S
<1>1. PICK q, n : q = Ascending(S) /\ n = Cardinality(S)
  OBVIOUS
<1>2. q \in Seq(S) /\ Len(q) = n /\ Enumerates(q, S) /\ n \in Nat
  BY <1>1, AscendingIs, FS_CardinalityType
<1>3. DOMAIN q = 1..n
  BY <1>2
<1>4. /\ \A i \in 1..n : q[i] \in S /\ q[i] \in Nat
      /\ \A i, j \in 1..n : i < j => q[i] < q[j]
      /\ \A x \in S : \E i \in 1..n : q[i] = x
  BY <1>1, <1>2 DEF Enumerates
<1>5. IsInjective(q)
  <2> SUFFICES ASSUME NEW i \in 1..n, NEW j \in 1..n, q[i] = q[j] PROVE i = j
    BY <1>3 DEF IsInjective
  <2>1. ~(i < j) /\ ~(j < i)
    BY <1>4
  <2> QED
    BY <1>2, <2>1
<1>6. ToSet(q) = S
  BY <1>3, <1>4 DEF ToSet
<1> QED
  BY <1>1, <1>2, <1>5, <1>6


---------------------------------------------------------------------------
(* DependencyGraph: Kahn's algorithm *)

GraphTypes ==
    /\ place \in [Nodes -> {"open", "done", "cold", "absent"}]
    /\ blockedBy \in [Hot -> SUBSET Nodes]
    /\ degree \in [Hot -> Nat]
    /\ queue \in Seq(Hot) /\ listed \in Seq(Hot)
    /\ relaxed \in 0..Len(listed)
    /\ longest \in [Hot -> Nat] /\ parent \in [Hot -> Hot \cup {0}]
    /\ path \in Seq(Hot)
    /\ answer \in {"none", "missing", "cycle", "ordered", "tracing", "path"}

\* What t still waits for, in the order so far.
Awaited(t) == ActiveBlockers(t) \ ToSet(listed)

Counted ==
    /\ IsInjective(listed) /\ IsInjective(queue) /\ ToSet(listed) \cap ToSet(queue) = {}
    /\ \A t \in Hot : degree[t] = Cardinality(Awaited(t))
    /\ \A t \in Hot : degree[t] = 0 <=> t \in ToSet(listed) \cup ToSet(queue)
    /\ \A i \in DOMAIN listed : \A b \in ActiveBlockers(listed[i]) :
          \E j \in DOMAIN listed : j < i /\ listed[j] = b

Answered ==
    /\ answer # "none" => queue = <<>>
    /\ answer \in {"ordered", "tracing", "path"} => ToSet(listed) = Hot
    /\ answer = "missing" => \E t \in Hot : ActiveBlockers(t) \ Hot # {}
    /\ answer = "cycle" =>
          \E C \in (SUBSET Hot) \ {{}} : \A t \in C : ActiveBlockers(t) \cap C # {}
    /\ answer \in {"none", "missing", "cycle"} => relaxed = 0

\* The tasks whose dependents are relaxed, a first part of the order.
Relaxed == {listed[i] : i \in 1..relaxed}

Measured ==
    /\ \A d \in Hot : longest[d] >= 1 /\ longest[d] <= relaxed + 1
    /\ \A d \in Hot : \A n \in ActiveBlockers(d) \cap Relaxed : longest[d] >= longest[n] + 1
    /\ \A d \in Hot : parent[d] = 0 => longest[d] = 1
    /\ \A d \in Hot : parent[d] # 0 =>
          /\ parent[d] \in ActiveBlockers(d) \cap Relaxed
          /\ longest[d] = longest[parent[d]] + 1

Traced ==
    /\ answer \in {"tracing", "path"} => relaxed = Len(listed)
    /\ answer \in {"tracing", "path"} /\ path # <<>> =>
          /\ Greatest(path[Len(path)]) /\ Chain(path)
          /\ Len(path) + longest[path[1]] = longest[path[Len(path)]] + 1
    /\ answer = "tracing" => path # <<>>
    /\ answer = "path" =>
          IF path = <<>> THEN \A t \in Hot : longest[t] <= 1 ELSE parent[path[1]] = 0

GraphInv == GraphTypes /\ Counted /\ Answered /\ Measured /\ Traced

LEMMA HotIs ==
    /\ Nodes \subseteq Nat /\ IsFiniteSet(Nodes) /\ 0 \notin Nodes
    /\ Hot \subseteq Nodes /\ IsFiniteSet(Hot) /\ 0 \notin Hot
<1>1. NumNodes \in Nat
  BY NumNodesAssumption
<1>2. Nodes \subseteq Nat /\ 0 \notin Nodes
  BY <1>1 DEF Nodes
<1>3. IsFiniteSet(Nodes)
  BY <1>1, FS_Interval DEF Nodes
<1>4. Hot \subseteq Nodes
  BY DEF Hot
<1> QED
  BY <1>2, <1>3, <1>4, FS_Subset

\* The active blockers are those that must be done before, and the edges forward
\* lead back from them.
LEMMA ActiveIs ==
    ASSUME GraphTypes, NEW t \in Hot
    PROVE  /\ ActiveBlockers(t) \in SUBSET Nodes /\ IsFiniteSet(ActiveBlockers(t))
           /\ ActiveBlockers(t) = Before(t)
           /\ \A b \in ActiveBlockers(t) : t \in Forward(b) /\ place[t] = "open" /\ place[b] # "done"
<1>1. blockedBy[t] \in SUBSET Nodes /\ t \in Nodes /\ place[t] \in {"open", "done"}
  BY HotIs DEF GraphTypes, Hot
<1>2. ActiveBlockers(t) \in SUBSET Nodes
  BY <1>1 DEF ActiveBlockers
<1>3. IsFiniteSet(ActiveBlockers(t))
  BY <1>2, HotIs, FS_Subset
<1>4. ActiveBlockers(t) = Before(t)
  BY DEF ActiveBlockers, Before, Resolved
<1>5. \A b \in ActiveBlockers(t) : t \in Forward(b) /\ place[t] = "open" /\ place[b] # "done"
  BY DEF ActiveBlockers, Forward, Resolved
<1> QED
  BY <1>2, <1>3, <1>4, <1>5

\* No step changes the board.
LEMMA BoardStays ==
    ASSUME UNCHANGED graphInput
    PROVE  /\ place' = place /\ blockedBy' = blockedBy /\ Hot' = Hot
           /\ \A t : ActiveBlockers(t)' = ActiveBlockers(t) /\ Before(t)' = Before(t)
           /\ \A s : Chain(s)' = Chain(s)
<1>1. place' = place /\ blockedBy' = blockedBy
  BY DEF graphInput
<1>2. Hot' = Hot
  BY <1>1 DEF Hot
<1>3. \A t : ActiveBlockers(t)' = ActiveBlockers(t) /\ Before(t)' = Before(t)
  BY <1>1 DEF ActiveBlockers, Resolved, Before
<1>4. \A s : Chain(s)' = Chain(s)
  BY <1>3 DEF Chain
<1> QED
  BY <1>1, <1>2, <1>3, <1>4

LEMMA GraphStarts == GraphInit => GraphInv
<1> SUFFICES ASSUME GraphInit PROVE GraphInv
  OBVIOUS
<1>1. /\ place \in [Nodes -> {"open", "done", "cold", "absent"}]
      /\ blockedBy \in [Hot -> SUBSET Nodes]
      /\ degree = [t \in Hot |-> InDegree(t)]
      /\ queue = Ascending({t \in Hot : degree[t] = 0})
      /\ listed = <<>> /\ relaxed = 0
      /\ longest = [t \in Hot |-> 1] /\ parent = [t \in Hot |-> 0]
      /\ path = <<>> /\ answer = "none"
  BY DEF GraphInit
<1>2. ToSet(listed) = {} /\ listed \in Seq(Hot) /\ path \in Seq(Hot) /\ IsInjective(listed)
      /\ DOMAIN listed = {} /\ Len(listed) = 0
  BY <1>1, EmptySeq DEF ToSet, IsInjective
<1>3. ASSUME NEW t \in Hot
      PROVE  /\ degree[t] = Cardinality(Awaited(t)) /\ degree[t] \in Nat
  <2>1. blockedBy[t] \in SUBSET Nodes
    BY <1>1
  <2>2. ActiveBlockers(t) \in SUBSET Nodes
    BY <2>1 DEF ActiveBlockers
  <2>3. IsFiniteSet(ActiveBlockers(t))
    BY <2>2, HotIs, FS_Subset
  <2>4. Awaited(t) = ActiveBlockers(t)
    BY <1>2 DEF Awaited
  <2> QED
    BY <1>1, <2>3, <2>4, FS_CardinalityType DEF InDegree
<1>4. PICK free : free = {t \in Hot : degree[t] = 0}
  OBVIOUS
<1>5. queue \in Seq(Hot) /\ IsInjective(queue) /\ ToSet(queue) = free
  <2>1. free \subseteq Hot /\ free \in SUBSET Nat /\ IsFiniteSet(free)
    BY <1>4, HotIs, FS_Subset
  <2>2. queue \in Seq(free) /\ IsInjective(queue) /\ ToSet(queue) = free
    BY <1>1, <1>4, <2>1, AscendingList
  <2> QED
    BY <2>1, <2>2, SeqMonotonic
<1>6. GraphTypes
  BY <1>1, <1>2, <1>3, <1>5 DEF GraphTypes
<1>7. Counted
  BY <1>2, <1>3, <1>4, <1>5 DEF Counted
<1>8. Answered
  BY <1>1 DEF Answered
<1>9. Measured
  <2>1. 1..relaxed = {}
    BY <1>1
  <2>2. Relaxed = {}
    BY <2>1 DEF Relaxed
  <2>3. \A d \in Hot : longest[d] = 1 /\ parent[d] = 0
    BY <1>1
  <2>4. relaxed = 0
    BY <1>1
  <2> QED
    BY <2>2, <2>3, <2>4 DEF Measured
<1>10. Traced
  BY <1>1 DEF Traced
<1> QED
  BY <1>6, <1>7, <1>8, <1>9, <1>10 DEF GraphInv

LEMMA ListNextKeeps ==
    ASSUME GraphInv, ListNext
    PROVE  GraphInv'
<1>1. /\ GraphTypes /\ Counted /\ Answered /\ Measured /\ Traced /\ queue # <<>>
      /\ UNCHANGED <<relaxed, longest, parent, path, answer>> /\ UNCHANGED graphInput
  BY DEF GraphInv, ListNext
<1>2. PICK t : t = Head(queue)
  OBVIOUS
<1>3. /\ listed' = Append(listed, t) /\ queue' = Tail(queue) \o Ascending(Freed(t))
      /\ degree' = [d \in Hot |-> IF d \in Forward(t) /\ t \in ActiveBlockers(d) /\ degree[d] > 0
                                  THEN degree[d] - 1 ELSE degree[d]]
  BY <1>2 DEF ListNext
<1>4. answer = "none" /\ relaxed = 0
  BY <1>1 DEF Answered, GraphTypes
<1>5. /\ t \in ToSet(queue) /\ t \in Hot
      /\ Tail(queue) \in Seq(Hot) /\ IsInjective(Tail(queue))
      /\ ToSet(Tail(queue)) = ToSet(queue) \ {t}
  BY <1>1, <1>2, HeadLeaves DEF GraphTypes, Counted
<1>6. t \notin ToSet(listed) /\ degree[t] = 0
  BY <1>1, <1>5 DEF Counted
<1>7. ASSUME NEW d \in Hot
      PROVE  /\ IsFiniteSet(Awaited(d)) /\ degree[d] = Cardinality(Awaited(d)) /\ degree[d] \in Nat
             /\ degree[d] = 0 => ActiveBlockers(d) \subseteq ToSet(listed)
  <2>1. IsFiniteSet(ActiveBlockers(d)) /\ Awaited(d) \subseteq ActiveBlockers(d)
    BY <1>1, ActiveIs DEF Awaited
  <2>2. IsFiniteSet(Awaited(d)) /\ degree[d] = Cardinality(Awaited(d)) /\ degree[d] \in Nat
    BY <1>1, <2>1, FS_Subset DEF Counted, GraphTypes
  <2>3. degree[d] = 0 => Awaited(d) = {}
    BY <2>2, FS_EmptySet
  <2> QED
    BY <2>2, <2>3 DEF Awaited
<1>8. /\ listed' \in Seq(Hot) /\ IsInjective(listed') /\ ToSet(listed') = ToSet(listed) \cup {t}
  BY <1>1, <1>3, <1>5, <1>6, ListGrows DEF GraphTypes, Counted
<1>9. PICK freed : freed = Freed(t)
  OBVIOUS
<1>10. freed = {d \in Hot : t \in ActiveBlockers(d) /\ degree[d] = 1}
  BY <1>1, <1>9, ActiveIs DEF Freed, Forward
<1>11. /\ Ascending(freed) \in Seq(Hot) /\ IsInjective(Ascending(freed))
       /\ ToSet(Ascending(freed)) = freed
  <2>1. freed \subseteq Hot /\ freed \in SUBSET Nat /\ IsFiniteSet(freed)
    BY <1>10, HotIs, FS_Subset
  <2> QED
    BY <2>1, AscendingList, SeqMonotonic
<1>12. \A d \in freed : d \in Hot /\ d \notin ToSet(listed) \cup ToSet(queue)
  BY <1>1, <1>10 DEF Counted
<1>13. /\ queue' \in Seq(Hot) /\ IsInjective(queue')
       /\ ToSet(queue') = (ToSet(queue) \ {t}) \cup freed
  <2>1. ToSet(Tail(queue)) \cap ToSet(Ascending(freed)) = {}
    BY <1>5, <1>11, <1>12
  <2> QED
    <3>1. PICK a, b, new : a = Tail(queue) /\ b = Ascending(freed) /\ new = a \o b
      OBVIOUS
    <3>2. a \in Seq(Hot) /\ IsInjective(a) /\ ToSet(a) = ToSet(queue) \ {t}
      BY <1>5, <3>1
    <3>3. b \in Seq(Hot) /\ IsInjective(b) /\ ToSet(b) = freed
      BY <1>11, <3>1
    <3>4. ToSet(a) \cap ToSet(b) = {}
      BY <2>1, <3>1
    <3>5. a \o b \in Seq(Hot) /\ IsInjective(a \o b) /\ ToSet(a \o b) = ToSet(a) \cup ToSet(b)
      BY ONLY <3>2, <3>3, <3>4, ListsJoin
    <3>6. queue' = new
      BY <1>3, <1>9, <3>1
    <3> QED
      BY <3>1, <3>2, <3>3, <3>5, <3>6
<1>14. Hot' = Hot /\ \A d : ActiveBlockers(d)' = ActiveBlockers(d)
  BY <1>1, BoardStays
<1>15. ASSUME NEW d \in Hot
       PROVE  /\ degree'[d] \in Nat /\ degree'[d] = Cardinality(Awaited(d)')
              /\ degree'[d] = 0 <=> d \in ToSet(listed') \cup ToSet(queue')
  <2>1. Awaited(d)' = Awaited(d) \ {t}
    BY <1>8, <1>14 DEF Awaited
  <2>2. CASE t \in ActiveBlockers(d)
    <3>1. t \in Awaited(d) /\ d \in Forward(t)
      BY <1>1, <1>6, <2>2, ActiveIs DEF Awaited
    <3>2. Cardinality(Awaited(d) \ {t}) = degree[d] - 1 /\ degree[d] # 0
      <4>1. Awaited(d) # {}
        BY <3>1
      <4>2. degree[d] # 0
        BY <1>7, <4>1, FS_EmptySet
      <4> QED
        BY <1>7, <3>1, <4>2, FS_RemoveElement
    <3>3. degree'[d] = degree[d] - 1 /\ degree'[d] \in Nat
      BY <1>3, <1>7, <2>2, <3>1, <3>2
    <3>4. d \notin ToSet(listed) \cup ToSet(queue) /\ d # t
      BY <1>1, <1>6, <3>2 DEF Counted
    <3>5. d \in freed <=> degree[d] = 1
      BY <1>10, <2>2
    <3>6. degree'[d] = 0 <=> degree[d] = 1
      BY <1>7, <3>3
    <3> QED
      BY <1>8, <1>13, <2>1, <3>2, <3>3, <3>4, <3>5, <3>6
  <2>3. CASE t \notin ActiveBlockers(d)
    <3>1. degree'[d] = degree[d] /\ d \notin freed
      BY <1>3, <1>10, <2>3
    <3>2. Awaited(d) \ {t} = Awaited(d)
      BY <2>3 DEF Awaited
    <3>3. degree[d] = 0 <=> d \in ToSet(listed) \cup ToSet(queue)
      BY <1>1 DEF Counted
    <3> QED
      BY <1>5, <1>7, <1>8, <1>13, <2>1, <3>1, <3>2, <3>3
  <2> QED
    BY <2>2, <2>3
<1>16. GraphTypes'
  <2>1. degree' \in [Hot -> Nat]
    <3>1. PICK f : f = degree'
      OBVIOUS
    <3>2. f = [d \in Hot |-> f[d]] /\ \A d \in Hot : f[d] \in Nat
      BY <1>3, <1>15, <3>1
    <3> QED
      BY <3>1, <3>2
  <2>2. relaxed' \in 0..Len(listed')
    <3>1. Len(listed') \in Nat
      BY <1>8
    <3> QED
      BY <1>1, <1>4, <3>1
  <2>3. place' = place /\ blockedBy' = blockedBy
    BY <1>1, BoardStays
  <2> QED
    BY <1>1, <1>8, <1>13, <1>14, <2>1, <2>2, <2>3 DEF GraphTypes
<1>17. Counted'
  <2>1. ToSet(listed') \cap ToSet(queue') = {}
    BY <1>1, <1>5, <1>8, <1>12, <1>13 DEF Counted
  <2>2. ASSUME NEW i \in DOMAIN listed', NEW b \in ActiveBlockers(listed'[i])
        PROVE  \E j \in DOMAIN listed' : j < i /\ listed'[j] = b
    <3>1. PICK n \in Nat : n = Len(listed) /\ DOMAIN listed = 1..n
      <4>1. listed \in Seq(Hot)
        BY <1>1 DEF GraphTypes
      <4>2. Len(listed) \in Nat /\ DOMAIN listed = 1..Len(listed)
        BY ONLY <4>1, LenProperties
      <4> QED
        BY <4>2
    <3>2. /\ DOMAIN listed' = 1..n + 1 /\ listed'[n + 1] = t
          /\ \A k \in 1..n : listed'[k] = listed[k]
      BY <1>1, <1>3, <1>5, <3>1, AppendProperties DEF GraphTypes
    <3>3. \A k \in 1..n : k \in 1..n + 1 /\ k < n + 1
      BY <3>1
    <3>4. CASE i \in 1..n
      <4>1. PICK j \in 1..n : j < i /\ listed[j] = b
        BY <1>1, <3>1, <3>2, <3>4 DEF Counted
      <4> QED
        BY <3>2, <3>3, <4>1
    <3>5. CASE i = n + 1
      <4>1. b \in ToSet(listed)
        BY <1>5, <1>6, <1>7, <3>2, <3>5
      <4>2. PICK j \in 1..n : listed[j] = b
        BY <3>1, <4>1 DEF ToSet
      <4> QED
        BY <3>2, <3>3, <3>5, <4>2
    <3> QED
      BY <3>1, <3>2, <3>4, <3>5
  <2> QED
    BY <1>8, <1>13, <1>14, <1>15, <2>1, <2>2 DEF Counted
<1>18. Answered' /\ Traced'
  BY <1>1, <1>4 DEF Answered, Traced
<1>19. Measured'
  <2>1. 1..relaxed = {}
    BY <1>4
  <2>2. Relaxed = {} /\ Relaxed' = {}
    BY <1>1, <2>1 DEF Relaxed
  <2> QED
    BY <1>1, <1>14, <2>2 DEF Measured
<1> QED
  BY <1>16, <1>17, <1>18, <1>19 DEF GraphInv

\* A refusal names a blocker without a file, or every task that is left waits for
\* another that is left.
LEMMA RefuseOrderKeeps ==
    ASSUME GraphInv, RefuseOrder
    PROVE  GraphInv'
<1>1. /\ GraphTypes /\ Counted /\ Answered /\ Measured /\ Traced
      /\ answer = "none" /\ queue = <<>> /\ Left # {}
      /\ answer' = IF \E t \in Left : ActiveBlockers(t) \ Hot # {} THEN "missing" ELSE "cycle"
      /\ UNCHANGED <<degree, queue, listed, relaxed, longest, parent, path>>
      /\ UNCHANGED graphInput
  BY DEF GraphInv, RefuseOrder
<1>2. place' = place /\ blockedBy' = blockedBy /\ Hot' = Hot
      /\ \A t : ActiveBlockers(t)' = ActiveBlockers(t)
  BY <1>1, BoardStays
<1>3. answer' \in {"missing", "cycle"}
  BY <1>1
<1>4. GraphTypes' /\ Counted' /\ Measured' /\ Traced'
  <2>1. GraphTypes'
    BY <1>1, <1>2, <1>3 DEF GraphTypes
  <2>2. Counted'
    BY <1>1, <1>2 DEF Counted, Awaited
  <2>3. Measured'
    BY <1>1, <1>2 DEF Measured, Relaxed
  <2>4. Traced'
    BY <1>3 DEF Traced
  <2> QED
    BY <2>1, <2>2, <2>3, <2>4
<1>5. Left \subseteq Hot
  BY DEF Left
<1>6. CASE \E t \in Left : ActiveBlockers(t) \ Hot # {}
  <2>1. answer' = "missing" /\ \E t \in Hot : ActiveBlockers(t) \ Hot # {}
    BY <1>1, <1>5, <1>6
  <2>2. Answered'
    BY <1>1, <1>2, <2>1 DEF Answered
  <2> QED
    BY <1>4, <2>2 DEF GraphInv
<1>7. CASE ~\E t \in Left : ActiveBlockers(t) \ Hot # {}
  <2>1. answer' = "cycle"
    BY <1>1, <1>7
  <2>2. ASSUME NEW t \in Left PROVE ActiveBlockers(t) \cap Left # {}
    <3>1. t \in Hot /\ t \notin ToSet(listed) /\ ToSet(queue) = {}
      BY <1>1, EmptySeq DEF Left, ToSet
    <3>2. degree[t] # 0 /\ degree[t] = Cardinality(Awaited(t))
      BY <1>1, <3>1 DEF Counted
    <3>3. Awaited(t) # {}
      BY <3>2, FS_EmptySet
    <3>4. PICK b \in ActiveBlockers(t) : b \notin ToSet(listed)
      BY <3>3 DEF Awaited
    <3>5. b \in Left
      BY <1>7, <3>4 DEF Left
    <3> QED
      BY <3>4, <3>5
  <2>3. Left \in (SUBSET Hot) \ {{}}
    BY <1>1, <1>5
  <2>4. Answered'
    BY <1>1, <1>2, <2>1, <2>2, <2>3 DEF Answered
  <2> QED
    BY <1>4, <2>4 DEF GraphInv
<1> QED
  BY <1>6, <1>7

LEMMA AcceptKeeps ==
    ASSUME GraphInv, Accept
    PROVE  GraphInv'
<1>1. /\ GraphTypes /\ Counted /\ Answered /\ Measured /\ Traced
      /\ queue = <<>> /\ Left = {} /\ answer' = "ordered"
      /\ UNCHANGED <<degree, queue, listed, relaxed, longest, parent, path>>
      /\ UNCHANGED graphInput
  BY DEF GraphInv, Accept
<1>2. place' = place /\ blockedBy' = blockedBy /\ Hot' = Hot
      /\ \A t : ActiveBlockers(t)' = ActiveBlockers(t)
  BY <1>1, BoardStays
<1>3. GraphTypes' /\ Counted' /\ Measured' /\ Traced'
  <2>1. GraphTypes'
    BY <1>1, <1>2 DEF GraphTypes
  <2>2. Counted'
    BY <1>1, <1>2 DEF Counted, Awaited
  <2>3. Measured'
    BY <1>1, <1>2 DEF Measured, Relaxed
  <2>4. Traced'
    BY <1>1 DEF Traced
  <2> QED
    BY <2>1, <2>2, <2>3, <2>4
<1>4. ToSet(listed) = Hot
  <2>1. ToSet(listed) \subseteq Hot
    BY <1>1 DEF GraphTypes, ToSet
  <2> QED
    BY <1>1, <2>1 DEF Left
<1>5. Answered'
  BY <1>1, <1>2, <1>4 DEF Answered
<1> QED
  BY <1>3, <1>5 DEF GraphInv

---------------------------------------------------------------------------
(* DependencyGraph: the critical path *)

\* The tasks that wait for the one under work come later in the order.
LEMMA DependentsComeLater ==
    ASSUME GraphInv, answer = "ordered", relaxed < Len(listed), NEW n, n = listed[relaxed + 1]
    PROVE  /\ n \in Hot /\ n \notin Relaxed /\ Relaxed \subseteq Hot
           /\ {listed[i] : i \in 1..relaxed + 1} = Relaxed \cup {n}
           /\ \A d \in Hot : n \in ActiveBlockers(d) => d \notin Relaxed /\ d # n
<1>1. /\ listed \in Seq(Hot) /\ relaxed \in 0..Len(listed) /\ IsInjective(listed)
      /\ ToSet(listed) = Hot
      /\ \A i \in DOMAIN listed : \A b \in ActiveBlockers(listed[i]) :
            \E j \in DOMAIN listed : j < i /\ listed[j] = b
  BY DEF GraphInv, GraphTypes, Counted, Answered
<1>2. PICK m \in Nat, k \in Nat : m = Len(listed) /\ DOMAIN listed = 1..m /\ k = relaxed /\ k < m
  <2>1. Len(listed) \in Nat /\ DOMAIN listed = 1..Len(listed)
    BY ONLY <1>1, LenProperties
  <2>2. relaxed \in Nat
    BY <1>1, <2>1
  <2> QED
    BY <2>1, <2>2
<1>3. k + 1 \in 1..m /\ \A i \in 1..k : i \in 1..m /\ i # k + 1
  BY <1>2
<1>4. n \in Hot /\ n = listed[k + 1]
  BY <1>1, <1>2, <1>3
<1>5. n \notin Relaxed /\ Relaxed \subseteq Hot
  BY <1>1, <1>2, <1>3, <1>4 DEF Relaxed, IsInjective
<1>6. {listed[i] : i \in 1..relaxed + 1} = Relaxed \cup {n}
  <2>1. 1..k + 1 = (1..k) \cup {k + 1}
    BY <1>2
  <2> QED
    BY <1>2, <1>4, <2>1 DEF Relaxed
<1>7. ASSUME NEW d \in Hot, n \in ActiveBlockers(d) PROVE d \notin Relaxed /\ d # n
  <2>1. PICK i \in 1..m : listed[i] = d
    BY <1>1, <1>2 DEF ToSet
  <2>2. PICK j \in 1..m : j < i /\ listed[j] = n
    BY <1>1, <1>2, <1>7, <2>1
  <2>3. j = k + 1
    BY <1>1, <1>2, <1>3, <1>4, <2>2 DEF IsInjective
  <2>4. i # k + 1 /\ i \notin 1..k
    BY <1>2, <2>1, <2>2, <2>3
  <2>5. \A e \in 1..k : listed[e] # d
    BY <1>1, <1>2, <1>3, <2>1, <2>4 DEF IsInjective
  <2>6. d # n
    BY <1>1, <1>2, <1>3, <1>4, <2>1, <2>4 DEF IsInjective
  <2> QED
    BY <1>2, <2>5, <2>6 DEF Relaxed
<1> QED
  BY <1>4, <1>5, <1>6, <1>7

LEMMA RelaxKeeps ==
    ASSUME GraphInv, Relax
    PROVE  GraphInv'
<1>1. /\ GraphTypes /\ Counted /\ Answered /\ Measured /\ Traced
      /\ answer = "ordered" /\ relaxed < Len(listed) /\ relaxed' = relaxed + 1
      /\ UNCHANGED <<degree, queue, listed, path, answer>> /\ UNCHANGED graphInput
  BY DEF GraphInv, Relax
<1>2. PICK n : n = listed[relaxed + 1]
  OBVIOUS
<1>3. PICK better : better = {d \in Forward(n) : n \in ActiveBlockers(d) /\ Longer(d, n)}
  OBVIOUS
<1>4. /\ longest' = [d \in Hot |-> IF d \in better THEN longest[n] + 1 ELSE longest[d]]
      /\ parent' = [d \in Hot |-> IF d \in better THEN n ELSE parent[d]]
  BY <1>2, <1>3 DEF Relax
<1>5. /\ n \in Hot /\ n \notin Relaxed /\ Relaxed \subseteq Hot /\ n # 0
      /\ \A d \in Hot : n \in ActiveBlockers(d) => d \notin Relaxed /\ d # n
  BY <1>1, <1>2, DependentsComeLater, HotIs
<1>6. Relaxed' = Relaxed \cup {n}
  <2>1. Relaxed' = {listed[i] : i \in 1..relaxed + 1}
    BY <1>1 DEF Relaxed
  <2> QED
    BY <1>1, <1>2, <2>1, DependentsComeLater
<1>7. place' = place /\ blockedBy' = blockedBy /\ Hot' = Hot
      /\ \A t : ActiveBlockers(t)' = ActiveBlockers(t)
  BY <1>1, BoardStays
<1>8. \A d \in Hot : longest[d] \in Nat /\ parent[d] \in Hot \cup {0}
  BY <1>1 DEF GraphTypes
<1>9. relaxed \in Nat /\ Len(listed) \in Nat /\ relaxed' \in 0..Len(listed)
  <2>1. listed \in Seq(Hot) /\ relaxed \in 0..Len(listed)
    BY <1>1 DEF GraphTypes
  <2>2. Len(listed) \in Nat
    BY ONLY <2>1, LenProperties
  <2> QED
    BY <1>1, <2>1, <2>2
<1>10. \A d \in Hot : d \in better <=> n \in ActiveBlockers(d) /\ longest[n] + 1 > longest[d]
  BY <1>1, <1>3, ActiveIs DEF Forward, Longer
<1>11. \A m \in Relaxed \cup {n} : m \in Hot /\ m \notin better /\ longest'[m] = longest[m]
  BY <1>4, <1>5, <1>10
<1>12. GraphTypes'
  <2>1. longest' \in [Hot -> Nat]
    BY <1>4, <1>5, <1>8
  <2>2. parent' \in [Hot -> Hot \cup {0}]
    BY <1>4, <1>5, <1>8
  <2> QED
    BY <1>1, <1>7, <1>9, <2>1, <2>2 DEF GraphTypes
<1>13. Counted' /\ Answered' /\ Traced'
  BY <1>1, <1>7 DEF Counted, Awaited, Answered, Traced
<1>14. ASSUME NEW d \in Hot
       PROVE  /\ longest'[d] >= 1 /\ longest'[d] <= relaxed' + 1 /\ longest'[d] >= longest[d]
              /\ \A m \in ActiveBlockers(d) \cap (Relaxed \cup {n}) : longest'[d] >= longest'[m] + 1
              /\ parent'[d] = 0 => longest'[d] = 1
              /\ parent'[d] # 0 => /\ parent'[d] \in ActiveBlockers(d) \cap (Relaxed \cup {n})
                                   /\ longest'[d] = longest'[parent'[d]] + 1
  <2>1. /\ longest[d] \in Nat /\ longest[n] \in Nat /\ longest[d] >= 1
        /\ longest[d] <= relaxed + 1 /\ longest[n] <= relaxed + 1
        /\ \A m \in ActiveBlockers(d) \cap Relaxed : longest[d] >= longest[m] + 1
        /\ parent[d] = 0 => longest[d] = 1
        /\ parent[d] # 0 => parent[d] \in ActiveBlockers(d) \cap Relaxed
                            /\ longest[d] = longest[parent[d]] + 1
    BY <1>1, <1>5, <1>8 DEF Measured
  <2>2. \A m \in Relaxed \cup {n} : longest'[m] = longest[m] /\ longest[m] \in Nat
    BY <1>8, <1>11
  <2>3. CASE d \in better
    <3>1. /\ longest'[d] = longest[n] + 1 /\ parent'[d] = n /\ n \in ActiveBlockers(d)
          /\ longest[n] + 1 > longest[d]
      BY <1>4, <1>10, <2>3
    <3>2. longest'[d] >= 1 /\ longest'[d] <= relaxed' + 1 /\ longest'[d] >= longest[d]
      BY <1>1, <1>9, <2>1, <3>1
    <3>3. ASSUME NEW m \in ActiveBlockers(d) \cap (Relaxed \cup {n})
          PROVE  longest'[d] >= longest'[m] + 1
      <4>1. CASE m = n
        BY <2>1, <2>2, <3>1, <4>1
      <4>2. CASE m \in Relaxed
        <5>1. longest[d] >= longest[m] + 1 /\ longest'[m] = longest[m] /\ longest[m] \in Nat
          BY <2>1, <2>2, <4>2
        <5> QED
          BY <2>1, <3>1, <5>1
      <4> QED
        BY <4>1, <4>2
    <3> QED
      BY <1>5, <2>2, <3>1, <3>2, <3>3
  <2>4. CASE d \notin better
    <3>1. longest'[d] = longest[d] /\ parent'[d] = parent[d]
      BY <1>4, <2>4
    <3>2. longest'[d] >= 1 /\ longest'[d] <= relaxed' + 1 /\ longest'[d] >= longest[d]
      BY <1>1, <1>9, <2>1, <3>1
    <3>3. ASSUME NEW m \in ActiveBlockers(d) \cap (Relaxed \cup {n})
          PROVE  longest'[d] >= longest'[m] + 1
      <4>1. CASE m = n
        <5>1. ~(longest[n] + 1 > longest[d])
          BY <1>10, <2>4, <4>1
        <5> QED
          BY <2>1, <2>2, <3>1, <4>1, <5>1
      <4>2. CASE m \in Relaxed
        BY <2>1, <2>2, <3>1, <4>2
      <4> QED
        BY <4>1, <4>2
    <3> QED
      BY <2>1, <2>2, <3>1, <3>2, <3>3
  <2> QED
    BY <2>3, <2>4
<1>15. Measured'
  BY <1>6, <1>7, <1>14 DEF Measured
<1> QED
  BY <1>12, <1>13, <1>15 DEF GraphInv

\* Some task has the greatest length and, of those that have it, the greatest ID.
LEMMA GreatestExists ==
    ASSUME GraphInv, Hot # {}
    PROVE  \E t \in Hot : Greatest(t)
<1>1. \A t \in Hot : longest[t] \in Nat /\ longest[t] >= 1 /\ longest[t] <= relaxed + 1
  BY DEF GraphInv, GraphTypes, Measured
<1>2. PICK bound \in Nat : bound = relaxed + 1
  <2>1. listed \in Seq(Hot) /\ relaxed \in 0..Len(listed)
    BY DEF GraphInv, GraphTypes
  <2>2. relaxed + 1 \in Nat
    BY <2>1
  <2> QED
    BY <2>2
<1>3. PICK lengths : lengths = {longest[t] : t \in Hot}
  OBVIOUS
<1>4. lengths \in SUBSET (1..bound) /\ lengths # {}
  BY <1>1, <1>2, <1>3
<1>5. PICK max \in lengths : \A l \in lengths : l <= max
  BY <1>4, LastOne
<1>6. PICK ends : ends = {t \in Hot : longest[t] = max}
  OBVIOUS
<1>7. ends \in SUBSET (1..NumNodes) /\ ends # {} /\ NumNodes \in Nat
  BY <1>3, <1>5, <1>6, HotIs, NumNodesAssumption DEF Nodes
<1>8. PICK e \in ends : \A t \in ends : t <= e
  BY <1>7, LastOne
<1>9. e \in Hot /\ longest[e] = max /\ max \in Nat
  BY <1>1, <1>6, <1>8
<1>10. ASSUME NEW u \in Hot
       PROVE  longest[u] < longest[e] \/ (longest[u] = longest[e] /\ u <= e)
  <2>1. longest[u] \in Nat /\ longest[u] <= max
    BY <1>1, <1>3, <1>5
  <2>2. CASE longest[u] = max
    <3>1. u <= e
      BY <1>6, <1>8, <2>2
    <3> QED
      BY <1>9, <2>2, <3>1
  <2>3. CASE longest[u] # max
    BY <1>9, <2>1, <2>3
  <2> QED
    BY <2>2, <2>3
<1> QED
  BY <1>9, <1>10 DEF Greatest

LEMMA FindEndKeeps ==
    ASSUME GraphInv, FindEnd
    PROVE  GraphInv'
<1>1. /\ GraphTypes /\ Counted /\ Answered /\ Measured /\ Traced
      /\ answer = "ordered" /\ relaxed = Len(listed)
      /\ path' = IF \E t \in Hot : longest[t] > 1
                 THEN <<CHOOSE t \in Hot : Greatest(t)>> ELSE <<>>
      /\ answer' = IF path' = <<>> THEN "path" ELSE "tracing"
      /\ UNCHANGED <<degree, queue, listed, relaxed, longest, parent>>
      /\ UNCHANGED graphInput
  BY DEF GraphInv, FindEnd
<1>2. place' = place /\ blockedBy' = blockedBy /\ Hot' = Hot
      /\ \A t : ActiveBlockers(t)' = ActiveBlockers(t)
  BY <1>1, BoardStays
<1>3. \A s : Chain(s)' = Chain(s)
  BY <1>1, BoardStays
<1>4. \A t : Greatest(t)' = Greatest(t)
  BY <1>1, <1>2 DEF Greatest
<1>5. Counted' /\ Measured'
  BY <1>1, <1>2 DEF Counted, Awaited, Measured, Relaxed
<1>6. answer' \in {"tracing", "path"}
  BY <1>1
<1>7. Answered'
  BY <1>1, <1>2, <1>6 DEF Answered
<1>8. CASE \E t \in Hot : longest[t] > 1
  <2>1. PICK e : e = CHOOSE t \in Hot : Greatest(t)
    OBVIOUS
  <2>2. e \in Hot /\ Greatest(e)
    BY <1>8, <2>1, GreatestExists
  <2>3. path' = <<e>> /\ answer' = "tracing"
    BY <1>1, <1>8, <2>1
  <2>4. path' \in Seq(Hot) /\ path' # <<>> /\ Len(path') = 1 /\ path'[1] = e
    BY <2>2, <2>3
  <2>5. GraphTypes'
    BY <1>1, <1>2, <1>6, <2>4 DEF GraphTypes
  <2>6. Chain(<<e>>)
    <3>1. 1..Len(<<e>>) - 1 = {}
      OBVIOUS
    <3> QED
      BY <3>1 DEF Chain
  <2>7. 1 + longest[e] = longest[e] + 1
    BY <1>1, <2>2 DEF GraphTypes
  <2>8. Traced'
    BY <1>1, <1>3, <1>4, <2>2, <2>3, <2>4, <2>6, <2>7 DEF Traced
  <2> QED
    BY <1>5, <1>7, <2>5, <2>8 DEF GraphInv
<1>9. CASE ~\E t \in Hot : longest[t] > 1
  <2>1. path' = <<>> /\ answer' = "path"
    BY <1>1, <1>9
  <2>2. GraphTypes'
    BY <1>1, <1>2, <1>6, <2>1, EmptySeq DEF GraphTypes
  <2>3. \A t \in Hot : longest[t] <= 1
    BY <1>1, <1>9 DEF GraphTypes
  <2>4. Traced'
    BY <1>1, <1>2, <2>1, <2>3 DEF Traced
  <2> QED
    BY <1>5, <1>7, <2>2, <2>4 DEF GraphInv
<1> QED
  BY <1>8, <1>9

LEMMA TraceKeeps ==
    ASSUME GraphInv, Trace
    PROVE  GraphInv'
<1>1. /\ GraphTypes /\ Counted /\ Answered /\ Measured /\ Traced /\ answer = "tracing"
      /\ UNCHANGED <<degree, queue, listed, relaxed, longest, parent>>
      /\ UNCHANGED graphInput
  BY DEF GraphInv, Trace
<1>2. place' = place /\ blockedBy' = blockedBy /\ Hot' = Hot
      /\ \A t : ActiveBlockers(t)' = ActiveBlockers(t)
  BY <1>1, BoardStays
<1>3. \A s : Chain(s)' = Chain(s)
  BY <1>1, BoardStays
<1>4. \A t : Greatest(t)' = Greatest(t)
  BY <1>1, <1>2 DEF Greatest
<1>5. Counted' /\ Measured'
  BY <1>1, <1>2 DEF Counted, Awaited, Measured, Relaxed
<1>6. PICK n \in Nat : n = Len(path) /\ n # 0 /\ DOMAIN path = 1..n
  <2>1. path \in Seq(Hot) /\ path # <<>>
    BY <1>1 DEF GraphTypes, Traced
  <2> QED
    BY <2>1
<1>7. PICK top, before : top = path[1] /\ before = parent[top]
  OBVIOUS
<1>8. /\ top \in Hot /\ before \in Hot \cup {0} /\ Head(path) = top /\ path # <<>>
      /\ path \in Seq(Hot) /\ path[n] \in Hot
  BY <1>1, <1>6, <1>7 DEF GraphTypes, Traced
<1>9. /\ relaxed = Len(listed) /\ Greatest(path[n]) /\ Chain(path)
      /\ n + longest[top] = longest[path[n]] + 1
  BY <1>1, <1>6, <1>7, <1>8 DEF Traced
<1>10. CASE before = 0
  <2>1. answer' = "path" /\ path' = path
    BY <1>7, <1>8, <1>10 DEF Trace
  <2>2. GraphTypes' /\ Answered'
    BY <1>1, <1>2, <2>1 DEF GraphTypes, Answered
  <2>3. Traced'
    BY <1>1, <1>3, <1>4, <1>6, <1>7, <1>8, <1>9, <1>10, <2>1 DEF Traced
  <2> QED
    BY <1>5, <2>2, <2>3 DEF GraphInv
<1>11. CASE before # 0
  <2>1. answer' = "tracing" /\ path' = <<before>> \o path
    BY <1>1, <1>7, <1>8, <1>11 DEF Trace
  <2>2. /\ before \in Hot /\ before \in ActiveBlockers(top) /\ longest[top] = longest[before] + 1
    BY <1>1, <1>7, <1>8, <1>11 DEF Measured
  <2>3. PICK new : new = <<before>> \o path
    OBVIOUS
  <2>4. /\ new \in Seq(Hot) /\ Len(new) = n + 1
        /\ new[1] = before /\ \A i \in 1..n : new[i + 1] = path[i]
    <3>1. <<before>> \in Seq(Hot) /\ Len(<<before>>) = 1 /\ <<before>>[1] = before
      BY <2>2
    <3>2. /\ new \in Seq(Hot) /\ Len(new) = 1 + n
          /\ \A i \in 1..1 + n : new[i] = IF i <= 1 THEN <<before>>[i] ELSE path[i - 1]
      BY <1>6, <1>8, <2>3, <3>1, ConcatProperties
    <3>3. /\ 1 \in 1..1 + n /\ 1 <= 1
          /\ \A i \in 1..n : i + 1 \in 1..1 + n /\ ~(i + 1 <= 1) /\ (i + 1) - 1 = i
      BY <1>6
    <3> QED
      BY <1>6, <3>1, <3>2, <3>3
  <2>5. new # <<>> /\ new[n + 1] = path[n]
    <3>1. n \in 1..n
      BY <1>6
    <3> QED
      BY <1>6, <2>4, <3>1
  <2>6. Chain(new)
    <3>1. ASSUME NEW i \in 1..n PROVE new[i] \in Before(new[i + 1])
      <4>1. CASE i = 1
        <5>1. new[i + 1] = top
          BY <1>7, <2>4, <4>1
        <5> QED
          BY <1>1, <1>8, <2>2, <2>4, <4>1, <5>1, ActiveIs
      <4>2. CASE i # 1
        <5>1. PICK j \in 1..n - 1 : i = j + 1
          <6>1. i - 1 \in 1..n - 1 /\ i = (i - 1) + 1
            BY <1>6, <4>2
          <6> QED
            BY <6>1
        <5>2. j \in 1..n /\ j + 1 \in 1..n
          BY <1>6, <5>1
        <5>3. new[i] = path[j] /\ new[i + 1] = path[j + 1]
          BY <2>4, <5>1, <5>2
        <5> QED
          BY <1>6, <1>9, <5>1, <5>3 DEF Chain
      <4> QED
        BY <4>1, <4>2
    <3>2. 1..Len(new) - 1 = 1..n
      BY <1>6, <2>4
    <3> QED
      BY <3>1, <3>2 DEF Chain
  <2>7. (n + 1) + longest[before] = longest[path[n]] + 1
    <3>1. longest[before] \in Nat /\ longest[top] \in Nat /\ longest[path[n]] \in Nat
      BY <1>1, <1>8, <2>2 DEF GraphTypes
    <3> QED
      BY <1>6, <1>9, <2>2, <3>1
  <2>8. GraphTypes' /\ Answered'
    BY <1>1, <1>2, <2>1, <2>3, <2>4 DEF GraphTypes, Answered
  <2>9. Traced'
    BY <1>1, <1>3, <1>4, <1>9, <2>1, <2>3, <2>4, <2>5, <2>6, <2>7 DEF Traced
  <2> QED
    BY <1>5, <2>8, <2>9 DEF GraphInv
<1> QED
  BY <1>10, <1>11

LEMMA GraphKeeps == GraphInv /\ [GraphNext]_graphVars => GraphInv'
<1> SUFFICES ASSUME GraphInv, [GraphNext]_graphVars PROVE GraphInv'
  OBVIOUS
<1>1. CASE UNCHANGED graphVars
  <2>1. /\ UNCHANGED <<degree, queue, listed, relaxed, longest, parent, path, answer>>
        /\ UNCHANGED graphInput
    BY <1>1 DEF graphVars
  <2>2. place' = place /\ blockedBy' = blockedBy /\ Hot' = Hot
        /\ \A t : ActiveBlockers(t)' = ActiveBlockers(t)
    BY <2>1, BoardStays
  <2>3. \A s : Chain(s)' = Chain(s)
    BY <2>1, BoardStays
  <2>4. \A t : Greatest(t)' = Greatest(t)
    BY <2>1, <2>2 DEF Greatest
  <2>5. GraphTypes' /\ Answered'
    BY <2>1, <2>2 DEF GraphInv, GraphTypes, Answered
  <2>6. Counted' /\ Measured'
    BY <2>1, <2>2 DEF GraphInv, Counted, Awaited, Measured, Relaxed
  <2>7. Traced'
    BY <2>1, <2>2, <2>3, <2>4 DEF GraphInv, Traced
  <2> QED
    BY <2>5, <2>6, <2>7 DEF GraphInv
<1>2. CASE ListNext
  BY <1>2, ListNextKeeps
<1>3. CASE RefuseOrder
  BY <1>3, RefuseOrderKeeps
<1>4. CASE Accept
  BY <1>4, AcceptKeeps
<1>5. CASE Relax
  BY <1>5, RelaxKeeps
<1>6. CASE FindEnd
  BY <1>6, FindEndKeeps
<1>7. CASE Trace
  BY <1>7, TraceKeeps
<1> QED
  BY <1>1, <1>2, <1>3, <1>4, <1>5, <1>6, <1>7 DEF GraphNext

---------------------------------------------------------------------------
(* DependencyGraph: the theorems *)

\* In a complete order a task comes after what it waits for.
LEMMA BlockersComeFirst ==
    ASSUME GraphInv, answer = "ordered", NEW t \in Hot, NEW b \in ActiveBlockers(t)
    PROVE  b \in Hot /\ Position(b) < Position(t)
<1>1. /\ listed \in Seq(Hot) /\ IsInjective(listed) /\ ToSet(listed) = Hot
      /\ \A i \in DOMAIN listed : \A c \in ActiveBlockers(listed[i]) :
            \E j \in DOMAIN listed : j < i /\ listed[j] = c
  BY DEF GraphInv, GraphTypes, Counted, Answered
<1>2. PICK i \in DOMAIN listed : listed[i] = t
  BY <1>1 DEF ToSet
<1>3. PICK j \in DOMAIN listed : j < i /\ listed[j] = b
  BY <1>1, <1>2
<1>4. b \in Hot
  BY <1>1, <1>3 DEF ToSet
<1>5. \A k \in DOMAIN listed : (listed[k] = t => k = i) /\ (listed[k] = b => k = j)
  BY <1>1, <1>2, <1>3 DEF IsInjective
<1>6. Position(t) = i /\ Position(b) = j
  BY <1>2, <1>3, <1>5 DEF Position
<1> QED
  BY <1>3, <1>4, <1>6

OpenTasks == {u \in Nodes : place[u] = "open"}
Has(C, u) == Forward(u) \cap OpenTasks \subseteq C

LEMMA WaitingIs ==
    ASSUME NEW t, NEW u
    PROVE  u \in Waiting(t) <=>
              /\ u \in OpenTasks
              /\ \A C \in SUBSET OpenTasks : Has(C, t) /\ (\A v \in C : Has(C, v)) => u \in C
BY DEF Waiting, OpenTasks, Has

\* More tasks wait for a blocker than for what it blocks.
LEMMA BlockersScoreHigher ==
    ASSUME GraphInv, answer = "ordered", NEW t \in Hot, NEW b \in ActiveBlockers(t)
    PROVE  Score(b) > Score(t)
<1>1. /\ t \in Forward(b) /\ place[t] = "open" /\ place[b] # "done" /\ GraphTypes
  BY ActiveIs DEF GraphInv
<1>2. t \in OpenTasks
  BY <1>1, HotIs DEF OpenTasks
<1>3. \A u \in OpenTasks : u \in Hot
  BY DEF OpenTasks, Hot
<1>4. \A u : Forward(u) \subseteq Hot
  BY DEF Forward
\* An edge between open tasks holds, and leads further down the order.
<1>5. ASSUME NEW u \in OpenTasks, NEW v \in Forward(u), v \in OpenTasks
      PROVE  Position(u) < Position(v)
  <2>1. v \in Hot /\ u \in ActiveBlockers(v)
    BY <1>5 DEF Forward, OpenTasks, ActiveBlockers, Resolved
  <2> QED
    BY <2>1, BlockersComeFirst
<1>6. \A u \in Hot : Position(u) \in Nat
  <2>1. listed \in Seq(Hot) /\ ToSet(listed) = Hot
    BY DEF GraphInv, GraphTypes, Answered
  <2>2. DOMAIN listed \subseteq Nat
    BY <2>1
  <2> SUFFICES ASSUME NEW u \in Hot PROVE Position(u) \in Nat
    OBVIOUS
  <2>3. \E i \in DOMAIN listed : listed[i] = u
    BY <2>1 DEF ToSet
  <2>4. Position(u) \in DOMAIN listed
    BY <2>3 DEF Position
  <2> QED
    BY <2>2, <2>4
<1>7. t \in Waiting(b)
  BY <1>1, <1>2, WaitingIs DEF Has
<1>8. Waiting(t) \subseteq Waiting(b)
  <2> SUFFICES ASSUME NEW u \in Waiting(t) PROVE u \in Waiting(b)
    OBVIOUS
  <2>1. /\ u \in OpenTasks
        /\ \A C \in SUBSET OpenTasks : Has(C, t) /\ (\A v \in C : Has(C, v)) => u \in C
    BY WaitingIs
  <2>2. ASSUME NEW C \in SUBSET OpenTasks, Has(C, b), \A v \in C : Has(C, v) PROVE u \in C
    <3>1. t \in C
      BY <1>1, <1>2, <2>2 DEF Has
    <3> QED
      BY <2>1, <2>2, <3>1
  <2> QED
    BY <2>1, <2>2, WaitingIs
<1>9. t \notin Waiting(t)
  <2>1. PICK later : later = {u \in OpenTasks : Position(t) < Position(u)}
    OBVIOUS
  <2>2. later \in SUBSET OpenTasks /\ t \notin later
    BY <1>6, <2>1
  <2>3. Has(later, t)
    BY <1>2, <1>5, <2>1 DEF Has
  <2>4. ASSUME NEW v \in later PROVE Has(later, v)
    <3>1. v \in OpenTasks /\ Position(t) < Position(v) /\ v \in Hot
      BY <1>3, <2>1
    <3>2. ASSUME NEW w \in Forward(v), w \in OpenTasks PROVE w \in later
      <4>1. Position(v) < Position(w)
        BY <1>5, <3>1, <3>2
      <4>2. Position(t) < Position(w)
        BY <1>3, <1>6, <3>1, <3>2, <4>1
      <4> QED
        BY <2>1, <3>2, <4>2
    <3> QED
      BY <3>2 DEF Has
  <2> QED
    BY <2>2, <2>3, <2>4, WaitingIs
<1>10. IsFiniteSet(Waiting(b))
  <2>1. Waiting(b) \subseteq Nodes
    BY WaitingIs DEF OpenTasks
  <2> QED
    BY <2>1, HotIs, FS_Subset
<1>11. /\ Cardinality(Waiting(t)) <= Cardinality(Waiting(b))
       /\ Cardinality(Waiting(t)) # Cardinality(Waiting(b))
       /\ Cardinality(Waiting(b)) \in Nat /\ Cardinality(Waiting(t)) \in Nat
  BY <1>7, <1>8, <1>9, <1>10, FS_Subset, FS_CardinalityType
<1>12. Cardinality(Waiting(b)) > Cardinality(Waiting(t))
  BY <1>11
<1> QED
  BY <1>12 DEF Score

\* The order that order prints can be worked through: a task comes after all that it
\* waits for; a refusal names a blocker without a file, or a circle of tasks that
\* wait for each other (graph.py, topological_sort and get_priority_score).
THEOREM OrderSafe == GraphSpec => []OrderOrReason
<1>1. GraphInv => OrderOrReason
  <2> SUFFICES ASSUME GraphInv PROVE OrderOrReason
    OBVIOUS
  <2>1. \A t \in Hot : Before(t) = ActiveBlockers(t)
    BY ActiveIs DEF GraphInv
  <2>2. OrderIsExecutable
    <3> SUFFICES ASSUME answer = "ordered"
                 PROVE  /\ ToSet(listed) = Hot /\ IsInjective(listed)
                        /\ \A t \in Hot : \A b \in Before(t) :
                              b \in Hot /\ Position(b) < Position(t) /\ Score(b) > Score(t)
      BY DEF OrderIsExecutable
    <3>1. ToSet(listed) = Hot /\ IsInjective(listed)
      BY DEF GraphInv, Answered, Counted
    <3> QED
      BY <2>1, <3>1, BlockersComeFirst, BlockersScoreHigher
  <2>3. RefusalHasReason
    <3>1. ASSUME answer = "missing"
          PROVE  \E t \in Nodes : place[t] = "open" /\ blockedBy[t] \ Hot # {}
      <4>1. PICK t \in Hot : ActiveBlockers(t) \ Hot # {}
        BY <3>1 DEF GraphInv, Answered
      <4>2. PICK b \in ActiveBlockers(t) : b \notin Hot
        BY <4>1
      <4>3. place[t] = "open" /\ b \in blockedBy[t]
        BY <4>2 DEF ActiveBlockers
      <4> QED
        BY <4>2, <4>3, HotIs
    <3>2. ASSUME answer = "cycle"
          PROVE  \E C \in (SUBSET Hot) \ {{}} : \A t \in C : Before(t) \cap C # {}
      <4>1. PICK C \in (SUBSET Hot) \ {{}} : \A t \in C : ActiveBlockers(t) \cap C # {}
        BY <3>2 DEF GraphInv, Answered
      <4> QED
        BY <2>1, <4>1
    <3> QED
      BY <3>1, <3>2 DEF RefusalHasReason
  <2> QED
    BY <2>2, <2>3 DEF OrderOrReason
<1> QED
  BY GraphStarts, GraphKeeps, <1>1, PTL DEF GraphSpec

\* Along a chain the measured lengths grow.
LEMMA ChainsAreMeasured ==
    ASSUME GraphInv, answer = "path", NEW n \in Nat, NEW s \in [1..n -> Hot], Chain(s), Len(s) = n
    PROVE  \A i \in 1..n : longest[s[i]] >= i
<1>1. Relaxed = Hot
  <2>1. ToSet(listed) = Hot /\ relaxed = Len(listed) /\ listed \in Seq(Hot)
    BY DEF GraphInv, GraphTypes, Answered, Traced
  <2>2. DOMAIN listed = 1..relaxed
    BY <2>1
  <2> QED
    BY <2>1, <2>2 DEF Relaxed, ToSet
<1>2. \A d \in Hot : /\ longest[d] \in Nat /\ longest[d] >= 1
                     /\ \A m \in ActiveBlockers(d) : m \in Hot => longest[d] >= longest[m] + 1
  BY <1>1 DEF GraphInv, GraphTypes, Measured
<1>3. \A i \in 1..n - 1 : s[i] \in ActiveBlockers(s[i + 1])
  <2> SUFFICES ASSUME NEW i \in 1..n - 1 PROVE s[i] \in ActiveBlockers(s[i + 1])
    OBVIOUS
  <2>1. i + 1 \in 1..n
    OBVIOUS
  <2>2. s[i] \in Before(s[i + 1]) /\ s[i + 1] \in Hot
    BY <2>1 DEF Chain
  <2> QED
    BY <2>2, ActiveIs DEF GraphInv
<1>4. PICK short : short = {i \in 1..n : ~(longest[s[i]] >= i)}
  OBVIOUS
<1>5. short = {}
  <2> SUFFICES ASSUME short # {} PROVE FALSE
    OBVIOUS
  <2>1. short \in SUBSET Nat
    BY <1>4
  <2>2. PICK i \in short : \A j \in short : i <= j
    BY <2>1, LeastNumber
  <2>3. i \in 1..n /\ ~(longest[s[i]] >= i) /\ s[i] \in Hot
    BY <1>4, <2>2
  <2>4. i # 1
    BY <1>2, <2>3
  <2>5. PICK j \in Nat : i = j + 1
    <3>1. i - 1 \in Nat /\ i = (i - 1) + 1
      BY <2>3
    <3> QED
      BY <3>1
  <2>6. j \in 1..n - 1 /\ j \in 1..n /\ ~(i <= j)
    BY <2>3, <2>4, <2>5
  <2>7. longest[s[j]] >= j /\ s[j] \in Hot
    BY <1>4, <2>2, <2>6
  <2>8. longest[s[i]] >= longest[s[j]] + 1
    BY <1>2, <1>3, <2>3, <2>5, <2>6, <2>7
  <2>9. longest[s[i]] \in Nat /\ longest[s[j]] \in Nat
    BY <1>2, <2>3, <2>7
  <2> QED
    BY <2>3, <2>5, <2>7, <2>8, <2>9
<1> QED
  BY <1>4, <1>5

\* The critical path is a chain of tasks that wait for each other, and none is
\* longer (graph.py, get_critical_path).
THEOREM CriticalPathSafe == GraphSpec => []CriticalPathIsLongest
<1>1. GraphInv => CriticalPathIsLongest
  <2> SUFFICES ASSUME GraphInv, answer = "path"
               PROVE  /\ Chain(path)
                      /\ \A s \in UNION {[1..n -> Hot] : n \in 2..NumNodes} :
                            Chain(s) => Len(path) >= Len(s)
    BY DEF CriticalPathIsLongest
  <2>1. /\ path \in Seq(Hot) /\ Traced /\ Measured /\ longest \in [Hot -> Nat]
    BY DEF GraphInv, GraphTypes
  <2>2. Chain(path)
    <3>1. CASE path = <<>>
      <4>1. 1..Len(path) - 1 = {}
        BY <3>1
      <4> QED
        BY <4>1 DEF Chain
    <3>2. CASE path # <<>>
      BY <2>1, <3>2 DEF Traced
    <3> QED
      BY <3>1, <3>2
  <2>3. ASSUME NEW n \in 2..NumNodes, NEW s \in [1..n -> Hot], Chain(s) PROVE Len(path) >= Len(s)
    <3>1. n \in Nat /\ n \in 1..n /\ n >= 2 /\ Len(s) = n
      BY NumNodesAssumption
    <3>2. longest[s[n]] >= n /\ s[n] \in Hot /\ longest[s[n]] \in Nat
      BY <2>1, <2>3, <3>1, ChainsAreMeasured
    <3>3. path # <<>>
      <4>1. ~(longest[s[n]] <= 1)
        BY <3>1, <3>2
      <4> QED
        BY <2>1, <3>2, <4>1 DEF Traced
    <3>4. PICK end, top : end = path[Len(path)] /\ top = path[1]
      OBVIOUS
    <3>5. end \in Hot /\ top \in Hot /\ Len(path) \in Nat
      BY <2>1, <3>3, <3>4
    <3>6. Greatest(end) /\ parent[top] = 0 /\ Len(path) + longest[top] = longest[end] + 1
      BY <2>1, <3>3, <3>4 DEF Traced
    <3>7. longest[top] = 1 /\ longest[end] \in Nat
      BY <2>1, <3>5, <3>6 DEF Measured
    <3>8. longest[s[n]] <= longest[end]
      BY <3>2, <3>6, <3>7 DEF Greatest
    <3> QED
      BY <3>1, <3>2, <3>5, <3>6, <3>7, <3>8
  <2> QED
    BY <2>2, <2>3
<1> QED
  BY GraphStarts, GraphKeeps, <1>1, PTL DEF GraphSpec

---------------------------------------------------------------------------
(* Packing: sums and lists                                                 *)

\* The bytes of some records, if e has their sizes.
TotalIn(e, S) == Cardinality({p \in S \X (1..MaxBytes) : p[2] <= e[p[1]]})

LEMMA TotalGrows ==
    ASSUME NEW e \in [Records -> 1..MaxBytes], NEW S \in SUBSET Records, NEW r \in Records \ S
    PROVE  TotalIn(e, S) \in Nat /\ TotalIn(e, S \cup {r}) = TotalIn(e, S) + e[r]
<1>1. NumRecords \in Nat /\ MaxBytes \in Nat /\ e[r] \in 1..MaxBytes /\ e[r] \in Nat
  BY PackingAssumption
<1>2. DEFINE Bytes(T) == {p \in T \X (1..MaxBytes) : p[2] <= e[p[1]]}
<1>3. PICK was, more, both : was = Bytes(S) /\ more = Bytes({r}) /\ both = Bytes(S \cup {r})
  OBVIOUS
<1>4. both = was \cup more /\ was \cap more = {}
  BY <1>3
<1>5. IsFiniteSet(was) /\ IsFiniteSet(more)
  <2>1. IsFiniteSet(Records) /\ IsFiniteSet(1..MaxBytes)
    BY <1>1, FS_Interval DEF Records
  <2>2. IsFiniteSet(Records \X (1..MaxBytes))
    BY <2>1, FS_Product
  <2>3. was \in SUBSET (Records \X (1..MaxBytes)) /\ more \in SUBSET (Records \X (1..MaxBytes))
    BY <1>3
  <2> QED
    BY <2>2, <2>3, FS_Subset
<1>6. Cardinality(more) = e[r]
  <2>1. PICK f : f = [k \in 1..e[r] |-> <<r, k>>]
    OBVIOUS
  <2>2. \A k \in 1..e[r] : k \in 1..MaxBytes /\ k <= e[r]
    BY <1>1
  <2>3. f \in Injection(1..e[r], more)
    <3>1. f \in [1..e[r] -> more]
      BY <1>3, <2>1, <2>2
    <3>2. \A a, b \in 1..e[r] : f[a] = f[b] => a = b
      BY <2>1
    <3> QED
      BY <3>1, <3>2 DEF Injection, IsInjective
  <2>4. f \in Surjection(1..e[r], more)
    <3>1. ASSUME NEW p \in more PROVE \E k \in 1..e[r] : f[k] = p
      <4>1. p[1] = r /\ p[2] \in 1..MaxBytes /\ p[2] <= e[r] /\ p = <<p[1], p[2]>>
        BY <1>3
      <4>2. p[2] \in 1..e[r]
        BY <1>1, <4>1
      <4>3. f[p[2]] = <<r, p[2]>>
        BY <2>1, <4>2
      <4> QED
        BY <4>1, <4>2, <4>3
    <3> QED
      BY <2>3, <3>1 DEF Injection, Surjection
  <2>5. ExistsBijection(1..e[r], more)
    BY <2>3, <2>4 DEF ExistsBijection, Bijection
  <2> QED
    BY <1>1, <2>5, FS_CountingElements
<1>7. Cardinality(both) = Cardinality(was) + Cardinality(more) - Cardinality(was \cap more)
  BY <1>4, <1>5, FS_Union
<1>8. Cardinality(was \cap more) = 0 /\ Cardinality(was) \in Nat
  BY <1>4, <1>5, FS_EmptySet, FS_CardinalityType
<1>9. TotalIn(e, S) = Cardinality(was) /\ TotalIn(e, S \cup {r}) = Cardinality(both)
  BY <1>3 DEF TotalIn
<1> QED
  BY <1>1, <1>6, <1>7, <1>8, <1>9

LEMMA TotalOfNone == ASSUME NEW e PROVE TotalIn(e, {}) = 0
<1>1. {p \in {} \X (1..MaxBytes) : p[2] <= e[p[1]]} = {}
  OBVIOUS
<1> QED
  BY <1>1, FS_EmptySet DEF TotalIn

LEMMA TotalOfMore ==
    ASSUME NEW e \in [Records -> 1..MaxBytes], NEW T \in SUBSET Records, NEW S \in SUBSET T
    PROVE  TotalIn(e, S) <= TotalIn(e, T) /\ TotalIn(e, S) \in Nat /\ TotalIn(e, T) \in Nat
<1>1. PICK a, b : /\ a = {p \in S \X (1..MaxBytes) : p[2] <= e[p[1]]}
                  /\ b = {p \in T \X (1..MaxBytes) : p[2] <= e[p[1]]}
  OBVIOUS
<1>2. a \in SUBSET b /\ b \in SUBSET (Records \X (1..MaxBytes))
  BY <1>1
<1>3. IsFiniteSet(Records \X (1..MaxBytes))
  <2>1. IsFiniteSet(Records) /\ IsFiniteSet(1..MaxBytes)
    BY PackingAssumption, FS_Interval DEF Records
  <2> QED
    BY <2>1, FS_Product
<1>4. IsFiniteSet(b)
  BY <1>2, <1>3, FS_Subset
<1>5. /\ IsFiniteSet(a) /\ Cardinality(a) <= Cardinality(b)
      /\ Cardinality(a) \in Nat /\ Cardinality(b) \in Nat
  BY <1>2, <1>4, FS_Subset, FS_CardinalityType
<1> QED
  BY <1>1, <1>5 DEF TotalIn

\* A list without repetition has as many members as places.
LEMMA ListCounts ==
    ASSUME NEW S, NEW s \in Seq(S), IsInjective(s)
    PROVE  IsFiniteSet(ToSet(s)) /\ Cardinality(ToSet(s)) = Len(s) /\ ToSet(s) \subseteq S
<1>1. PICK n : n = Len(s) /\ n \in Nat /\ DOMAIN s = 1..n
  OBVIOUS
<1>2. s \in [1..n -> S]
  BY <1>1, LenProperties
<1>3. s \in [1..n -> ToSet(s)]
  BY <1>1, <1>2 DEF ToSet
<1>4. s \in Bijection(1..n, ToSet(s))
  <2>1. s \in Injection(1..n, ToSet(s))
    BY <1>1, <1>3 DEF Injection, IsInjective
  <2>2. \A x \in ToSet(s) : \E i \in 1..n : s[i] = x
    BY <1>1 DEF ToSet
  <2>3. s \in Surjection(1..n, ToSet(s))
    BY <1>3, <2>2 DEF Surjection
  <2> QED
    BY <2>1, <2>3 DEF Bijection
<1>5. ExistsBijection(1..n, ToSet(s))
  BY <1>4 DEF ExistsBijection
<1>6. Cardinality(ToSet(s)) = n
  BY <1>1, <1>5, FS_CountingElements
<1>7. IsFiniteSet(ToSet(s))
  BY <1>1, <1>5, FS_NatBijection
<1> QED
  BY <1>1, <1>2, <1>6, <1>7 DEF ToSet


\* What is true of each batch that the plan has closed, with sizes e and limits m.
ReadyBatch(e, m, b) ==
    /\ b # <<>> /\ IsInjective(b)
    /\ Len(b) > 1 => TotalIn(e, ToSet(b)) <= m.target /\ Len(b) <= m.most

\* A record r had no room in the batch b.
Divided(e, m, b, r) == TotalIn(e, ToSet(b)) + e[r] > m.target \/ Len(b) = m.most

Tight(e, m, s) ==
    /\ \A i \in DOMAIN s : ReadyBatch(e, m, s[i])
    /\ \A i \in 1..Len(s) - 1 : Divided(e, m, s[i], Head(s[i + 1]))

Follows(e, m, s, r) == s # <<>> => Divided(e, m, s[Len(s)], r)

LEMMA TightGrows ==
    ASSUME NEW e, NEW m, NEW s \in Seq(Seq(Records)), NEW b \in Seq(Records),
           Tight(e, m, s), ReadyBatch(e, m, b), Follows(e, m, s, Head(b))
    PROVE  /\ Append(s, b) \in Seq(Seq(Records)) /\ Tight(e, m, Append(s, b))
           /\ \A r : Divided(e, m, b, r) => Follows(e, m, Append(s, b), r)
<1>1. PICK n : n = Len(s) /\ n \in Nat /\ DOMAIN s = 1..n
  BY LenProperties
<1>2. PICK t : t = Append(s, b)
  OBVIOUS
<1>3. /\ t \in Seq(Seq(Records)) /\ Len(t) = n + 1 /\ t[n + 1] = b
      /\ \A i \in 1..n : t[i] = s[i]
  BY <1>1, <1>2, AppendProperties
<1>4. DOMAIN t = 1..n + 1 /\ \A i \in 1..n + 1 : i \in 1..n \/ i = n + 1
  BY <1>1, <1>3
<1>5. \A i \in DOMAIN t : ReadyBatch(e, m, t[i])
  BY <1>1, <1>3, <1>4 DEF Tight
<1>6. ASSUME NEW i \in 1..Len(t) - 1 PROVE Divided(e, m, t[i], Head(t[i + 1]))
  <2>1. i \in 1..n /\ t[i] = s[i]
    BY <1>1, <1>3
  <2>2. CASE i = n
    <3>1. s # <<>> /\ t[i + 1] = b /\ t[i] = s[Len(s)]
      BY <1>1, <1>3, <2>1, <2>2
    <3> QED
      BY <3>1 DEF Follows
  <2>3. CASE i # n
    <3>1. i \in 1..Len(s) - 1 /\ i + 1 \in 1..n
      BY <1>1, <2>1, <2>3
    <3>2. t[i + 1] = s[i + 1]
      BY <1>3, <3>1
    <3> QED
      BY <2>1, <3>1, <3>2 DEF Tight
  <2> QED
    BY <2>2, <2>3
<1>7. Tight(e, m, t)
  BY <1>5, <1>6 DEF Tight
<1>8. t[Len(t)] = b
  BY <1>3
<1> QED
  BY <1>2, <1>3, <1>7, <1>8 DEF Follows

LEMMA FlattenGrows ==
    ASSUME NEW S, NEW seqs \in Seq(Seq(S)), NEW b \in Seq(S)
    PROVE  /\ FlattenSeq(seqs) \in Seq(S)
           /\ FlattenSeq(Append(seqs, b)) = FlattenSeq(seqs) \o b
<1>1. PICK n : n = Len(seqs) /\ n \in Nat
  BY LenProperties
<1>2. PICK t : t = Append(seqs, b)
  OBVIOUS
<1>3. /\ t \in Seq(Seq(S)) /\ Len(t) = n + 1 /\ t[n + 1] = b
      /\ \A i \in 1..n : t[i] = seqs[i]
  BY <1>1, <1>2, AppendProperties
<1>4. FlattenSeq(t) = FlattenSeq(SubSeq(t, 1, Len(t) - 1)) \o t[Len(t)]
  <2>1. Len(t) # 0
    BY <1>1, <1>3
  <2> QED
    BY <1>3, <2>1, FlattenLast
<1>5. SubSeq(t, 1, n) = seqs
  <2>1. PICK u : u = SubSeq(t, 1, n)
    OBVIOUS
  <2>2. n <= Len(t)
    BY <1>1, <1>3
  <2>3. u \in Seq(Seq(S)) /\ Len(u) = n /\ \A i \in 1..n : u[i] = t[i]
    BY <1>1, <1>3, <2>1, <2>2, FirstPart
  <2>4. \A i \in 1..Len(u) : u[i] = seqs[i]
    BY <1>3, <2>3
  <2>5. u = seqs
    BY ONLY <1>1, <2>3, <2>4, seqs \in Seq(Seq(S)), SeqEqual
  <2> QED
    BY <2>1, <2>5
<1>6. FlattenSeq(seqs) \in Seq(S)
  <2>1. CASE seqs = <<>>
    BY <2>1 DEF FlattenSeq
  <2>2. CASE seqs # <<>>
    <3>1. Len(seqs) # 0
      BY <2>2, EmptySeq
    <3> QED
      BY <3>1, FlattenLast
  <2> QED
    BY <2>1, <2>2
<1>7. Len(t) - 1 = n /\ t[Len(t)] = b
  BY <1>1, <1>3
<1> QED
  BY <1>2, <1>4, <1>5, <1>6, <1>7

\* The loop moves the head of what is left behind what it has.
LEMMA HeadMoves ==
    ASSUME NEW S, NEW u \in Seq(S), NEW w \in Seq(S), w # <<>>,
           NEW r, NEW rest, r = Head(w), rest = Tail(w)
    PROVE  Append(u, r) \o rest = u \o w /\ <<r>> \o rest = w
<1>1. r = Head(w) /\ rest = Tail(w)
  OBVIOUS
<1>2. r \in S /\ rest \in Seq(S) /\ <<r>> \in Seq(S) /\ <<>> \in Seq(S)
  BY <1>1, EmptySeq
<1>3. <<r>> \o rest = w
  <2>1. PICK n : n = Len(w) /\ n \in Nat \ {0}
    BY EmptySeq
  <2>2. Len(rest) = n - 1 /\ \A i \in 1..n - 1 : rest[i] = w[i + 1]
    BY <1>1, <2>1
  <2>3. PICK one, both : one = <<r>> /\ both = one \o rest
    OBVIOUS
  <2>4. one \in Seq(S) /\ Len(one) = 1 /\ one[1] = r
    BY <1>2, <2>3
  <2>5. /\ both \in Seq(S) /\ Len(both) = n
        /\ \A i \in 1..n : both[i] = IF i <= 1 THEN one[i] ELSE rest[i - 1]
    <3>1. /\ both \in Seq(S) /\ Len(both) = Len(one) + Len(rest)
          /\ \A i \in 1..Len(one) + Len(rest) :
                both[i] = IF i <= Len(one) THEN one[i] ELSE rest[i - Len(one)]
      BY <1>2, <2>3, <2>4, ConcatProperties
    <3>2. Len(one) + Len(rest) = n
      BY <2>1, <2>2, <2>4
    <3> QED
      BY <2>4, <3>1, <3>2
  <2>6. ASSUME NEW i \in 1..n PROVE both[i] = w[i]
    <3>1. CASE i = 1
      <4>1. both[1] = one[1]
        BY <2>5, <3>1
      <4>2. w[1] = r
        BY <1>1
      <4> QED
        BY <2>4, <3>1, <4>1, <4>2
    <3>2. CASE i # 1
      <4>1. i - 1 \in 1..n - 1 /\ ~(i <= 1) /\ (i - 1) + 1 = i
        BY <2>1, <3>2
      <4>2. rest[i - 1] = w[(i - 1) + 1]
        BY <2>2, <4>1
      <4> QED
        BY <2>5, <4>1, <4>2
    <3> QED
      BY <3>1, <3>2
  <2>7. Len(both) = Len(w) /\ \A i \in 1..Len(both) : both[i] = w[i]
    BY <2>1, <2>5, <2>6
  <2>8. both = w
    BY ONLY <2>5, <2>7, w \in Seq(S), SeqEqual
  <2> QED
    BY <2>3, <2>8
<1>4. Append(u, r) = u \o <<r>>
  BY <1>2, AppendIsConcat
<1>5. (u \o <<r>>) \o rest = u \o (<<r>> \o rest)
  BY <1>2, ConcatAssociative
<1> QED
  BY <1>1, <1>2, <1>3, <1>4, <1>5

PackingTypes ==
    /\ estimate \in [Records -> 1..MaxBytes]
    /\ oldest \in Seq(Records) /\ Len(oldest) = NumRecords /\ IsInjective(oldest)
    /\ limits \in [target : 1..MaxBytes, hard : 1..MaxBytes, most : 1..NumRecords]
    /\ limits.target <= limits.hard
    /\ batches \in Seq(Seq(Records)) /\ packs \in Seq(Seq(Seq(Records)))
    /\ phase \in {"plan", "split", "between"}
    /\ unsplit \in Seq(Records) /\ current \in Seq(Records) /\ closed \in Seq(Seq(Records))

\* What the loop has in hand.
Held ==
    /\ IsInjective(current) /\ IsInjective(unsplit)
    /\ ToSet(current) \cap ToSet(unsplit) = {}
    /\ currentSize = TotalIn(estimate, ToSet(current))

\* The plan's loop with c closed, u open and w to come, of a list.
Planned(e, m, list, c, u, w) ==
    /\ FlattenSeq(c) \o (u \o w) = list
    /\ Tight(e, m, c)
    /\ u # <<>> => ReadyBatch(e, m, u) /\ Follows(e, m, c, Head(u))
    /\ u = <<>> => \A r \in Records : Follows(e, m, c, r)

LEMMA LimitsAre ==
    ASSUME PackingTypes
    PROVE  /\ NumRecords \in Nat /\ MaxBytes \in Nat
           /\ limits.target \in Nat /\ limits.hard \in Nat /\ limits.most \in Nat
           /\ limits.most >= 1 /\ limits.most <= NumRecords
           /\ \A r \in Records : estimate[r] \in Nat /\ estimate[r] >= 1
<1>1. NumRecords \in Nat /\ MaxBytes \in Nat
  BY PackingAssumption
<1>2. limits.target \in 1..MaxBytes /\ limits.hard \in 1..MaxBytes /\ limits.most \in 1..NumRecords
  BY DEF PackingTypes
<1>3. \A r \in Records : estimate[r] \in 1..MaxBytes
  BY DEF PackingTypes
<1> QED
  BY <1>1, <1>2, <1>3

LEMMA OneRecord ==
    ASSUME PackingTypes, NEW r \in Records
    PROVE  /\ <<r>> \in Seq(Records) /\ <<r>> # <<>> /\ Len(<<r>>) = 1 /\ Head(<<r>>) = r
           /\ IsInjective(<<r>>) /\ ToSet(<<r>>) = {r}
           /\ TotalIn(estimate, {r}) = estimate[r]
           /\ ReadyBatch(estimate, limits, <<r>>)
<1>1. PICK s : s = <<r>>
  OBVIOUS
<1>2. s \in Seq(Records) /\ s # <<>> /\ Len(s) = 1 /\ Head(s) = r /\ s[1] = r /\ DOMAIN s = {1}
  BY <1>1
<1>3. IsInjective(s) /\ ToSet(s) = {r}
  BY <1>2 DEF IsInjective, ToSet
<1>4. TotalIn(estimate, {r}) = estimate[r]
  <2>1. {} \in SUBSET Records /\ r \in Records \ {} /\ {} \cup {r} = {r}
    OBVIOUS
  <2>2. TotalIn(estimate, {} \cup {r}) = TotalIn(estimate, {}) + estimate[r]
    BY <2>1, TotalGrows DEF PackingTypes
  <2>3. estimate[r] \in Nat
    BY LimitsAre
  <2> QED
    BY <2>1, <2>2, <2>3, TotalOfNone
<1>5. ReadyBatch(estimate, limits, s)
  BY <1>2, <1>3 DEF ReadyBatch
<1> QED
  BY <1>1, <1>2, <1>3, <1>4, <1>5

\* What is closed at the end of the loop, or when a record does not fit.
LEMMA CloseIs ==
    ASSUME PackingTypes, NEW w \in Seq(Records), NEW list,
           Planned(estimate, limits, list, closed, current, w)
    PROVE  /\ Close \in Seq(Seq(Records)) /\ Tight(estimate, limits, Close)
           /\ FlattenSeq(Close) \in Seq(Records) /\ FlattenSeq(Close) \o w = list
           /\ \A r \in Records : (current = <<>> \/ Divided(estimate, limits, current, r)) =>
                                    Follows(estimate, limits, Close, r)
<1>1. closed \in Seq(Seq(Records)) /\ current \in Seq(Records) /\ Tight(estimate, limits, closed)
  BY DEF PackingTypes, Planned
<1>2. FlattenSeq(closed) \in Seq(Records) /\ FlattenSeq(closed) \o (current \o w) = list
  BY <1>1, FlattenGrows DEF Planned
<1>3. CASE current = <<>>
  <2>1. Close = closed
    BY <1>3 DEF Close
  <2>2. current \o w = w
    BY <1>3, ConcatEmptySeq
  <2>3. \A r \in Records : Follows(estimate, limits, closed, r)
    BY <1>3 DEF Planned
  <2> QED
    BY <1>1, <1>2, <2>1, <2>2, <2>3
<1>4. CASE current # <<>>
  <2>1. Close = Append(closed, current)
    BY <1>4 DEF Close
  <2>2. /\ ReadyBatch(estimate, limits, current)
        /\ Follows(estimate, limits, closed, Head(current))
    BY <1>4 DEF Planned
  <2>3. /\ Append(closed, current) \in Seq(Seq(Records))
        /\ Tight(estimate, limits, Append(closed, current))
        /\ \A r : Divided(estimate, limits, current, r) =>
                     Follows(estimate, limits, Append(closed, current), r)
    BY <1>1, <2>2, TightGrows
  <2>4. FlattenSeq(Append(closed, current)) = FlattenSeq(closed) \o current
    BY <1>1, FlattenGrows
  <2>5. (FlattenSeq(closed) \o current) \o w = FlattenSeq(closed) \o (current \o w)
    <3>1. PICK a, b : a = FlattenSeq(closed) /\ b = current
      OBVIOUS
    <3>2. a \in Seq(Records) /\ b \in Seq(Records) /\ w \in Seq(Records)
      BY <1>1, <1>2, <3>1
    <3>3. (a \o b) \o w = a \o (b \o w)
      BY ONLY <3>2, ConcatAssociative
    <3> QED
      BY <3>1, <3>3
  <2>6. FlattenSeq(closed) \o current \in Seq(Records)
    BY <1>1, <1>2
  <2> QED
    BY <1>2, <1>4, <2>1, <2>3, <2>4, <2>5, <2>6
<1> QED
  BY <1>3, <1>4

\* One turn of the plan's loop, in its three cases.
LEMMA PlanTakes ==
    ASSUME PackingTypes, Held, unsplit # <<>>, NEW r \in Records, r = Head(unsplit),
           NEW list, Planned(estimate, limits, list, closed, current, unsplit)
    PROVE  /\ Oversized(r) =>
                 Planned(estimate, limits, list, Append(Close, <<r>>), <<>>, Tail(unsplit))
           /\ ~Oversized(r) /\ Full(r) =>
                 Planned(estimate, limits, list, Close, <<r>>, Tail(unsplit))
           /\ ~Oversized(r) /\ ~Full(r) =>
                 Planned(estimate, limits, list, closed, Append(current, r), Tail(unsplit))
<1>1. /\ unsplit \in Seq(Records) /\ current \in Seq(Records) /\ closed \in Seq(Seq(Records))
      /\ estimate \in [Records -> 1..MaxBytes] /\ limits.target <= limits.hard
  BY DEF PackingTypes
<1>2. /\ limits.target \in Nat /\ limits.hard \in Nat /\ limits.most \in Nat /\ limits.most >= 1
      /\ estimate[r] \in Nat
  BY LimitsAre
<1>3. /\ <<r>> \in Seq(Records) /\ <<r>> # <<>> /\ Len(<<r>>) = 1 /\ Head(<<r>>) = r
      /\ ToSet(<<r>>) = {r} /\ TotalIn(estimate, {r}) = estimate[r]
      /\ ReadyBatch(estimate, limits, <<r>>)
  BY OneRecord
<1>4. /\ Close \in Seq(Seq(Records)) /\ Tight(estimate, limits, Close)
      /\ FlattenSeq(Close) \in Seq(Records) /\ FlattenSeq(Close) \o unsplit = list
      /\ \A x \in Records : (current = <<>> \/ Divided(estimate, limits, current, x)) =>
                               Follows(estimate, limits, Close, x)
  BY <1>1, CloseIs
<1>5. PICK w : w = Tail(unsplit)
  OBVIOUS
<1>6. /\ w \in Seq(Records) /\ <<r>> \o w = unsplit
      /\ Append(current, r) \o w = current \o unsplit
      /\ ToSet(w) = ToSet(unsplit) \ {r} /\ r \in ToSet(unsplit)
  <2>1. IsInjective(unsplit)
    BY DEF Held
  <2>2. /\ Tail(unsplit) \in Seq(Records)
        /\ ToSet(Tail(unsplit)) = ToSet(unsplit) \ {r} /\ r \in ToSet(unsplit)
    BY ONLY <1>1, <2>1, unsplit # <<>>, r = Head(unsplit), HeadLeaves
  <2>3. PICK u, v : u = current /\ v = unsplit
    OBVIOUS
  <2>4. u \in Seq(Records) /\ v \in Seq(Records) /\ v # <<>> /\ r = Head(v) /\ w = Tail(v)
    BY <1>1, <1>5, <2>3
  <2>5. Append(u, r) \o w = u \o v /\ <<r>> \o w = v
    BY ONLY <2>4, HeadMoves
  <2> QED
    BY <1>5, <2>2, <2>3, <2>5
<1>7. /\ currentSize = TotalIn(estimate, ToSet(current)) /\ r \notin ToSet(current)
      /\ IsInjective(current) /\ ToSet(current) \in SUBSET Records
  BY <1>1, <1>6, ListCounts DEF Held
<1>8. /\ currentSize \in Nat
      /\ TotalIn(estimate, ToSet(current) \cup {r}) = currentSize + estimate[r]
  BY <1>1, <1>7, TotalGrows
<1>9. current # <<>> =>
         /\ ReadyBatch(estimate, limits, current)
         /\ Follows(estimate, limits, closed, Head(current))
  BY DEF Planned
<1>10. Len(current) \in Nat /\ (current # <<>> => Len(current) >= 1)
  BY <1>1, EmptySeq, LenProperties
<1>11. ASSUME Oversized(r)
       PROVE  Planned(estimate, limits, list, Append(Close, <<r>>), <<>>, w)
  <2>1. estimate[r] > limits.hard /\ estimate[r] > limits.target
    BY <1>1, <1>2, <1>11 DEF Oversized
  <2>2. Divided(estimate, limits, current, r)
    BY <1>2, <1>7, <1>8, <2>1 DEF Divided
  <2>3. Follows(estimate, limits, Close, Head(<<r>>))
    BY <1>3, <1>4, <2>2
  <2>4. /\ Append(Close, <<r>>) \in Seq(Seq(Records))
        /\ Tight(estimate, limits, Append(Close, <<r>>))
        /\ \A x : Divided(estimate, limits, <<r>>, x) =>
                     Follows(estimate, limits, Append(Close, <<r>>), x)
    BY <1>3, <1>4, <2>3, TightGrows
  <2>5. ASSUME NEW x \in Records PROVE Divided(estimate, limits, <<r>>, x)
    <3>1. estimate[x] \in Nat
      BY LimitsAre
    <3>2. estimate[r] + estimate[x] > limits.target
      BY <1>2, <2>1, <3>1
    <3> QED
      BY <1>3, <3>2 DEF Divided
  <2>6. FlattenSeq(Append(Close, <<r>>)) = FlattenSeq(Close) \o <<r>>
    BY <1>3, <1>4, FlattenGrows
  <2>7. FlattenSeq(Append(Close, <<r>>)) \o (<<>> \o w) = list
    <3>1. PICK a, b : a = FlattenSeq(Close) /\ b = <<r>>
      OBVIOUS
    <3>2. a \in Seq(Records) /\ b \in Seq(Records) /\ w \in Seq(Records)
      BY <1>3, <1>4, <1>6, <3>1
    <3>3. (a \o b) \o w = a \o (b \o w)
      BY ONLY <3>2, ConcatAssociative
    <3>4. <<>> \o w = w
      BY <1>6, ConcatEmptySeq
    <3>5. b \o w = unsplit /\ a \o unsplit = list
      BY <1>4, <1>6, <3>1
    <3> QED
      BY <2>6, <3>1, <3>3, <3>4, <3>5
  <2> QED
    BY <2>4, <2>5, <2>7 DEF Planned
<1>12. ASSUME ~Oversized(r), Full(r)
       PROVE  Planned(estimate, limits, list, Close, <<r>>, w)
  <2>1. current # <<>> /\ ReadyBatch(estimate, limits, current)
    BY <1>9, <1>12 DEF Full
  <2>2. \/ Len(current) >= limits.most
        \/ currentSize + estimate[r] > limits.target
    BY <1>1, <1>2, <1>8, <1>12 DEF Full
  <2>3. Len(current) <= limits.most
    BY <1>2, <1>10, <2>1 DEF ReadyBatch
  <2>4. Len(current) = limits.most \/ currentSize + estimate[r] > limits.target
    BY <1>2, <1>10, <2>2, <2>3
  <2>5. Divided(estimate, limits, current, r)
    BY <1>7, <2>4 DEF Divided
  <2>6. Follows(estimate, limits, Close, Head(<<r>>))
    BY <1>3, <1>4, <2>5
  <2>7. FlattenSeq(Close) \o (<<r>> \o w) = list
    BY <1>4, <1>6
  <2> QED
    BY <1>3, <1>4, <2>6, <2>7 DEF Planned
<1>13. ASSUME ~Oversized(r), ~Full(r)
       PROVE  Planned(estimate, limits, list, closed, Append(current, r), w)
  <2>1. PICK u : u = Append(current, r)
    OBVIOUS
  <2>2. u \in Seq(Records) /\ u # <<>> /\ Len(u) = Len(current) + 1
    BY <1>1, <2>1, AppendProperties
  <2>3. IsInjective(u) /\ ToSet(u) = ToSet(current) \cup {r}
    BY <1>1, <1>7, <2>1, ListGrows
  <2>4. ReadyBatch(estimate, limits, u)
    <3>1. CASE current = <<>>
      <4>1. ~(Len(u) > 1)
        BY <2>2, <3>1
      <4> QED
        BY <2>2, <2>3, <4>1 DEF ReadyBatch
    <3>2. CASE current # <<>>
      <4>1. ~(Len(current) >= limits.most) /\ ~(currentSize + estimate[r] > limits.target)
        BY <1>13, <3>2 DEF Full
      <4>2. Len(u) <= limits.most
        BY <1>2, <1>10, <2>2, <4>1
      <4>3. TotalIn(estimate, ToSet(u)) <= limits.target
        BY <1>2, <1>8, <2>3, <4>1
      <4> QED
        BY <2>2, <2>3, <4>2, <4>3 DEF ReadyBatch
    <3> QED
      BY <3>1, <3>2
  <2>5. Follows(estimate, limits, closed, Head(u))
    <3>1. Head(u) = IF current = <<>> THEN r ELSE Head(current)
      BY <1>1, <2>1, HeadTailAppend
    <3>2. CASE current = <<>>
      BY <3>1, <3>2 DEF Planned
    <3>3. CASE current # <<>>
      BY <1>9, <3>1, <3>3
    <3> QED
      BY <3>2, <3>3
  <2>6. FlattenSeq(closed) \o (u \o w) = list /\ Tight(estimate, limits, closed)
    BY <1>6, <2>1 DEF Planned
  <2>7. Planned(estimate, limits, list, closed, u, w)
    BY <2>2, <2>4, <2>5, <2>6 DEF Planned
  <2> QED
    BY <2>1, <2>7
<1> QED
  BY <1>5, <1>11, <1>12, <1>13

\* The loop of create over a batch B makes one pack: it closes nothing before
\* the end, or the batch was one record over the hard limit.
OnePack(c, u, w, B) ==
    \/ c = <<>> /\ ToSet(u) \cup ToSet(w) = B
    \/ u = <<>> /\ w = <<>> /\ Len(c) = 1 /\ ToSet(c[1]) = B

LEMMA SplitTakes ==
    ASSUME PackingTypes, Held, unsplit # <<>>, NEW r \in Records, r = Head(unsplit),
           NEW b \in Seq(Records), ReadyBatch(estimate, limits, b),
           OnePack(closed, current, unsplit, ToSet(b))
    PROVE  /\ ~Full(r)
           /\ Oversized(r) => OnePack(Append(Close, <<r>>), <<>>, Tail(unsplit), ToSet(b))
           /\ ~Oversized(r) =>
                 OnePack(closed, Append(current, r), Tail(unsplit), ToSet(b))
<1>1. /\ unsplit \in Seq(Records) /\ current \in Seq(Records) /\ closed \in Seq(Seq(Records))
      /\ estimate \in [Records -> 1..MaxBytes] /\ limits.target <= limits.hard
  BY DEF PackingTypes
<1>2. /\ limits.target \in Nat /\ limits.hard \in Nat /\ limits.most \in Nat /\ limits.most >= 1
      /\ estimate[r] \in Nat
  BY LimitsAre
<1>3. closed = <<>> /\ ToSet(current) \cup ToSet(unsplit) = ToSet(b)
  BY DEF OnePack
<1>4. PICK w : w = Tail(unsplit)
  OBVIOUS
<1>5. /\ w \in Seq(Records) /\ IsInjective(w)
      /\ ToSet(w) = ToSet(unsplit) \ {r} /\ r \in ToSet(unsplit)
  <2>1. IsInjective(unsplit)
    BY DEF Held
  <2>2. /\ Tail(unsplit) \in Seq(Records) /\ IsInjective(Tail(unsplit))
        /\ ToSet(Tail(unsplit)) = ToSet(unsplit) \ {r} /\ r \in ToSet(unsplit)
    BY ONLY <1>1, <2>1, unsplit # <<>>, r = Head(unsplit), HeadLeaves
  <2> QED
    BY <1>4, <2>2
<1>6. /\ currentSize = TotalIn(estimate, ToSet(current)) /\ r \notin ToSet(current)
      /\ IsInjective(current) /\ ToSet(current) \in SUBSET Records
  BY <1>1, <1>5, ListCounts DEF Held
<1>7. /\ currentSize \in Nat
      /\ TotalIn(estimate, ToSet(current) \cup {r}) = currentSize + estimate[r]
  BY <1>1, <1>6, TotalGrows
<1>8. /\ IsFiniteSet(ToSet(b)) /\ Cardinality(ToSet(b)) = Len(b) /\ ToSet(b) \in SUBSET Records
      /\ Len(b) \in Nat /\ Len(b) >= 1
  <2>1. IsInjective(b) /\ b # <<>>
    BY DEF ReadyBatch
  <2>2. Len(b) \in Nat \ {0}
    BY <2>1, EmptySeq
  <2> QED
    BY <2>1, <2>2, ListCounts
<1>9. /\ IsFiniteSet(ToSet(current)) /\ Cardinality(ToSet(current)) = Len(current)
      /\ Len(current) \in Nat
  BY <1>1, <1>6, ListCounts, LenProperties
<1>10. ToSet(current) \cup {r} \in SUBSET ToSet(b)
  BY <1>3, <1>5
<1>11. Len(current) + 1 <= Len(b)
  <2>1. Cardinality(ToSet(current) \cup {r}) = Cardinality(ToSet(current)) + 1
    BY <1>6, <1>9, FS_AddElement
  <2>2. Cardinality(ToSet(current) \cup {r}) <= Cardinality(ToSet(b))
    BY <1>8, <1>10, FS_Subset
  <2> QED
    BY <1>8, <1>9, <2>1, <2>2
<1>12. currentSize + estimate[r] <= TotalIn(estimate, ToSet(b)) /\ TotalIn(estimate, ToSet(b)) \in Nat
  <2>1. /\ TotalIn(estimate, ToSet(current) \cup {r}) <= TotalIn(estimate, ToSet(b))
        /\ TotalIn(estimate, ToSet(b)) \in Nat
    BY <1>1, <1>8, <1>10, TotalOfMore
  <2> QED
    BY <1>7, <2>1
<1>13. Len(b) > 1 => TotalIn(estimate, ToSet(b)) <= limits.target /\ Len(b) <= limits.most
  BY DEF ReadyBatch
<1>14. ~Full(r)
  <2>1. CASE Len(b) > 1
    <3>1. ~(Len(current) >= limits.most)
      BY <1>2, <1>8, <1>9, <1>11, <1>13, <2>1
    <3>2. ~(currentSize + estimate[r] > limits.target)
      BY <1>2, <1>7, <1>12, <1>13, <2>1
    <3>3. ~(currentSize + estimate[r] > limits.hard)
      BY <1>1, <1>2, <1>7, <3>2
    <3> QED
      BY <3>1, <3>2, <3>3 DEF Full
  <2>2. CASE ~(Len(b) > 1)
    <3>1. Len(current) = 0
      BY <1>8, <1>9, <1>11, <2>2
    <3>2. current = <<>>
      BY <1>1, <3>1, EmptySeq
    <3> QED
      BY <3>2 DEF Full
  <2> QED
    BY <2>1, <2>2
<1>15. ASSUME Oversized(r)
       PROVE  OnePack(Append(Close, <<r>>), <<>>, w, ToSet(b))
  <2>1. ~(Len(b) > 1)
    BY <1>1, <1>2, <1>7, <1>12, <1>13, <1>15 DEF Oversized
  <2>2. Len(current) = 0 /\ Len(b) = 1
    BY <1>8, <1>9, <1>11, <2>1
  <2>3. current = <<>>
    BY <1>1, <2>2, EmptySeq
  <2>4. ToSet(b) = {r}
    <3>1. PICK x : ToSet(b) = {x}
      BY <1>8, <2>2, FS_Singleton
    <3> QED
      BY <1>10, <3>1
  <2>5. ToSet(w) = {}
    BY <1>3, <1>5, <2>4
  <2>6. w = <<>>
    <3>1. Cardinality(ToSet(w)) = Len(w) /\ Cardinality(ToSet(w)) = 0
      BY <1>5, <2>5, ListCounts, FS_EmptySet
    <3> QED
      BY <1>5, <3>1, EmptySeq
  <2>7. Append(Close, <<r>>) = << <<r>> >>
    BY <1>3, <2>3 DEF Close
  <2>8. Len(<< <<r>> >>) = 1 /\ << <<r>> >>[1] = <<r>> /\ ToSet(<<r>>) = {r}
    BY OneRecord
  <2> QED
    BY <2>4, <2>6, <2>7, <2>8 DEF OnePack
<1>16. OnePack(closed, Append(current, r), w, ToSet(b))
  <2>1. ToSet(Append(current, r)) = ToSet(current) \cup {r}
    BY <1>1, <1>6, ListGrows
  <2> QED
    BY <1>3, <1>5, <2>1 DEF OnePack
<1> QED
  BY <1>4, <1>14, <1>15, <1>16

LEMMA SplitEnds ==
    ASSUME PackingTypes, NEW b \in Seq(Records), b # <<>>,
           OnePack(closed, current, <<>>, ToSet(b))
    PROVE  /\ Close \in Seq(Seq(Records)) /\ Len(Close) = 1 /\ ToSet(Close[1]) = ToSet(b)
<1>1. current \in Seq(Records) /\ closed \in Seq(Seq(Records))
  BY DEF PackingTypes
<1>2. ToSet(<<>>) = {}
  BY DEF ToSet
<1>3. CASE closed = <<>> /\ ToSet(current) \cup ToSet(<<>>) = ToSet(b)
  <2>1. ToSet(current) = ToSet(b)
    BY <1>2, <1>3
  <2>2. ToSet(b) # {}
    <3>1. Len(b) \in Nat \ {0} /\ DOMAIN b = 1..Len(b)
      BY EmptySeq, LenProperties
    <3>2. b[1] \in ToSet(b)
      BY <3>1 DEF ToSet
    <3> QED
      BY <3>2
  <2>3. current # <<>>
    BY <1>2, <2>1, <2>2
  <2>4. Close = <<current>>
    BY <1>3, <2>3 DEF Close
  <2> QED
    BY <1>1, <2>1, <2>4
<1>4. CASE current = <<>> /\ Len(closed) = 1 /\ ToSet(closed[1]) = ToSet(b)
  BY <1>1, <1>4 DEF Close
<1> QED
  BY <1>3, <1>4 DEF OnePack

PlanHolds ==
    phase = "plan" =>
        /\ batches = <<>> /\ packs = <<>>
        /\ Planned(estimate, limits, Selected, closed, current, unsplit)

PlanStays == phase # "plan" => FlattenSeq(batches) = Selected /\ Tight(estimate, limits, batches)

SplitHolds ==
    phase = "split" =>
        /\ Len(packs) < Len(batches)
        /\ OnePack(closed, current, unsplit, ToSet(batches[Len(packs) + 1]))

PacksHold == Len(packs) <= Len(batches) /\ PacksAreTheBatches

PackingInv == PackingTypes /\ Held /\ PlanHolds /\ PlanStays /\ SplitHolds /\ PacksHold

LEMMA SelectedIs ==
    ASSUME PackingTypes
    PROVE  Selected \in Seq(Records) /\ IsInjective(Selected)
<1>1. PICK k : k = IF limits.most <= NumRecords THEN limits.most ELSE NumRecords
  OBVIOUS
<1>2. k \in Nat /\ k <= Len(oldest) /\ Len(oldest) \in Nat
  BY <1>1, LimitsAre DEF PackingTypes
<1>3. PICK s : s = SubSeq(oldest, 1, k)
  OBVIOUS
<1>4. s \in Seq(Records) /\ Len(s) = k /\ \A i \in 1..k : s[i] = oldest[i]
  <2>1. oldest \in Seq(Records)
    BY DEF PackingTypes
  <2> QED
    BY ONLY <1>2, <1>3, <2>1, FirstPart
<1>5. DOMAIN s = 1..k /\ DOMAIN oldest = 1..Len(oldest)
  BY <1>4 DEF PackingTypes
<1>6. IsInjective(s)
  <2> SUFFICES ASSUME NEW i \in 1..k, NEW j \in 1..k, s[i] = s[j] PROVE i = j
    BY <1>5 DEF IsInjective
  <2>1. oldest[i] = oldest[j] /\ i \in DOMAIN oldest /\ j \in DOMAIN oldest
    BY <1>2, <1>4, <1>5
  <2> QED
    BY <2>1 DEF PackingTypes, IsInjective
<1>7. Selected = s
  BY <1>1, <1>3 DEF Selected
<1> QED
  BY <1>4, <1>6, <1>7

LEMMA NoneHeld ==
    ASSUME NEW e
    PROVE  IsInjective(<<>>) /\ ToSet(<<>>) = {} /\ TotalIn(e, ToSet(<<>>)) = 0
<1>1. ToSet(<<>>) = {} /\ IsInjective(<<>>)
  BY DEF ToSet, IsInjective
<1> QED
  BY <1>1, TotalOfNone

LEMMA PackingStarts == ASSUME PackingInit PROVE PackingInv
<1>1. PackingTypes
  <2>1. NumRecords \in Nat
    BY PackingAssumption
  <2>2. oldest \in [1..NumRecords -> Records] /\ IsInjective(oldest)
    BY DEF PackingInit, Records
  <2>3. oldest \in Seq(Records) /\ Len(oldest) = NumRecords
    BY <2>1, <2>2
  <2>4. /\ limits \in [target : 1..MaxBytes, hard : 1..MaxBytes, most : 1..NumRecords]
        /\ limits.target <= limits.hard /\ estimate \in [Records -> 1..MaxBytes]
    BY DEF PackingInit
  <2>5. limits.most \in 1..NumRecords
    BY <2>4
  <2>6. Selected = SubSeq(oldest, 1, limits.most) /\ limits.most \in Nat /\ limits.most <= Len(oldest)
    BY <2>1, <2>3, <2>5 DEF Selected
  <2>7. Selected \in Seq(Records)
    BY <2>3, <2>6, FirstPart
  <2> QED
    BY <2>2, <2>3, <2>4, <2>7, EmptySeq DEF PackingInit, PackingTypes
<1>2. /\ batches = <<>> /\ packs = <<>> /\ phase = "plan" /\ unsplit = Selected
      /\ closed = <<>> /\ current = <<>> /\ currentSize = 0
  BY DEF PackingInit
<1>3. Selected \in Seq(Records) /\ IsInjective(Selected)
  BY <1>1, SelectedIs
<1>4. Held
  BY <1>2, <1>3, NoneHeld DEF Held
<1>5. Planned(estimate, limits, Selected, <<>>, <<>>, Selected)
  <2>1. FlattenSeq(<<>>) = <<>> /\ DOMAIN <<>> = {} /\ Len(<<>>) = 0
    BY DEF FlattenSeq
  <2>2. <<>> \o (<<>> \o Selected) = Selected
    BY <1>3, ConcatEmptySeq
  <2>3. 1..Len(<<>>) - 1 = {}
    BY <2>1
  <2>4. Tight(estimate, limits, <<>>)
    BY <2>1, <2>3 DEF Tight
  <2> QED
    BY <2>1, <2>2, <2>4 DEF Planned, Follows
<1>6. PacksHold
  <2>1. Len(packs) = 0 /\ Len(batches) = 0 /\ DOMAIN packs = {}
    BY <1>2
  <2> QED
    BY <2>1 DEF PacksHold, PacksAreTheBatches
<1> QED
  BY <1>1, <1>2, <1>4, <1>5, <1>6 DEF PackingInv, PlanHolds, PlanStays, SplitHolds

LEMMA TakeKeeps == ASSUME PackingInv, TakeNext PROVE PackingInv'
<1>1. /\ PackingTypes /\ Held /\ phase \in {"plan", "split"} /\ unsplit # <<>>
      /\ unsplit \in Seq(Records) /\ current \in Seq(Records) /\ closed \in Seq(Seq(Records))
  BY DEF PackingInv, PackingTypes, TakeNext
<1>2. PICK r : r = Head(unsplit)
  OBVIOUS
<1>3. PICK w : w = Tail(unsplit)
  OBVIOUS
<1>4. /\ unsplit' = w /\ estimate' = estimate /\ oldest' = oldest /\ limits' = limits
      /\ batches' = batches /\ packs' = packs /\ phase' = phase
  BY <1>3 DEF TakeNext, packingInput
<1>5. \/ /\ Oversized(r)
         /\ closed' = Append(Close, <<r>>) /\ current' = <<>> /\ currentSize' = 0
      \/ /\ ~Oversized(r) /\ Full(r)
         /\ closed' = Close /\ current' = <<r>> /\ currentSize' = estimate[r]
      \/ /\ ~Oversized(r) /\ ~Full(r)
         /\ closed' = closed
         /\ current' = Append(current, r) /\ currentSize' = currentSize + estimate[r]
  BY <1>2 DEF TakeNext
<1>6. /\ w \in Seq(Records) /\ IsInjective(w) /\ r \in Records
      /\ ToSet(w) = ToSet(unsplit) \ {r} /\ r \in ToSet(unsplit)
  <2>1. IsInjective(unsplit)
    BY <1>1 DEF Held
  <2>2. /\ Head(unsplit) \in ToSet(unsplit) /\ Head(unsplit) \in Records
        /\ Tail(unsplit) \in Seq(Records) /\ IsInjective(Tail(unsplit))
        /\ ToSet(Tail(unsplit)) = ToSet(unsplit) \ {Head(unsplit)}
    BY ONLY <1>1, <2>1, HeadLeaves
  <2> QED
    BY <1>2, <1>3, <2>2
<1>7. /\ <<r>> \in Seq(Records) /\ IsInjective(<<r>>) /\ ToSet(<<r>>) = {r}
      /\ TotalIn(estimate, {r}) = estimate[r]
  BY <1>1, <1>6, OneRecord
<1>8. /\ currentSize = TotalIn(estimate, ToSet(current)) /\ r \notin ToSet(current)
      /\ IsInjective(current) /\ ToSet(current) \in SUBSET Records
      /\ ToSet(current) \cap ToSet(unsplit) = {}
  BY <1>1, <1>6, ListCounts DEF Held
<1>9. /\ Append(current, r) \in Seq(Records) /\ IsInjective(Append(current, r))
      /\ ToSet(Append(current, r)) = ToSet(current) \cup {r}
      /\ TotalIn(estimate, ToSet(current) \cup {r}) = currentSize + estimate[r]
  <2>1. TotalIn(estimate, ToSet(current) \cup {r}) = TotalIn(estimate, ToSet(current)) + estimate[r]
    BY <1>1, <1>6, <1>8, TotalGrows DEF PackingTypes
  <2> QED
    BY <1>1, <1>6, <1>8, <2>1, ListGrows
<1>10. /\ closed' \in Seq(Seq(Records)) /\ current' \in Seq(Records)
       /\ IsInjective(current') /\ ToSet(current') \cap ToSet(w) = {}
       /\ currentSize' = TotalIn(estimate, ToSet(current'))
  <2>1. Close \in Seq(Seq(Records))
    <3>1. Append(closed, current) \in Seq(Seq(Records))
      BY <1>1, AppendProperties
    <3> QED
      BY <1>1, <3>1 DEF Close
  <2>2. Append(Close, <<r>>) \in Seq(Seq(Records))
    BY <1>7, <2>1, AppendProperties
  <2>3. <<>> \in Seq(Records)
    BY EmptySeq
  <2>4. CASE closed' = Append(Close, <<r>>) /\ current' = <<>> /\ currentSize' = 0
    BY <2>2, <2>3, <2>4, NoneHeld
  <2>5. CASE closed' = Close /\ current' = <<r>> /\ currentSize' = estimate[r]
    BY <1>6, <1>7, <2>1, <2>5
  <2>6. CASE /\ closed' = closed
             /\ current' = Append(current, r) /\ currentSize' = currentSize + estimate[r]
    BY <1>1, <1>6, <1>8, <1>9, <2>6
  <2> QED
    BY <1>5, <2>4, <2>5, <2>6
<1>11. PackingTypes'
  BY <1>1, <1>4, <1>6, <1>10 DEF PackingTypes
<1>12. Held'
  BY <1>4, <1>6, <1>10 DEF Held
<1>13. PlanHolds'
  <2> SUFFICES ASSUME phase = "plan"
               PROVE  /\ batches = <<>> /\ packs = <<>>
                      /\ Planned(estimate, limits, Selected, closed', current', w)
    BY <1>4 DEF PlanHolds, Selected
  <2>1. /\ batches = <<>> /\ packs = <<>>
        /\ Planned(estimate, limits, Selected, closed, current, unsplit)
    BY DEF PackingInv, PlanHolds
  <2>2. /\ Oversized(r) =>
              Planned(estimate, limits, Selected, Append(Close, <<r>>), <<>>, Tail(unsplit))
        /\ ~Oversized(r) /\ Full(r) =>
              Planned(estimate, limits, Selected, Close, <<r>>, Tail(unsplit))
        /\ ~Oversized(r) /\ ~Full(r) =>
              Planned(estimate, limits, Selected, closed, Append(current, r), Tail(unsplit))
    BY <1>1, <1>2, <1>6, <2>1, PlanTakes
  <2> QED
    BY <1>3, <1>5, <2>1, <2>2
<1>14. PlanStays'
  BY <1>4 DEF PackingInv, PlanStays, Selected
<1>15. SplitHolds'
  <2> SUFFICES ASSUME phase = "split"
               PROVE  /\ Len(packs) < Len(batches)
                      /\ OnePack(closed', current', w, ToSet(batches[Len(packs) + 1]))
    BY <1>4 DEF SplitHolds
  <2>1. PICK b : b = batches[Len(packs) + 1]
    OBVIOUS
  <2>2. Len(packs) < Len(batches) /\ OnePack(closed, current, unsplit, ToSet(b))
    BY <2>1 DEF PackingInv, SplitHolds
  <2>3. b \in Seq(Records) /\ ReadyBatch(estimate, limits, b)
    <3>1. /\ Len(packs) \in Nat /\ Len(batches) \in Nat /\ DOMAIN batches = 1..Len(batches)
          /\ batches \in Seq(Seq(Records)) /\ packs \in Seq(Seq(Seq(Records)))
      BY <1>1, LenProperties DEF PackingTypes
    <3>2. Len(packs) + 1 \in 1..Len(batches)
      BY <2>2, <3>1
    <3>3. Tight(estimate, limits, batches)
      BY DEF PackingInv, PlanStays
    <3> QED
      BY <2>1, <3>1, <3>2, <3>3, ElementOfSeq DEF Tight
  <2>4. /\ ~Full(r)
        /\ Oversized(r) => OnePack(Append(Close, <<r>>), <<>>, Tail(unsplit), ToSet(b))
        /\ ~Oversized(r) => OnePack(closed, Append(current, r), Tail(unsplit), ToSet(b))
    BY <1>1, <1>2, <1>6, <2>2, <2>3, SplitTakes
  <2> QED
    BY <1>3, <1>5, <2>1, <2>2, <2>4
<1>16. PacksHold'
  BY <1>4 DEF PackingInv, PacksHold, PacksAreTheBatches
<1> QED
  BY <1>11, <1>12, <1>13, <1>14, <1>15, <1>16 DEF PackingInv

LEMMA EndPlanKeeps == ASSUME PackingInv, EndPlan PROVE PackingInv'
<1>1. /\ PackingTypes /\ Held /\ phase = "plan" /\ unsplit = <<>>
      /\ batches' = Close /\ phase' = "between" /\ packs' = packs
      /\ unsplit' = unsplit /\ closed' = closed /\ current' = current
      /\ currentSize' = currentSize
      /\ estimate' = estimate /\ oldest' = oldest /\ limits' = limits
  BY DEF PackingInv, EndPlan, packingInput
<1>2. batches = <<>> /\ packs = <<>> /\ Planned(estimate, limits, Selected, closed, current, <<>>)
  BY <1>1 DEF PackingInv, PlanHolds
<1>3. /\ Close \in Seq(Seq(Records)) /\ Tight(estimate, limits, Close)
      /\ FlattenSeq(Close) \in Seq(Records) /\ FlattenSeq(Close) \o <<>> = Selected
  <2>1. <<>> \in Seq(Records)
    BY EmptySeq
  <2> QED
    BY <1>1, <1>2, <2>1, CloseIs
<1>4. FlattenSeq(Close) = Selected
  BY <1>3, ConcatEmptySeq
<1>5. PackingTypes'
  BY <1>1, <1>3 DEF PackingTypes
<1>6. Held'
  BY <1>1 DEF Held
<1>7. Selected' = Selected
  BY <1>1 DEF Selected
<1>8. PlanStays'
  BY <1>1, <1>3, <1>4, <1>7 DEF PlanStays
<1>9. PacksHold'
  <2>1. Len(packs') = 0 /\ DOMAIN packs' = {} /\ Len(Close) \in Nat
    BY <1>1, <1>2, <1>3
  <2>2. Len(packs') <= Len(batches')
    BY <1>1, <2>1
  <2> QED
    BY <2>1, <2>2 DEF PacksHold, PacksAreTheBatches
<1> QED
  BY <1>1, <1>5, <1>6, <1>8, <1>9 DEF PackingInv, PlanHolds, SplitHolds

LEMMA SplitBatchKeeps == ASSUME PackingInv, SplitBatch PROVE PackingInv'
<1>1. /\ PackingTypes /\ phase = "between" /\ Len(packs) < Len(batches)
      /\ closed' = <<>> /\ current' = <<>> /\ currentSize' = 0 /\ phase' = "split"
      /\ unsplit' = Ascending(ToSet(batches[Len(packs) + 1]))
      /\ batches' = batches /\ packs' = packs
      /\ estimate' = estimate /\ oldest' = oldest /\ limits' = limits
  BY DEF PackingInv, SplitBatch, packingInput
<1>2. PICK b : b = batches[Len(packs) + 1]
  OBVIOUS
<1>3. b \in Seq(Records) /\ IsInjective(b)
  <2>1. /\ Len(packs) \in Nat /\ Len(batches) \in Nat /\ DOMAIN batches = 1..Len(batches)
        /\ batches \in Seq(Seq(Records)) /\ packs \in Seq(Seq(Seq(Records)))
    BY <1>1, LenProperties DEF PackingTypes
  <2>2. Len(packs) + 1 \in 1..Len(batches)
    BY <1>1, <2>1
  <2>3. Tight(estimate, limits, batches)
    BY <1>1 DEF PackingInv, PlanStays
  <2> QED
    BY <1>2, <2>1, <2>2, <2>3, ElementOfSeq DEF Tight, ReadyBatch
<1>4. PICK B : B = ToSet(b)
  OBVIOUS
<1>5. IsFiniteSet(B) /\ B \in SUBSET Records /\ B \in SUBSET Nat
  <2>1. IsFiniteSet(B) /\ B \in SUBSET Records
    BY <1>3, <1>4, ListCounts
  <2>2. Records \subseteq Nat
    BY DEF Records
  <2> QED
    BY <2>1, <2>2
<1>6. /\ unsplit' \in Seq(B) /\ IsInjective(unsplit') /\ ToSet(unsplit') = B
  BY <1>1, <1>2, <1>4, <1>5, AscendingList
<1>7. unsplit' \in Seq(Records)
  BY <1>5, <1>6, SeqMonotonic
<1>8. PackingTypes'
  BY <1>1, <1>7, EmptySeq DEF PackingTypes
<1>9. Held'
  BY <1>1, <1>6, NoneHeld DEF Held
<1>10. SplitHolds'
  <2>1. ToSet(current') \cup ToSet(unsplit') = ToSet(batches'[Len(packs') + 1])
    BY <1>1, <1>2, <1>4, <1>6, NoneHeld
  <2> QED
    BY <1>1, <2>1 DEF SplitHolds, OnePack
<1>11. PlanStays'
  BY <1>1 DEF PackingInv, PlanStays, Selected
<1>12. PacksHold'
  BY <1>1 DEF PackingInv, PacksHold, PacksAreTheBatches
<1> QED
  BY <1>1, <1>8, <1>9, <1>10, <1>11, <1>12 DEF PackingInv, PlanHolds

LEMMA WritePacksKeeps == ASSUME PackingInv, WritePacks PROVE PackingInv'
<1>1. /\ PackingTypes /\ Held /\ phase = "split" /\ unsplit = <<>>
      /\ packs' = Append(packs, Close) /\ phase' = "between" /\ batches' = batches
      /\ unsplit' = unsplit /\ closed' = closed /\ current' = current
      /\ currentSize' = currentSize
      /\ estimate' = estimate /\ oldest' = oldest /\ limits' = limits
  BY DEF PackingInv, WritePacks, packingInput
<1>2. PICK n : n = Len(packs) /\ n \in Nat
  BY <1>1, LenProperties DEF PackingTypes
<1>3. PICK b : b = batches[n + 1]
  OBVIOUS
<1>4. n < Len(batches) /\ OnePack(closed, current, <<>>, ToSet(b)) /\ Len(batches) \in Nat
  BY <1>1, <1>2, <1>3, LenProperties DEF PackingInv, SplitHolds, PackingTypes
<1>5. b \in Seq(Records) /\ b # <<>>
  <2>1. batches \in Seq(Seq(Records)) /\ DOMAIN batches = 1..Len(batches)
    BY <1>1, LenProperties DEF PackingTypes
  <2>2. n + 1 \in 1..Len(batches)
    BY <1>2, <1>4
  <2>3. Tight(estimate, limits, batches)
    BY <1>1 DEF PackingInv, PlanStays
  <2> QED
    BY <1>3, <2>1, <2>2, <2>3, ElementOfSeq DEF Tight, ReadyBatch
<1>6. Close \in Seq(Seq(Records)) /\ Len(Close) = 1 /\ ToSet(Close[1]) = ToSet(b)
  BY <1>1, <1>4, <1>5, SplitEnds
<1>7. /\ packs' \in Seq(Seq(Seq(Records))) /\ Len(packs') = n + 1 /\ packs'[n + 1] = Close
      /\ \A i \in 1..n : packs'[i] = packs[i]
  BY <1>1, <1>2, <1>6, AppendProperties DEF PackingTypes
<1>8. DOMAIN packs = 1..n /\ DOMAIN packs' = 1..n + 1
  BY <1>1, <1>2, <1>7, LenProperties DEF PackingTypes
<1>9. PackingTypes'
  BY <1>1, <1>7 DEF PackingTypes
<1>10. Held'
  BY <1>1 DEF Held
<1>11. PlanStays'
  BY <1>1 DEF PackingInv, PlanStays, Selected
<1>12. PacksHold'
  <2>1. Len(packs') <= Len(batches')
    BY <1>1, <1>2, <1>4, <1>7
  <2>2. ASSUME NEW i \in 1..n + 1
        PROVE  Len(packs'[i]) = 1 /\ ToSet(packs'[i][1]) = ToSet(batches[i])
    <3>1. CASE i = n + 1
      BY <1>3, <1>6, <1>7, <3>1
    <3>2. CASE i # n + 1
      <4>1. i \in 1..n
        BY <1>2, <3>2
      <4>2. Len(packs[i]) = 1 /\ ToSet(packs[i][1]) = ToSet(batches[i])
        BY <1>8, <4>1 DEF PackingInv, PacksHold, PacksAreTheBatches
      <4> QED
        BY <1>7, <4>1, <4>2
    <3> QED
      BY <3>1, <3>2
  <2> QED
    BY <1>1, <1>8, <2>1, <2>2 DEF PacksHold, PacksAreTheBatches
<1> QED
  BY <1>1, <1>9, <1>10, <1>11, <1>12 DEF PackingInv, PlanHolds, SplitHolds

LEMMA PackingKeeps == PackingInv /\ [PackingNext]_packingVars => PackingInv'
<1>1. ASSUME PackingInv, UNCHANGED packingVars PROVE PackingInv'
  BY <1>1 DEF PackingInv, packingVars, packingInput, PackingTypes, Held, PlanHolds, PlanStays,
              SplitHolds, PacksHold, PacksAreTheBatches, Selected
<1> QED
  BY <1>1, TakeKeeps, EndPlanKeeps, SplitBatchKeeps, WritePacksKeeps DEF PackingNext

\* What was reviewed is what is written, whatever the sizes and the limits: each
\* batch of the plan, split anew in another order, becomes one pack, and the
\* batches are within the limits and as large as they may be (archive.py,
\* _ordered_batches and split_records).
THEOREM PackingSafe == PackingSpec => []PacksFollowThePlan
<1>1. PackingInv => PacksFollowThePlan
  <2> SUFFICES ASSUME PackingInv PROVE PacksAreTheBatches /\ BatchesAreTight
    BY DEF PacksFollowThePlan
  <2>1. PacksAreTheBatches
    BY DEF PackingInv, PacksHold
  <2>2. ASSUME batches # <<>>
        PROVE  /\ FlattenSeq(batches) = Selected
               /\ \A i \in DOMAIN batches : Len(batches[i]) > 1 => Fit(batches[i])
               /\ \A i \in 1..Len(batches) - 1 : ApartFrom(batches[i], Head(batches[i + 1]))
    <3>1. FlattenSeq(batches) = Selected /\ Tight(estimate, limits, batches)
      BY <2>2 DEF PackingInv, PlanHolds, PlanStays
    <3>2. \A s : TotalIn(estimate, s) = Total(s)
      BY DEF TotalIn, Total
    <3> QED
      BY <3>1, <3>2 DEF Tight, ReadyBatch, Divided, Fit, ApartFrom
  <2> QED
    BY <2>1, <2>2 DEF BatchesAreTight
<1> QED
  BY PackingStarts, PackingKeeps, <1>1, PTL DEF PackingSpec

=============================================================================
