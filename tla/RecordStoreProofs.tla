------------------------- MODULE RecordStoreProofs --------------------------
(***************************************************************************)
(* What holds of the Record stores for any number of Records, clients,     *)
(* contents and revisions: every Record is a line of revisions that only   *)
(* grows, its local bytes are kept, and calls that end leave it settled.   *)
(*                                                                         *)
(* The inductive invariant says what is on disk at every step of a call:   *)
(* per Record the numbers in its two tiers (Shape), per locked call what   *)
(* it has written so far (Writes, Moves), per content who may take its     *)
(* object back (Bytes).                                                    *)
(***************************************************************************)
EXTENDS RecordStore, FiniteSetTheorems, TLAPS

HotSet(r) == DOMAIN revs[r]
ColdSet(r) == DOMAIN Sealed(r)

Writing == {"object", "revision", "event", "return", "undo"}
Moving == {"seal", "publish", "whole", "remove"}

AreRevisions(f) == DOMAIN f \in SUBSET (1..MaxRevision) /\ f \in [DOMAIN f -> Payloads]

Types ==
    /\ kind \in [Records -> {"document", "artifact"}]
    /\ DOMAIN revs = Records /\ \A r \in Records : AreRevisions(revs[r])
    /\ events \in [Records -> SUBSET (1..MaxRevision)]
    /\ DOMAIN sealed = Records
    /\ \A r \in Records : sealed[r] = None \/ AreRevisions(sealed[r])
    /\ op \in [Clients -> Calls \cup {None}]

\* What its step says of a call alone.
Stepwise(o) ==
    /\ o.do = "archive" <=> o.at \in Moving
    /\ o.at \in Moving \cup {"object", "put"} => o.wrote = {}
    /\ o.at \in {"object", "put"} => o.new.local
    /\ o.at \in {"wait", "revision"} => o.wrote \subseteq {"object"}
    /\ o.at = "event" => "revision" \in o.wrote /\ "event" \notin o.wrote
    /\ o.at = "return" => "revision" \in o.wrote /\ "event" \in o.wrote
    /\ o.at = "undo" => o.wrote # {}
    /\ "object" \in o.wrote => o.new.local
    /\ kind[o.rec] = "document" /\ o.at \notin Moving => ~o.new.local

\* Two locked calls are not on Records that share a lock.
Exclusive ==
    \A c, d \in Clients : c # d /\ Locked(c) /\ Locked(d) => op[d].rec \notin SameLock(op[c].rec)

\* The numbers of a Record: 1..s in the cold tier, m..last in the hot one,
\* with no gap between them.
Shape(r, last) ==
    \E m \in Nat \ {0}, s \in Nat :
        /\ m <= s + 1 /\ s <= last
        /\ HotSet(r) \ Pending(r) = m..last
        /\ ColdSet(r) = 1..s
        /\ s = 0 <=> sealed[r] = None

Whole(r) ==
    /\ \E last \in Nat : Shape(r, last)
    /\ \A n \in HotSet(r) \cap ColdSet(r) : revs[r][n] = sealed[r][n]
    /\ Hot(r) => r \in made

OneTier(r, numbers) ==
    sealed[r] = None \/ numbers = {} \/ ~(numbers \subseteq ColdSet(r))

\* A call whose next steps write files of its Record.  A rollback that has
\* only an object to take back leaves them alone.
Active(c) == Locked(c) /\ ~(op[c].at = "undo" /\ op[c].wrote \subseteq {"object"})

Quiet(r) == \A c \in Clients : Active(c) => op[c].rec # r

Settled(r) ==
    r \notin killed /\ Quiet(r) => HotSet(r) = events[r] /\ OneTier(r, HotSet(r))

\* A call that holds the lock of Record r to write revision n.
Writes(c) == \A r \in Records, n \in Nat :
    Active(c) /\ op[c].at \in Writing /\ op[c].rec = r /\ op[c].rev = n =>
        /\ Shape(r, n - 1)
        /\ n \in HotSet(r) => "revision" \in op[c].wrote
        /\ op[c].at \in {"event", "return"} => n \in HotSet(r)
        /\ r \notin killed =>
              /\ HotSet(r) \ {n} = events[r] \ {n}
              /\ n \in events[r] => "event" \in op[c].wrote
              /\ op[c].at = "return" => n \in events[r]
              /\ OneTier(r, HotSet(r) \ {n})

\* A call that moves Record r to the cold tier.
Moves(c) == \A r \in Records :
    Active(c) /\ op[c].at \in Moving /\ op[c].rec = r =>
        /\ op[c].at \in {"seal", "publish"} => sealed[r] = None /\ Hot(r)
        /\ op[c].at = "whole" => sealed[r] = revs[r] /\ Hot(r)
        /\ op[c].at \in {"whole", "remove"} => sealed[r] # None /\ HotSet(r) \subseteq ColdSet(r)
        /\ op[c].at # "remove" /\ r \notin killed => HotSet(r) = events[r]

Structure ==
    /\ Types
    /\ \A c \in Clients : op[c] # None => Stepwise(op[c])
    /\ Exclusive
    /\ \A r \in Records : Whole(r) /\ Settled(r)
    /\ \A c \in Clients : Writes(c) /\ Moves(c)

\* The call has stored, or found, the object of its content.
Uses(c) ==
    /\ op[c] # None /\ op[c].do # "archive" /\ op[c].new.local
    /\ op[c].at \in {"wait", "revision", "event", "return"} \/ "object" \in op[c].wrote

Owns(c, x) == op[c] # None /\ "object" \in op[c].wrote /\ op[c].new.of = x

Kept == objects \cup contested

Bytes ==
    /\ \A c \in Clients : Uses(c) => op[c].new.of \in Kept
    /\ \A c, d \in Clients :
          c # d /\ Uses(c) /\ Owns(d, op[c].new.of) => op[c].new.of \in contested
    /\ \A r \in Records : \A n \in HotSet(r) : revs[r][n].local =>
          /\ revs[r][n].of \in Kept
          /\ \A c \in Clients : Owns(c, revs[r][n].of) =>
                \/ revs[r][n].of \in contested
                \/ op[c].rec = r /\ op[c].rev = n /\ "revision" \in op[c].wrote
    /\ \A r \in Records : \A n \in ColdSet(r) : sealed[r][n].local =>
          /\ sealed[r][n].of \in Kept
          /\ \A c \in Clients : Owns(c, sealed[r][n].of) => sealed[r][n].of \in contested

---------------------------------------------------------------------------
(* Intervals *)

LEMMA MaxOfInterval ==
    ASSUME NEW m \in Nat, NEW k \in Nat, m <= k
    PROVE  Max(m..k) = k
<1>1. k \in m..k /\ \A y \in m..k : k >= y
  OBVIOUS
<1>2. \A x \in m..k : (\A y \in m..k : x >= y) => x = k
  BY <1>1
<1> QED
  BY <1>1, <1>2 DEF Max

LEMMA MinOfInterval ==
    ASSUME NEW m \in Nat, NEW k \in Nat, m <= k
    PROVE  Min(m..k) = m
<1>1. m \in m..k /\ \A y \in m..k : m <= y
  OBVIOUS
<1>2. \A x \in m..k : (\A y \in m..k : x <= y) => x = m
  BY <1>1
<1> QED
  BY <1>1, <1>2 DEF Min

---------------------------------------------------------------------------
(* What a step does to the call that takes it *)

\* The call goes on.
Becomes(c, wrote, at) ==
    /\ op' \in [Clients -> Calls \cup {None}]
    /\ \A d \in Clients \ {c} : op'[d] = op[d]
    /\ op'[c] \in Calls /\ op'[c] # None
    /\ op'[c].do = op[c].do /\ op'[c].rec = op[c].rec /\ op'[c].rev = op[c].rev
    /\ op'[c].new = op[c].new /\ op'[c].basis = op[c].basis
    /\ op'[c].wrote = wrote /\ op'[c].at = at

\* The call is over.
Ends(c) ==
    /\ op' \in [Clients -> Calls \cup {None}]
    /\ \A d \in Clients \ {c} : op'[d] = op[d]
    /\ op'[c] = None

LEMMA CallFields ==
    ASSUME Types, NEW c \in Clients, op[c] # None
    PROVE  /\ op[c] \in Calls /\ op[c].rec \in Records /\ op[c].rev \in 1..MaxRevision
           /\ op[c].rev \in Nat \ {0} /\ op[c].new \in Payloads
           /\ op[c].wrote \in SUBSET Parts /\ op[c].at \in Steps
           /\ op[c].do \in {"create", "revise", "import", "archive"}
           /\ op[c].basis \in Payloads \cup {None}
           /\ kind[op[c].rec] \in {"document", "artifact"}
           /\ op[c].new.local \in BOOLEAN /\ op[c].new.of \in Contents
<1>1. op[c] \in Calls
  BY DEF Types
<1>2. /\ op[c].rec \in Records /\ op[c].rev \in 1..MaxRevision
      /\ op[c].new \in Payloads
      /\ op[c].wrote \in SUBSET Parts /\ op[c].at \in Steps
      /\ op[c].do \in {"create", "revise", "import", "archive"}
      /\ op[c].basis \in Payloads \cup {None}
  BY <1>1 DEF Calls
<1> QED
  BY <1>1, <1>2, MaxRevisionAssumption DEF Types, Payloads

LEMMA GotoBecomes ==
    ASSUME Types, NEW c \in Clients, op[c] # None, NEW s \in Steps, Goto(c, s)
    PROVE  Becomes(c, op[c].wrote, s)
<1>1. op[c] \in Calls
  BY CallFields
<1>2. op'[c] = [op[c] EXCEPT !.at = s]
  BY <1>1 DEF Goto, Types
<1>3. [op[c] EXCEPT !.at = s] \in Calls
  BY <1>1 DEF Calls
<1> QED
  BY <1>1, <1>2, <1>3, NoneAssumption DEF Goto, Types, Calls, Becomes

LEMMA WritesBecomes ==
    ASSUME Types, NEW c \in Clients, op[c] # None, NEW s \in Steps, NEW wrote \in SUBSET Parts,
           op' = [op EXCEPT ![c].wrote = wrote, ![c].at = s]
    PROVE  Becomes(c, wrote, s)
<1>1. op[c] \in Calls
  BY CallFields
<1>2. op'[c] = [op[c] EXCEPT !.wrote = wrote, !.at = s]
  BY <1>1 DEF Types
<1>3. [op[c] EXCEPT !.wrote = wrote, !.at = s] \in Calls
  BY <1>1 DEF Calls
<1> QED
  BY <1>1, <1>2, <1>3, NoneAssumption DEF Types, Calls, Becomes

LEMMA NoneEnds ==
    ASSUME Types, NEW c \in Clients, op' = [op EXCEPT ![c] = None]
    PROVE  Ends(c)
  BY DEF Types, Ends

LEMMA RollBackBecomes ==
    ASSUME Types, NEW c \in Clients, op[c] # None, NEW things \in SUBSET Parts,
           RollBack(c, things)
    PROVE  IF things = {} THEN Ends(c) ELSE Becomes(c, things, "undo")
<1>1. CASE things = {}
  BY <1>1 DEF RollBack, Types, Ends
<1>2. CASE things # {}
  <2>1. op' = [op EXCEPT ![c] = [@ EXCEPT !.wrote = things, !.at = "undo"]]
    BY <1>2 DEF RollBack
  <2>2. op[c] \in Calls
    BY CallFields
  <2>3. op'[c] = [op[c] EXCEPT !.wrote = things, !.at = "undo"]
    BY <2>1, <2>2 DEF Types
  <2>4. [op[c] EXCEPT !.wrote = things, !.at = "undo"] \in Calls
    BY <2>2 DEF Calls, Steps
  <2> QED
    BY <1>2, <2>1, <2>2, <2>3, <2>4, NoneAssumption DEF Types, Calls, Becomes
<1> QED
  BY <1>1, <1>2

\* A new call.
LEMMA NewCall ==
    ASSUME Types, NEW c \in Clients, NEW o \in Calls, op' = [op EXCEPT ![c] = o]
    PROVE  /\ op' \in [Clients -> Calls \cup {None}]
           /\ \A d \in Clients \ {c} : op'[d] = op[d]
           /\ op'[c] = o /\ o # None
  BY NoneAssumption DEF Types

LEMMA CallFits ==
    ASSUME NEW do \in {"create", "revise", "import", "archive"},
           NEW r \in Records, NEW n \in 1..MaxRevision, NEW basis \in Payloads \cup {None},
           NEW p \in Payloads, NEW at \in Steps
    PROVE  Call(do, r, n, basis, p, at) \in Calls
  BY DEF Call, Calls

---------------------------------------------------------------------------
(* Revisions in hand, and what others leave alone *)

LEMMA PendingIs ==
    ASSUME NEW r, NEW n
    PROVE  n \in Pending(r) <=>
              \E k \in Clients : /\ op[k] # None /\ op[k].rec = r
                                 /\ "revision" \in op[k].wrote /\ op[k].rev = n
  BY DEF Pending

\* Only a locked call holds a revision.
LEMMA UnlockedHoldsNone ==
    ASSUME Structure, NEW c \in Clients, op[c] # None, ~Locked(c)
    PROVE  "revision" \notin op[c].wrote /\ op[c].at \notin Moving
<1>1. op[c].at \in {"put", "wait"} /\ Stepwise(op[c])
  BY DEF Structure, Locked, Unlocked
<1> QED
  BY <1>1 DEF Stepwise, Moving

\* Of the calls on a Record that nobody else has locked, only one can hold
\* a revision.
LEMMA PendingOne ==
    ASSUME Structure, NEW c \in Clients, NEW r,
           \A d \in Clients \ {c} : Locked(d) => op[d].rec # r
    PROVE  Pending(r) = IF op[c] # None /\ op[c].rec = r /\ "revision" \in op[c].wrote
                        THEN {op[c].rev} ELSE {}
<1>1. \A d \in Clients \ {c} : op[d] # None /\ op[d].rec = r => "revision" \notin op[d].wrote
  BY UnlockedHoldsNone
<1>2. \A n : n \in Pending(r) <=>
             op[c] # None /\ op[c].rec = r /\ "revision" \in op[c].wrote /\ op[c].rev = n
  BY <1>1, PendingIs
<1> QED
  BY <1>2

LEMMA PendingNext ==
    ASSUME Structure, NEW c \in Clients, NEW r,
           \A d \in Clients \ {c} : op'[d] = op[d],
           \A d \in Clients \ {c} : Locked(d) => op[d].rec # r
    PROVE  Pending(r)' = IF op'[c] # None /\ op'[c].rec = r /\ "revision" \in op'[c].wrote
                         THEN {op'[c].rev} ELSE {}
<1>1. \A d \in Clients \ {c} : op[d] # None /\ op[d].rec = r => "revision" \notin op[d].wrote
  BY UnlockedHoldsNone
<1>2. \A n : n \in Pending(r)' <=>
             op'[c] # None /\ op'[c].rec = r /\ "revision" \in op'[c].wrote /\ op'[c].rev = n
  BY <1>1 DEF Pending
<1> QED
  BY <1>2

\* A call leaves the revisions in hand of other Records alone.
LEMMA PendingKept ==
    ASSUME NEW c \in Clients, NEW s, \A d \in Clients \ {c} : op'[d] = op[d],
           \/ op[c] = None \/ op[c].rec # s \/ "revision" \notin op[c].wrote,
           \/ op'[c] = None \/ op'[c].rec # s \/ "revision" \notin op'[c].wrote
    PROVE  Pending(s)' = Pending(s)
<1>1. \A n : n \in Pending(s)' <=> n \in Pending(s)
  BY DEF Pending
<1> QED
  BY <1>1

\* While one call holds the lock of a Record, or takes it, no other is there.
LEMMA LockExcludes ==
    ASSUME Structure, NEW c \in Clients, op[c] # None, Locked(c) \/ Free(op[c].rec)
    PROVE  \A d \in Clients \ {c} : Locked(d) => op[d].rec \notin SameLock(op[c].rec)
  BY DEF Structure, Exclusive, Free

\* The step of a call that has, or takes, the lock of Record r: what is true
\* of r and of the call is left to show.
LEMMA Frame ==
    ASSUME Structure, Types', NEW c \in Clients, NEW r \in Records, UNCHANGED kind,
           \A d \in Clients \ {c} : op'[d] = op[d],
           op[c] = None \/ op[c].rec = r,
           op'[c] = None \/ (op'[c].rec = r /\ Stepwise(op'[c])),
           \A d \in Clients \ {c} : Locked(d) => op[d].rec \notin SameLock(r),
           \A s \in Records \ {r} : /\ revs'[s] = revs[s] /\ events'[s] = events[s]
                                    /\ sealed'[s] = sealed[s]
                                    /\ s \in made => s \in made'
                                    /\ s \in killed' <=> s \in killed,
           Whole(r)', Settled(r)', Writes(c)', Moves(c)'
    PROVE  Structure'
<1>0. r \in SameLock(r)
  BY DEF SameLock
<1>1. \A d \in Clients : op'[d] # None => Stepwise(op[d])'
  BY DEF Structure, Stepwise
<1>2. Exclusive'
  <2> SUFFICES ASSUME NEW a \in Clients, NEW b \in Clients, a # b, Locked(a)', Locked(b)'
               PROVE  (op[b].rec \notin SameLock(op[a].rec))'
    BY DEF Exclusive
  <2>1. CASE a # c /\ b # c
    BY <2>1 DEF Structure, Exclusive, Locked, SameLock
  <2>2. CASE a = c
    <3>1. op'[a].rec = r /\ Locked(b) /\ op'[b] = op[b]
      BY <2>2 DEF Locked
    <3> QED
      BY <2>2, <3>1 DEF SameLock
  <2>3. CASE b = c
    <3>1. op'[b].rec = r /\ Locked(a) /\ op'[a] = op[a] /\ op[a].rec \in Records
      BY <2>3, CallFields DEF Locked, Structure
    <3> QED
      BY <2>3, <3>1 DEF SameLock
  <2> QED
    BY <2>1, <2>2, <2>3
<1>3. ASSUME NEW s \in Records \ {r} PROVE Pending(s)' = Pending(s)
  BY PendingKept
<1>4. ASSUME NEW s \in Records \ {r} PROVE Whole(s)'
  BY <1>3 DEF Structure, Whole, Shape, HotSet, ColdSet, Sealed, Hot
<1>5. ASSUME NEW s \in Records \ {r} PROVE Settled(s)'
  BY <1>3 DEF Structure, Settled, HotSet, ColdSet, Sealed, OneTier, Quiet, Active, Locked
<1>6. ASSUME NEW d \in Clients \ {c} PROVE Writes(d)' /\ Moves(d)'
  <2>1. CASE ~Active(d)
    BY <2>1 DEF Writes, Moves, Active, Locked
  <2>2. CASE Active(d)
    <3>1. op[d].rec \in Records \ {r} /\ Locked(d)
      BY <1>0, <2>2, CallFields DEF Structure, Active, Locked
    <3>3. Writes(d)'
      <4> SUFFICES ASSUME NEW s \in Records \ {r}, NEW n \in Nat, op[d].rec = s, op[d].rev = n
                   PROVE  /\ Shape(s, n - 1)' <=> Shape(s, n - 1)
                          /\ OneTier(s, HotSet(s) \ {n})' <=> OneTier(s, HotSet(s) \ {n})
        BY <2>2, <3>1 DEF Structure, Writes, Active, Locked, HotSet
      <4> QED
        BY <1>3 DEF Shape, OneTier, HotSet, ColdSet, Sealed
    <3>4. Moves(d)'
      BY <2>2, <3>1 DEF Structure, Moves, Active, Locked, HotSet, ColdSet, Sealed, Hot
    <3> QED
      BY <3>3, <3>4
  <2> QED
    BY <2>1, <2>2
<1> QED
  BY <1>1, <1>2, <1>4, <1>5, <1>6 DEF Structure

\* The step of a call that holds no lock before or after it.
LEMMA UnlockedStep ==
    ASSUME Structure, Types', NEW c \in Clients, UNCHANGED <<kind, revs, events, made, sealed, killed>>,
           \A d \in Clients \ {c} : op'[d] = op[d],
           ~Locked(c), op'[c] = None \/ (op'[c].at \in Unlocked /\ Stepwise(op'[c]))
    PROVE  Structure'
<1>1. \A d \in Clients : op'[d] # None => Stepwise(op[d])'
  BY DEF Structure, Stepwise
<1>2. \A d \in Clients : /\ Locked(d)' <=> Locked(d)
                         /\ Locked(d) => op'[d] = op[d]
  BY DEF Locked
<1>3. Exclusive'
  BY <1>2 DEF Structure, Exclusive, SameLock
<1>4. ASSUME NEW s PROVE Pending(s)' = Pending(s)
  <2>1. op[c] = None \/ "revision" \notin op[c].wrote
    BY UnlockedHoldsNone
  <2>2. op'[c] = None \/ "revision" \notin op'[c].wrote
    BY DEF Stepwise, Unlocked
  <2> QED
    BY <2>1, <2>2, PendingKept
<1>5. ASSUME NEW s \in Records PROVE Whole(s)'
  BY <1>4 DEF Structure, Whole, Shape, HotSet, ColdSet, Sealed, Hot
<1>6. ASSUME NEW s \in Records PROVE Settled(s)'
  BY <1>2 DEF Structure, Settled, HotSet, ColdSet, Sealed, OneTier, Quiet, Active
<1>7. ASSUME NEW d \in Clients PROVE Writes(d)' /\ Moves(d)'
  <2>1. CASE ~Active(d)
    BY <1>2, <2>1 DEF Writes, Moves, Active
  <2>2. CASE Active(d)
    <3>1. op'[d] = op[d]
      BY <1>2, <2>2 DEF Active
    <3>2. Writes(d)'
      <4> SUFFICES ASSUME NEW s \in Records, NEW n \in Nat
                   PROVE  /\ Shape(s, n - 1)' <=> Shape(s, n - 1)
                          /\ OneTier(s, HotSet(s) \ {n})' <=> OneTier(s, HotSet(s) \ {n})
        BY <2>2, <3>1 DEF Structure, Writes, Active, Locked, HotSet
      <4> QED
        BY <1>4 DEF Shape, OneTier, HotSet, ColdSet, Sealed
    <3>3. Moves(d)'
      BY <2>2, <3>1 DEF Structure, Moves, Active, Locked, HotSet, ColdSet, Sealed, Hot
    <3> QED
      BY <3>2, <3>3
  <2> QED
    BY <2>1, <2>2
<1> QED
  BY <1>1, <1>3, <1>5, <1>6, <1>7 DEF Structure

---------------------------------------------------------------------------
(* Types *)

\* The empty function, and functions made of others.
LEMMA EmptyRevisions == DOMAIN <<>> = {} /\ AreRevisions(<<>>)
  BY DEF AreRevisions

LEMMA PayloadTop ==
    ASSUME Types, NEW r \in Records, Readable(r), Last(r) \in DOMAIN Revisions(r)
    PROVE  /\ Top(r) \in Payloads /\ Current(r) \in Payloads
           /\ Last(r) \in 1..MaxRevision
<1>1. AreRevisions(Revisions(r))
  BY DEF Types, Readable, Revisions
<1>2. Top(r) \in Payloads /\ Last(r) \in 1..MaxRevision
  BY <1>1 DEF AreRevisions, Top
<1>3. Current(r) \in Payloads
  BY <1>2 DEF Current, Payloads
<1> QED
  BY <1>2, <1>3

\* Only a writing call can hold a revision, and it knows where the line ends.
LEMMA HolderWrites ==
    ASSUME Structure, NEW c \in Clients, op[c] # None, "revision" \in op[c].wrote
    PROVE  /\ Locked(c) /\ Active(c) /\ op[c].at \in Writing
           /\ op[c].rec \in Records /\ op[c].rev \in Nat \ {0}
           /\ Shape(op[c].rec, op[c].rev - 1)
           /\ Pending(op[c].rec) = {op[c].rev}
<1>1. Locked(c)
  BY UnlockedHoldsNone
<1>2. Stepwise(op[c]) /\ op[c].at \in Steps /\ op[c].rec \in Records /\ op[c].rev \in Nat \ {0}
  BY CallFields DEF Structure
<1>3. Active(c) /\ op[c].at \in Writing
  BY <1>1, <1>2 DEF Active, Stepwise, Steps, Writing, Moving, Locked, Unlocked
<1>4. Shape(op[c].rec, op[c].rev - 1)
  BY <1>2, <1>3 DEF Structure, Writes
<1>5. \A d \in Clients \ {c} : Locked(d) => op[d].rec # op[c].rec
  BY <1>1, LockExcludes DEF SameLock
<1>6. Pending(op[c].rec) = {op[c].rev}
  BY <1>5, PendingOne
<1> QED
  BY <1>1, <1>2, <1>3, <1>4, <1>6

\* With a revision in hand or without, the hot numbers have no gap.
LEMMA HotIsInterval ==
    ASSUME Structure, NEW r \in Records
    PROVE  \E m \in Nat \ {0}, k \in Nat : HotSet(r) = m..k
<1>1. CASE HotSet(r) \cap Pending(r) = {}
  <2>1. PICK last \in Nat : Shape(r, last)
    BY DEF Structure, Whole
  <2> QED
    BY <1>1, <2>1 DEF Shape
<1>2. CASE HotSet(r) \cap Pending(r) # {}
  <2>1. PICK c \in Clients : /\ op[c] # None /\ op[c].rec = r
                             /\ "revision" \in op[c].wrote /\ op[c].rev \in HotSet(r)
    BY <1>2 DEF Pending
  <2>2. PICK n \in Nat \ {0} : n = op[c].rev
    BY <2>1, HolderWrites
  <2>3. Shape(r, n - 1) /\ Pending(r) = {n} /\ n \in HotSet(r)
    BY <2>1, <2>2, HolderWrites
  <2>4. PICK m \in Nat \ {0} : m <= n /\ HotSet(r) \ {n} = m..(n - 1)
    BY <2>3 DEF Shape
  <2>5. HotSet(r) = m..n
    <3>1. \A x : x \in HotSet(r) <=> x = n \/ x \in m..(n - 1)
      BY <2>3, <2>4
    <3>2. \A x : x \in m..n <=> x = n \/ x \in m..(n - 1)
      BY <2>4
    <3> QED
      BY <3>1, <3>2
  <2> QED
    BY <2>5
<1> QED
  BY <1>1, <1>2

\* The last revision a reader finds is one of the files he reads; when no
\* revision is in hand it is the end of the line.
LEMMA LastIs ==
    ASSUME Structure, NEW r \in Records, Readable(r)
    PROVE  /\ Last(r) \in DOMAIN Revisions(r)
           /\ \A last \in Nat : Shape(r, last) /\ Pending(r) = {} =>
                 last \in Nat \ {0} /\ Last(r) = last
<1>1. CASE Hot(r)
  <2>1. PICK m \in Nat \ {0}, k \in Nat : HotSet(r) = m..k
    BY HotIsInterval
  <2>2. m <= k /\ DOMAIN Revisions(r) = m..k
    BY <1>1, <2>1 DEF Hot, HotSet, Revisions
  <2>3. Last(r) = k
    BY <2>2, MaxOfInterval DEF Last
  <2>4. ASSUME NEW last \in Nat, Shape(r, last), Pending(r) = {} PROVE last = k
    <3>1. PICK i \in Nat \ {0} : HotSet(r) = i..last
      BY <2>4 DEF Shape
    <3>2. last \in m..k /\ k \in i..last
      BY <2>1, <2>2, <3>1
    <3> QED
      BY <3>2
  <2> QED
    BY <2>2, <2>3, <2>4
<1>2. CASE ~Hot(r)
  <2>1. sealed[r] # None /\ Sealed(r) = sealed[r] /\ Revisions(r) = sealed[r]
    BY <1>2 DEF Readable, Sealed, Revisions
  <2>2. PICK l \in Nat : Shape(r, l)
    BY DEF Structure, Whole
  <2>3. PICK s \in Nat : ColdSet(r) = 1..s /\ s # 0
    BY <2>1, <2>2 DEF Shape
  <2>4. Last(r) = s /\ s \in 1..s
    BY <2>1, <2>3, MaxOfInterval DEF Last, ColdSet
  <2>5. ASSUME NEW last \in Nat, Shape(r, last) PROVE last = s
    <3>1. PICK m \in Nat \ {0}, i \in Nat :
              /\ m <= i + 1 /\ i <= last /\ HotSet(r) \ Pending(r) = m..last /\ 1..i = 1..s
      BY <2>3, <2>5 DEF Shape
    <3>2. m..last = {}
      BY <1>2, <3>1 DEF Hot, HotSet
    <3>3. i = s
      <4>1. s \in 1..i
        BY <2>4, <3>1
      <4>2. i \in 1..s
        BY <3>1, <4>1
      <4> QED
        BY <4>1, <4>2
    <3>4. last < m
      BY <3>2
    <3> QED
      BY <3>1, <3>3, <3>4
  <2> QED
    BY <2>1, <2>3, <2>4, <2>5 DEF ColdSet
<1> QED
  BY <1>1, <1>2

\* What a rollback may take back is a set of parts.
LEMMA OwnedParts ==
    ASSUME Types, NEW c \in Clients, op[c] # None
    PROVE  Owned(c) \in SUBSET Parts
  BY CallFields DEF Owned, Parts

\* The part that a step of a rollback takes back: the last one written is the
\* first to go, but a Document's revision goes before its event.
LEMMA UndoPart ==
    ASSUME Structure, NEW c \in Clients, Undo(c)
    PROVE  \E x \in op[c].wrote :
              /\ revs' = IF x # "revision" THEN revs
                         ELSE [revs EXCEPT ![op[c].rec] =
                                  [m \in DOMAIN @ \ {op[c].rev} |-> @[m]]]
              /\ events' = IF x = "event"
                           THEN [events EXCEPT ![op[c].rec] = @ \ {op[c].rev}] ELSE events
              /\ objects' = IF x = "object" THEN objects \ {op[c].new.of} ELSE objects
              /\ RollBack(c, op[c].wrote \ {x})
              /\ x = "object" => op[c].wrote = {"object"}
<1> DEFINE order == UndoOrder(op[c].rec)
           left == {i \in DOMAIN order : order[i] \in op[c].wrote}
<1>1. /\ op[c] # None /\ op[c].at = "undo" /\ Stepwise(op[c])
      /\ op[c].wrote \in SUBSET Parts /\ kind[op[c].rec] \in {"document", "artifact"}
  BY CallFields DEF Undo, At, Structure
<1>2. op[c].wrote # {} /\ ("object" \in op[c].wrote => kind[op[c].rec] = "artifact")
  BY <1>1 DEF Stepwise, Moving
<1>3. Min(left) \in left /\ (order[Min(left)] = "object" => op[c].wrote = {"object"})
  <2>1. CASE kind[op[c].rec] = "document"
    <3>1. order = <<"revision", "event">> /\ DOMAIN order = {1, 2}
      BY <2>1 DEF UndoOrder
    <3>2. order[1] = "revision" /\ order[2] = "event"
      BY <3>1
    <3>3. left # {} /\ left \subseteq {1, 2}
      BY <1>1, <1>2, <2>1, <3>1, <3>2 DEF Parts
    <3>5. Min(left) \in left
      <4> HIDE DEF left
      <4>1. \E i \in left : \A j \in left : i <= j
        <5>1. CASE 1 \in left
          BY <3>3, <5>1
        <5>2. CASE 1 \notin left
          <6>1. left = {2}
            BY <3>3, <5>2
          <6> QED
            BY <6>1
        <5> QED
          BY <5>1, <5>2
      <4> QED
        BY <4>1 DEF Min
    <3> QED
      BY <3>2, <3>3, <3>5
  <2>2. CASE kind[op[c].rec] = "artifact"
    <3>1. order = <<"event", "revision", "object">> /\ DOMAIN order = {1, 2, 3}
      BY <2>2 DEF UndoOrder
    <3>2. order[1] = "event" /\ order[2] = "revision" /\ order[3] = "object"
      BY <3>1
    <3>3. /\ 1 \in left <=> "event" \in op[c].wrote
          /\ 2 \in left <=> "revision" \in op[c].wrote
          /\ 3 \in left <=> "object" \in op[c].wrote
      BY <3>1, <3>2
    <3>4. left # {} /\ left \subseteq {1, 2, 3}
      BY <1>1, <1>2, <3>1, <3>3 DEF Parts
    <3> HIDE DEF left, order
    <3>5. \E i \in left : \A j \in left : i <= j
      <4>1. CASE 1 \in left
        BY <3>4, <4>1
      <4>2. CASE 1 \notin left /\ 2 \in left
        <5>1. left \subseteq {2, 3}
          BY <3>4, <4>2
        <5> QED
          BY <4>2, <5>1
      <4>3. CASE 1 \notin left /\ 2 \notin left
        <5>1. left = {3}
          BY <3>4, <4>3
        <5> QED
          BY <5>1
      <4> QED
        BY <4>1, <4>2, <4>3
    <3>6. Min(left) \in left /\ \A j \in left : Min(left) <= j
      BY <3>5 DEF Min
    <3>7. Min(left) = 3 => "event" \notin op[c].wrote /\ "revision" \notin op[c].wrote
      BY <3>3, <3>4, <3>6
    <3>8. order[Min(left)] = "object" => Min(left) = 3
      BY <3>2, <3>4, <3>6
    <3> QED
      BY <1>1, <1>2, <3>6, <3>7, <3>8 DEF Parts
  <2> QED
    BY <1>1, <2>1, <2>2
<1>4. order[Min(left)] \in op[c].wrote
  BY <1>3
<1> HIDE DEF left, order
<1> QED
  BY <1>3, <1>4 DEF Undo, left, order

LEMMA PutBecomes ==
    ASSUME Types, NEW c \in Clients, Put(c)
    PROVE  Becomes(c, IF op[c].new.of \in objects THEN op[c].wrote ELSE op[c].wrote \cup {"object"},
                      IF op[c].at = "object" THEN "revision" ELSE "wait")
<1> DEFINE w == IF op[c].new.of \in objects THEN op[c].wrote ELSE op[c].wrote \cup {"object"}
           a == IF op[c].at = "object" THEN "revision" ELSE "wait"
<1>1. op[c] # None /\ op' = [op EXCEPT ![c].wrote = w, ![c].at = a]
  BY DEF Put, Types
<1>2. w \in SUBSET Parts
  BY <1>1, CallFields DEF Parts
<1>3. a \in Steps
  BY DEF Steps
<1> HIDE DEF w, a
<1>4. Becomes(c, w, a)
  BY <1>1, <1>2, <1>3, WritesBecomes
<1> QED
  BY <1>4 DEF w, a

\* Every step keeps the types.
LEMMA StepTypes ==
    ASSUME Structure, [Next]_vars
    PROVE  Types'
<1> USE DEF files, packs, history
<1>0. Types
  BY DEF Structure
\* The calls: each step makes one, moves it on, or ends it.
<1>1. op' \in [Clients -> Calls \cup {None}]
  <2>1. ASSUME NEW c \in Clients, Create(c) PROVE op' \in [Clients -> Calls \cup {None}]
    <3>1. PICK r \in Records, p \in Payloads, at \in Steps :
            op' = [op EXCEPT ![c] = Call("create", r, 1, None, p, at)]
      <4>1. PICK r \in Records : \E p \in PayloadsOf(r, FALSE) :
              op' = [op EXCEPT ![c] =
                       Call("create", r, 1, None, p, IF p.local THEN "object" ELSE "revision")]
        BY <2>1 DEF Create
      <4> QED
        BY <4>1 DEF PayloadsOf, Steps
    <3>2. 1 \in 1..MaxRevision
      BY MaxRevisionAssumption
    <3>3. Call("create", r, 1, None, p, at) \in Calls
      BY <3>2, CallFits
    <3> QED
      BY <1>0, <3>1, <3>3, NewCall
  <2>2. ASSUME NEW c \in Clients, Read(c) PROVE op' \in [Clients -> Calls \cup {None}]
    <3>1. PICK r \in Records, do \in {"revise", "import"}, p \in Payloads, at \in Steps :
            /\ Readable(r) /\ Last(r) < MaxRevision
            /\ op' = [op EXCEPT ![c] = Call(do, r, Last(r) + 1, Current(r), p, at)]
      <4>1. PICK r \in Records, do \in {"revise", "import"} :
              /\ Readable(r) /\ Last(r) < MaxRevision
              /\ \E p \in PayloadsOf(r, Current(r).cold) : op' = [op EXCEPT ![c] =
                       Call(do, r, Last(r) + 1, Current(r), p, IF p.local THEN "put" ELSE "wait")]
        BY <2>2 DEF Read
      <4> QED
        BY <4>1 DEF PayloadsOf, Steps
    <3>2. Current(r) \in Payloads /\ Last(r) \in 1..MaxRevision /\ Last(r) + 1 \in 1..MaxRevision
      BY <1>0, <3>1, LastIs, PayloadTop, MaxRevisionAssumption
    <3>3. Call(do, r, Last(r) + 1, Current(r), p, at) \in Calls
      BY <3>2, CallFits
    <3> QED
      BY <1>0, <3>1, <3>3, NewCall
  <2>3. ASSUME NEW c \in Clients, StartArchive(c) PROVE op' \in [Clients -> Calls \cup {None}]
    <3>1. PICK r \in Records :
            Hot(r) /\ op' = [op EXCEPT ![c] = Call("archive", r, Last(r), Top(r), Top(r), "seal")]
      BY <2>3 DEF StartArchive
    <3>2. Top(r) \in Payloads /\ Last(r) \in 1..MaxRevision
      BY <1>0, <3>1, LastIs, PayloadTop DEF Readable
    <3>3. Call("archive", r, Last(r), Top(r), Top(r), "seal") \in Calls
      BY <3>2, CallFits DEF Steps
    <3> QED
      BY <1>0, <3>1, <3>3, NewCall
  <2>4. ASSUME NEW c \in Clients, op[c] # None, NEW things \in SUBSET Parts, RollBack(c, things)
        PROVE  op' \in [Clients -> Calls \cup {None}]
    BY <1>0, <2>4, RollBackBecomes DEF Becomes, Ends
  <2>5. ASSUME NEW c \in Clients, op[c] # None, NEW s \in Steps, NEW wrote \in SUBSET Parts,
               op' = [op EXCEPT ![c].wrote = wrote, ![c].at = s]
        PROVE  op' \in [Clients -> Calls \cup {None}]
    BY <1>0, <2>5, WritesBecomes DEF Becomes
  <2>6. ASSUME NEW c \in Clients, op[c] # None, NEW s \in Steps, Goto(c, s)
        PROVE  op' \in [Clients -> Calls \cup {None}]
    BY <1>0, <2>6, GotoBecomes DEF Becomes
  <2>7. ASSUME NEW c \in Clients, op' = [op EXCEPT ![c] = None]
        PROVE  op' \in [Clients -> Calls \cup {None}]
    BY <1>0, <2>7 DEF Types
  <2>8. \A c \in Clients : op[c] # None => Owned(c) \in SUBSET Parts /\ op[c].wrote \in SUBSET Parts
    BY <1>0, OwnedParts, CallFields
  <2>9. ASSUME NEW c \in Clients, Put(c) PROVE op' \in [Clients -> Calls \cup {None}]
    BY <1>0, <2>9, PutBecomes DEF Becomes
  <2>10. ASSUME NEW c \in Clients, WriteRevision(c) PROVE op' \in [Clients -> Calls \cup {None}]
    <3>1. CASE RollBack(c, Owned(c))
      BY <2>4, <2>8, <2>10, <3>1 DEF WriteRevision, At
    <3>2. CASE op' = [op EXCEPT ![c].wrote = @ \cup {"revision"}, ![c].at = "event"]
      <4>1. op' = [op EXCEPT ![c].wrote = op[c].wrote \cup {"revision"}, ![c].at = "event"]
        BY <1>0, <3>2 DEF Types
      <4>2. /\ op[c] # None /\ "event" \in Steps
            /\ op[c].wrote \cup {"revision"} \in SUBSET Parts
        BY <2>8, <2>10 DEF WriteRevision, At, Steps, Parts
      <4> QED
        BY <2>5, <4>1, <4>2
    <3> QED
      BY <2>10, <3>1, <3>2 DEF WriteRevision
  <2>11. ASSUME NEW c \in Clients, WriteEvent(c) PROVE op' \in [Clients -> Calls \cup {None}]
    <3>1. CASE RollBack(c, Owned(c))
      BY <2>4, <2>8, <2>11, <3>1 DEF WriteEvent, At
    <3>2. CASE op' = [op EXCEPT ![c].wrote = @ \cup {"event"}, ![c].at = "return"]
      <4>1. op' = [op EXCEPT ![c].wrote = op[c].wrote \cup {"event"}, ![c].at = "return"]
        BY <1>0, <3>2 DEF Types
      <4>2. /\ op[c] # None /\ "return" \in Steps
            /\ op[c].wrote \cup {"event"} \in SUBSET Parts
        BY <2>8, <2>11 DEF WriteEvent, At, Steps, Parts
      <4> QED
        BY <2>5, <4>1, <4>2
    <3> QED
      BY <2>11, <3>1, <3>2 DEF WriteEvent
  <2>12. ASSUME NEW c \in Clients, Lock(c) PROVE op' \in [Clients -> Calls \cup {None}]
    BY <2>4, <2>6, <2>8, <2>12 DEF Lock, At, Steps
  <2>13. ASSUME NEW c \in Clients, Return(c) \/ Kill(c) \/ FailArchive(c)
         PROVE  op' \in [Clients -> Calls \cup {None}]
    BY <2>7, <2>13 DEF Return, Kill, FailArchive
  <2>14. ASSUME NEW c \in Clients, Fail(c) PROVE op' \in [Clients -> Calls \cup {None}]
    BY <2>4, <2>8, <2>14 DEF Fail
  <2>15. ASSUME NEW c \in Clients, Undo(c) PROVE op' \in [Clients -> Calls \cup {None}]
    <3>1. PICK x : RollBack(c, op[c].wrote \ {x})
      BY <2>15, UndoPart
    <3> QED
      BY <2>4, <2>8, <2>15, <3>1 DEF Undo, At
  <2>16. ASSUME NEW c \in Clients, PublishSome(c) \/ PublishRest(c)
         PROVE  op' \in [Clients -> Calls \cup {None}]
    BY <2>6, <2>16 DEF PublishSome, PublishRest, At, Steps
  <2>17. ASSUME NEW c \in Clients, RemoveHot(c) PROVE op' \in [Clients -> Calls \cup {None}]
    BY <2>6, <2>7, <2>17 DEF RemoveHot, Steps
  <2>18. CASE UNCHANGED vars
    BY <1>0, <2>18 DEF vars, Types
  <2> QED
    BY <2>1, <2>2, <2>3, <2>9, <2>10, <2>11, <2>12, <2>13, <2>14, <2>15, <2>16, <2>17, <2>18
    DEF Next
\* The files: one revision or event more, or fewer.
<1>2. DOMAIN revs' = Records /\ \A r \in Records : AreRevisions(revs'[r])
  <2>1. ASSUME NEW r \in Records, NEW f, revs' = [revs EXCEPT ![r] = f], AreRevisions(f)
        PROVE  DOMAIN revs' = Records /\ \A s \in Records : AreRevisions(revs'[s])
    BY <1>0, <2>1 DEF Types
  <2>2. ASSUME NEW r \in Records, NEW S
        PROVE  AreRevisions([m \in DOMAIN revs[r] \ S |-> revs[r][m]])
    BY <1>0 DEF Types, AreRevisions
  <2>3. ASSUME NEW c \in Clients, WriteRevision(c)
        PROVE  DOMAIN revs' = Records /\ \A s \in Records : AreRevisions(revs'[s])
    <3>1. CASE UNCHANGED revs
      BY <1>0, <3>1 DEF Types
    <3>2. CASE revs' # revs
      <4> DEFINE r == op[c].rec
                 n == op[c].rev
                 f == [m \in DOMAIN revs[r] \cup {n} |-> IF m = n THEN op[c].new ELSE revs[r][m]]
      <4>1. r \in Records /\ n \in 1..MaxRevision /\ op[c].new \in Payloads
        BY <1>0, <2>3, CallFields DEF WriteRevision, At
      <4>2. revs' = [revs EXCEPT ![r] = f]
        BY <1>0, <2>3, <3>2, <4>1 DEF WriteRevision, Types
      <4>3. AreRevisions(f)
        BY <1>0, <4>1 DEF Types, AreRevisions
      <4> QED
        BY <2>1, <4>1, <4>2, <4>3
    <3> QED
      BY <3>1, <3>2
  <2>4. ASSUME NEW c \in Clients, Undo(c)
        PROVE  DOMAIN revs' = Records /\ \A s \in Records : AreRevisions(revs'[s])
    <3>1. op[c].rec \in Records
      BY <1>0, <2>4, CallFields DEF Undo, At
    <3>2. \/ revs' = revs
          \/ revs' = [revs EXCEPT ![op[c].rec] =
                        [m \in DOMAIN revs[op[c].rec] \ {op[c].rev} |-> revs[op[c].rec][m]]]
      BY <1>0, <2>4, <3>1, UndoPart DEF Types
    <3> QED
      BY <1>0, <2>1, <2>2, <3>1, <3>2 DEF Types
  <2>5. ASSUME NEW c \in Clients, RemoveHot(c)
        PROVE  DOMAIN revs' = Records /\ \A s \in Records : AreRevisions(revs'[s])
    <3>1. op[c].rec \in Records
      BY <1>0, <2>5, CallFields DEF RemoveHot
    <3>2. \/ revs' = revs
          \/ revs' = [revs EXCEPT ![op[c].rec] =
                        [m \in DOMAIN revs[op[c].rec] \ {Min(DOMAIN revs[op[c].rec])} |->
                            revs[op[c].rec][m]]]
      BY <1>0, <2>5, <3>1 DEF RemoveHot, Types
    <3> QED
      BY <1>0, <2>1, <2>2, <3>1, <3>2 DEF Types
  <2>6. CASE UNCHANGED revs
    BY <1>0, <2>6 DEF Types
  <2> QED
    BY <2>3, <2>4, <2>5, <2>6
    DEF Next, Create, Read, Put, Lock, WriteEvent, Return, Fail, Kill, StartArchive,
        PublishSome, PublishRest, FailArchive, vars
<1>3. events' \in [Records -> SUBSET (1..MaxRevision)]
  <2>1. ASSUME NEW c \in Clients, WriteEvent(c) PROVE events' \in [Records -> SUBSET (1..MaxRevision)]
    BY <1>0, <2>1, CallFields DEF WriteEvent, At, Types
  <2>2. ASSUME NEW c \in Clients, Undo(c) PROVE events' \in [Records -> SUBSET (1..MaxRevision)]
    BY <1>0, <2>2, UndoPart, CallFields DEF Undo, At, Types
  <2>3. ASSUME NEW c \in Clients, RemoveHot(c) PROVE events' \in [Records -> SUBSET (1..MaxRevision)]
    BY <1>0, <2>3, CallFields DEF RemoveHot, Types
  <2>4. CASE UNCHANGED events
    BY <1>0, <2>4 DEF Types
  <2> QED
    BY <2>1, <2>2, <2>3, <2>4
    DEF Next, Create, Read, Put, Lock, WriteRevision, Return, Fail, Kill, StartArchive,
        PublishSome, PublishRest, FailArchive, vars
<1>4. DOMAIN sealed' = Records /\ \A r \in Records : sealed'[r] = None \/ AreRevisions(sealed'[r])
  <2>1. ASSUME NEW c \in Clients, PublishRest(c) \/ FailArchive(c)
        PROVE  DOMAIN sealed' = Records
               /\ \A r \in Records : sealed'[r] = None \/ AreRevisions(sealed'[r])
    BY <1>0, <2>1, CallFields DEF PublishRest, FailArchive, At, Types
  <2>2. CASE UNCHANGED sealed
    BY <1>0, <2>2 DEF Types
  <2> QED
    BY <2>1, <2>2
    DEF Next, Create, Read, Put, Lock, WriteRevision, WriteEvent, Return, Fail, Undo, Kill,
        StartArchive, PublishSome, RemoveHot, vars
<1>5. UNCHANGED kind
  BY DEF Next, Create, Read, Put, Lock, WriteRevision, WriteEvent, Return, Fail, Undo, Kill,
         StartArchive, PublishSome, PublishRest, RemoveHot, FailArchive, vars
<1> QED
  BY <1>0, <1>1, <1>2, <1>3, <1>4, <1>5 DEF Types

---------------------------------------------------------------------------
(* The structure: one lemma per action *)

LEMMA InitStructure ==
    ASSUME Init
    PROVE  Structure
<1>1. /\ kind \in [Records -> {"document", "artifact"}]
      /\ revs = [r \in Records |-> <<>>] /\ events = [r \in Records |-> {}]
      /\ sealed = [r \in Records |-> None] /\ op = [c \in Clients |-> None]
  BY DEF Init
<1>2. Types
  BY <1>1, EmptyRevisions DEF Types
<1>3. \A c \in Clients : op[c] = None
  BY <1>1
<1>4. ASSUME NEW r \in Records PROVE Whole(r) /\ Settled(r)
  <2>1. HotSet(r) = {} /\ sealed[r] = None /\ ColdSet(r) = {} /\ events[r] = {}
    BY <1>1, EmptyRevisions DEF HotSet, ColdSet, Sealed
  <2>2. 1..0 = {}
    OBVIOUS
  <2>3. Shape(r, 0)
    BY <2>1, <2>2 DEF Shape
  <2> QED
    BY <2>1, <2>3 DEF Whole, Settled, OneTier, Hot, HotSet
<1> QED
  BY <1>2, <1>3, <1>4 DEF Structure, Exclusive, Locked, Writes, Moves, Active

\* Who is on a Record when one call has, or takes, its lock.
LEMMA Others ==
    ASSUME Structure, NEW c \in Clients, NEW r \in Records,
           \A d \in Clients \ {c} : op'[d] = op[d],
           \A d \in Clients \ {c} : Locked(d) => op[d].rec \notin SameLock(r)
    PROVE  /\ Pending(r) = IF op[c] # None /\ op[c].rec = r /\ "revision" \in op[c].wrote
                           THEN {op[c].rev} ELSE {}
           /\ Pending(r)' = IF op'[c] # None /\ op'[c].rec = r /\ "revision" \in op'[c].wrote
                            THEN {op'[c].rev} ELSE {}
           /\ Quiet(r) <=> (Active(c) => op[c].rec # r)
           /\ Quiet(r)' <=> (Active(c)' => op'[c].rec # r)
<1>1. \A d \in Clients \ {c} : Locked(d) => op[d].rec # r
  BY DEF SameLock
<1>2. Quiet(r) <=> (Active(c) => op[c].rec # r)
  BY <1>1 DEF Quiet, Active
<1>3. Quiet(r)' <=> (Active(c)' => op'[c].rec # r)
  BY <1>1 DEF Quiet, Active, Locked
<1> QED
  BY <1>1, <1>2, <1>3, PendingOne, PendingNext

\* A Record whose numbers and call stay is as whole as it was.
LEMMA WholeKept ==
    ASSUME NEW r \in Records, Whole(r), revs'[r] = revs[r], sealed'[r] = sealed[r],
           made' = made, Pending(r)' = Pending(r)
    PROVE  Whole(r)'
  BY DEF Whole, Shape, HotSet, ColdSet, Sealed, Hot

LEMMA CreateStructure ==
    ASSUME Structure, Types', NEW c \in Clients, Create(c)
    PROVE  Structure'
<1> USE DEF files, packs, history
<1>1. PICK r \in Records : \E p \in PayloadsOf(r, FALSE) :
          /\ Free(r) /\ r \notin made /\ sealed[r] = None
          /\ op' = [op EXCEPT ![c] =
                       Call("create", r, 1, None, p, IF p.local THEN "object" ELSE "revision")]
  BY DEF Create
<1>2. PICK p \in PayloadsOf(r, FALSE) :
          op' = [op EXCEPT ![c] =
                       Call("create", r, 1, None, p, IF p.local THEN "object" ELSE "revision")]
  BY <1>1
<1>3. /\ op[c] = None /\ p \in Payloads /\ (p.local => kind[r] = "artifact")
      /\ UNCHANGED <<kind, revs, events, made, sealed, killed>>
  BY DEF Create, PayloadsOf
<1>4. /\ \A d \in Clients \ {c} : op'[d] = op[d]
      /\ op'[c] # None /\ op'[c].do = "create" /\ op'[c].rec = r /\ op'[c].rev = 1
      /\ op'[c].new = p /\ op'[c].wrote = {}
      /\ op'[c].at = IF p.local THEN "object" ELSE "revision"
  <2>1. 1 \in 1..MaxRevision
    BY MaxRevisionAssumption
  <2>2. PICK at \in Steps : at = IF p.local THEN "object" ELSE "revision"
    BY DEF Steps
  <2>3. op' = [op EXCEPT ![c] = Call("create", r, 1, None, p, at)]
    BY <1>2, <2>2
  <2>4. Types /\ None \in Payloads \cup {None} /\ "create" \in {"create", "revise", "import", "archive"}
    BY DEF Structure
  <2>5. Call("create", r, 1, None, p, at) \in Calls
    BY <1>3, <2>1, <2>4, CallFits
  <2>6. /\ \A d \in Clients \ {c} : op'[d] = op[d]
        /\ op'[c] = Call("create", r, 1, None, p, at) /\ op'[c] # None
    BY <2>3, <2>4, <2>5, NewCall
  <2> QED
    BY <2>2, <2>6 DEF Call
<1>5. Stepwise(op'[c])
  BY <1>3, <1>4 DEF Stepwise, Moving
<1>6. \A d \in Clients \ {c} : Locked(d) => op[d].rec \notin SameLock(r)
  BY <1>1 DEF Free
<1>7. Pending(r) = {} /\ Pending(r)' = {} /\ Quiet(r)
  BY <1>3, <1>4, <1>6, Others DEF Active, Locked
<1>8. Active(c)' /\ op'[c].at \in Writing /\ op'[c].at \notin Moving
  BY <1>4 DEF Active, Locked, Unlocked, Writing, Moving
<1>9. Shape(r, 0) /\ HotSet(r) = {}
  <2>1. HotSet(r) = {}
    BY <1>1 DEF Structure, Whole, Hot, HotSet
  <2>2. PICK last \in Nat : Shape(r, last)
    BY DEF Structure, Whole
  <2>3. PICK m \in Nat \ {0} : m <= 1 /\ m..last = {}
    BY <1>1, <2>1, <2>2 DEF Shape
  <2>4. last = 0
    BY <2>3
  <2> QED
    BY <2>1, <2>2, <2>4
<1>10. Whole(r)' /\ Shape(r, 0)'
  BY <1>3, <1>7, <1>9, WholeKept DEF Structure, Shape, HotSet, ColdSet, Sealed
<1>11. Settled(r)'
  BY <1>4, <1>8 DEF Settled, Quiet
<1>12. Writes(c)' /\ Moves(c)'
  <2>1. r \notin killed => events[r] = {}
    BY <1>7, <1>9 DEF Structure, Settled
  <2> SUFFICES ASSUME NEW s \in Records, NEW n \in Nat, op'[c].rec = s, op'[c].rev = n
               PROVE  /\ Shape(s, n - 1)'
                      /\ n \notin HotSet(s)' /\ op'[c].at \notin {"event", "return"}
                      /\ s \notin killed' =>
                            /\ HotSet(s)' = {} /\ events'[s] = {} /\ OneTier(s, {})'
    BY <1>8 DEF Writes, Moves, HotSet, OneTier
  <2>2. s = r /\ n = 1
    BY <1>4
  <2> QED
    BY <1>3, <1>4, <1>9, <1>10, <2>1, <2>2 DEF HotSet, OneTier
<1> QED
  BY <1>3, <1>4, <1>5, <1>6, <1>10, <1>11, <1>12, Frame

LEMMA ReadStructure ==
    ASSUME Structure, Types', NEW c \in Clients, Read(c)
    PROVE  Structure'
<1> USE DEF files, packs, history
<1>1. PICK r \in Records, do \in {"revise", "import"} :
          /\ Readable(r) /\ Last(r) < MaxRevision
          /\ \E p \in PayloadsOf(r, Current(r).cold) : op' = [op EXCEPT ![c] =
                Call(do, r, Last(r) + 1, Current(r), p, IF p.local THEN "put" ELSE "wait")]
  BY DEF Read
<1>2. PICK p \in PayloadsOf(r, Current(r).cold) : op' = [op EXCEPT ![c] =
                Call(do, r, Last(r) + 1, Current(r), p, IF p.local THEN "put" ELSE "wait")]
  BY <1>1
<1>3. Current(r) \in Payloads /\ Last(r) + 1 \in 1..MaxRevision
  BY <1>1, LastIs, PayloadTop, MaxRevisionAssumption DEF Structure
<1>4. /\ op[c] = None /\ p \in Payloads /\ (p.local => kind[r] = "artifact")
      /\ UNCHANGED <<kind, revs, events, made, sealed, killed>>
  BY DEF Read, PayloadsOf
<1>5. /\ \A d \in Clients \ {c} : op'[d] = op[d]
      /\ op'[c] # None /\ op'[c].do = do /\ op'[c].rec = r
      /\ op'[c].new = p /\ op'[c].wrote = {}
      /\ op'[c].at = IF p.local THEN "put" ELSE "wait"
  <2>1. PICK at \in Steps : at = IF p.local THEN "put" ELSE "wait"
    BY DEF Steps
  <2>2. op' = [op EXCEPT ![c] = Call(do, r, Last(r) + 1, Current(r), p, at)]
    BY <1>2, <2>1
  <2>3. /\ Types /\ Current(r) \in Payloads \cup {None}
        /\ do \in {"create", "revise", "import", "archive"}
    BY <1>3 DEF Structure
  <2>4. Call(do, r, Last(r) + 1, Current(r), p, at) \in Calls
    BY <1>3, <1>4, <2>3, CallFits
  <2>5. /\ \A d \in Clients \ {c} : op'[d] = op[d]
        /\ op'[c] = Call(do, r, Last(r) + 1, Current(r), p, at) /\ op'[c] # None
    BY <2>2, <2>3, <2>4, NewCall
  <2> QED
    BY <2>1, <2>5 DEF Call
<1>6. Stepwise(op'[c]) /\ op'[c].at \in Unlocked
  BY <1>4, <1>5 DEF Stepwise, Moving, Unlocked
<1> QED
  BY <1>4, <1>5, <1>6, UnlockedStep DEF Locked

\* What a call that writes, or rolls back, knows of its Record.
LEMMA WriterKnows ==
    ASSUME Structure, NEW c \in Clients, Active(c), op[c].at \in Writing,
           NEW r \in Records, NEW n \in Nat, r = op[c].rec, n = op[c].rev
    PROVE  /\ \A d \in Clients \ {c} : Locked(d) => op[d].rec \notin SameLock(r)
           /\ Stepwise(op[c]) /\ n # 0
           /\ Pending(r) = IF "revision" \in op[c].wrote THEN {n} ELSE {}
           /\ HotSet(r) \ Pending(r) = HotSet(r) \ {n}
           /\ Shape(r, n - 1) /\ Whole(r)
           /\ n \in HotSet(r) => "revision" \in op[c].wrote
           /\ op[c].at \in {"event", "return"} => n \in HotSet(r)
           /\ r \notin killed =>
                 /\ HotSet(r) \ {n} = events[r] \ {n}
                 /\ n \in events[r] => "event" \in op[c].wrote
                 /\ op[c].at = "return" => n \in events[r]
                 /\ OneTier(r, HotSet(r) \ {n})
<1>1. op[c] # None /\ Locked(c) /\ op[c].rev \in Nat \ {0}
  BY CallFields DEF Active, Locked, Structure
<1>2. \A d \in Clients \ {c} : Locked(d) => op[d].rec \notin SameLock(r)
  BY <1>1, LockExcludes
<1>3. Pending(r) = IF "revision" \in op[c].wrote THEN {n} ELSE {}
  BY <1>1, <1>2, PendingOne DEF SameLock
<1>4. Writes(c) /\ Stepwise(op[c]) /\ Whole(r)
  BY <1>1 DEF Structure
<1> QED
  BY <1>1, <1>2, <1>3, <1>4 DEF Writes

\* The numbers of a Record as they are after a step.
LEMMA ShapeIs ==
    ASSUME NEW r \in Records, NEW last \in Nat, NEW m \in Nat \ {0}, NEW s \in Nat,
           m <= s + 1, s <= last, HotSet(r)' \ Pending(r)' = m..last, ColdSet(r)' = 1..s,
           s = 0 <=> sealed'[r] = None
    PROVE  Shape(r, last)'
  BY DEF Shape


LEMMA LockStructure ==
    ASSUME Structure, Types', NEW c \in Clients, Lock(c)
    PROVE  Structure'
<1> USE DEF files, packs, history
<1>1. /\ op[c] # None /\ op[c].at = "wait" /\ Free(op[c].rec)
      /\ UNCHANGED <<kind, revs, events, made, sealed, killed>>
  BY DEF Lock, At
<1>2. PICK r \in Records, n \in Nat \ {0} : r = op[c].rec /\ n = op[c].rev
  BY <1>1, CallFields DEF Structure
<1>3. Stepwise(op[c]) /\ op[c].wrote \subseteq {"object"} /\ op[c].do # "archive"
  BY <1>1 DEF Structure, Stepwise, Moving
<1>4. \A d \in Clients \ {c} : Locked(d) => op[d].rec \notin SameLock(r)
  BY <1>1, <1>2 DEF Free
<1>5. ~Active(c)
  BY <1>1 DEF Active, Locked, Unlocked
<1>6. CASE Fits(c)
  <2>1. Becomes(c, op[c].wrote, "revision")
    BY <1>1, <1>6, GotoBecomes DEF Structure, Lock, Steps
  <2>2. /\ \A d \in Clients \ {c} : op'[d] = op[d]
        /\ op'[c] # None /\ op'[c].rec = r /\ op'[c].rev = n /\ op'[c].at = "revision"
        /\ op'[c].wrote = op[c].wrote
    BY <1>2, <2>1 DEF Becomes
  <2>3. Stepwise(op'[c])
    BY <1>1, <1>2, <1>3, <2>1 DEF Becomes, Stepwise, Moving
  <2>4. Pending(r) = {} /\ Pending(r)' = {} /\ Quiet(r)
    BY <1>3, <1>4, <1>5, <2>2, Others
  <2>5. Active(c)' /\ op'[c].at \in Writing /\ op'[c].at \notin Moving
    BY <2>2 DEF Active, Locked, Unlocked, Writing, Moving
  <2>6. Shape(r, n - 1)
    <3>1. PICK last \in Nat : Shape(r, last)
      BY DEF Structure, Whole
    <3>2. Readable(r) /\ Last(r) + 1 = n
      BY <1>2, <1>6 DEF Fits
    <3>3. Last(r) = last
      BY <2>4, <3>1, <3>2, LastIs
    <3>4. last = n - 1
      BY <3>2, <3>3
    <3> QED
      BY <3>1, <3>4
  <2>7. n \notin HotSet(r)
    BY <2>4, <2>6 DEF Shape
  <2>8. Whole(r)' /\ Shape(r, n - 1)'
    BY <1>1, <2>4, <2>6, WholeKept DEF Structure, Shape, HotSet, ColdSet, Sealed
  <2>9. Settled(r)'
    BY <2>2, <2>5 DEF Settled, Quiet
  <2>10. Writes(c)' /\ Moves(c)'
    <3>1. r \notin killed => HotSet(r) = events[r] /\ OneTier(r, HotSet(r))
      BY <2>4 DEF Structure, Settled
    <3>2. HotSet(r) \ {n} = HotSet(r)
      BY <2>7
    <3> SUFFICES ASSUME NEW s \in Records, NEW i \in Nat, op'[c].rec = s, op'[c].rev = i
                 PROVE  /\ Shape(s, i - 1)'
                        /\ i \notin HotSet(s)' /\ op'[c].at \notin {"event", "return"}
                        /\ s \notin killed' =>
                              /\ HotSet(s)' \ {i} = events'[s] \ {i}
                              /\ i \notin events'[s] /\ OneTier(s, HotSet(s) \ {i})'
      BY <2>5 DEF Writes, Moves, HotSet
    <3>3. s = r /\ i = n
      BY <2>2
    <3> QED
      BY <1>1, <2>2, <2>7, <2>8, <3>1, <3>2, <3>3 DEF HotSet, ColdSet, Sealed, OneTier
  <2> QED
    BY <1>1, <1>2, <1>4, <2>2, <2>3, <2>8, <2>9, <2>10, Frame
\* Refused: at most an object is left to take back.
<1>7. CASE ~Fits(c)
  <2>1. IF op[c].wrote = {} THEN Ends(c) ELSE Becomes(c, op[c].wrote, "undo")
    BY <1>1, <1>7, RollBackBecomes, CallFields DEF Structure, Lock
  <2>2. /\ \A d \in Clients \ {c} : op'[d] = op[d]
        /\ op'[c] = None \/ (/\ op'[c].rec = r /\ op'[c].at = "undo"
                             /\ op'[c].wrote \subseteq {"object"})
    BY <1>2, <1>3, <2>1 DEF Becomes, Ends
  <2>3. op'[c] = None \/ Stepwise(op'[c])
    BY <1>1, <1>2, <1>3, <2>1 DEF Becomes, Ends, Stepwise, Moving
  <2>4. ~Active(c)'
    BY <2>2 DEF Active, Locked
  <2>5. Pending(r) = {} /\ Pending(r)' = {} /\ Quiet(r) /\ Quiet(r)'
    BY <1>3, <1>4, <1>5, <2>2, <2>4, Others
  <2>6. Whole(r)' /\ Settled(r)'
    BY <1>1, <2>5, WholeKept DEF Structure, Settled, HotSet, ColdSet, Sealed, OneTier
  <2>7. Writes(c)' /\ Moves(c)'
    BY <2>4 DEF Writes, Moves
  <2> QED
    BY <1>1, <1>2, <1>4, <2>2, <2>3, <2>6, <2>7, Frame
<1> QED
  BY <1>6, <1>7

LEMMA PutStructure ==
    ASSUME Structure, Types', NEW c \in Clients, Put(c)
    PROVE  Structure'
<1> USE DEF files, packs, history
<1>1. /\ op[c] # None /\ op[c].at \in {"object", "put"}
      /\ UNCHANGED <<kind, revs, events, made, sealed, killed>>
  BY DEF Put
<1>2. PICK r \in Records, n \in Nat : r = op[c].rec /\ n = op[c].rev
  BY <1>1, CallFields DEF Structure
<1>3. Stepwise(op[c]) /\ op[c].wrote = {} /\ op[c].new.local /\ op[c].do # "archive"
  BY <1>1 DEF Structure, Stepwise, Moving
<1>4. /\ \A d \in Clients \ {c} : op'[d] = op[d]
      /\ op'[c] # None /\ op'[c].do = op[c].do /\ op'[c].rec = r /\ op'[c].rev = n
      /\ op'[c].new = op[c].new /\ op'[c].wrote \subseteq {"object"}
      /\ op'[c].at = IF op[c].at = "object" THEN "revision" ELSE "wait"
  BY <1>2, <1>3, PutBecomes DEF Structure, Becomes
<1>5. Stepwise(op'[c])
  BY <1>1, <1>2, <1>3, <1>4 DEF Stepwise, Moving
<1>6. CASE op[c].at = "put"
  BY <1>1, <1>4, <1>5, <1>6, UnlockedStep DEF Locked, Unlocked
<1>7. CASE op[c].at = "object"
  <2>1. Active(c) /\ op[c].at \in Writing
    BY <1>1, <1>7 DEF Active, Locked, Unlocked, Writing
  <2>2. /\ \A d \in Clients \ {c} : Locked(d) => op[d].rec \notin SameLock(r)
        /\ Pending(r) = {} /\ Shape(r, n - 1) /\ Whole(r) /\ n \notin HotSet(r)
        /\ r \notin killed => /\ HotSet(r) \ {n} = events[r] \ {n}
                              /\ n \notin events[r]
                              /\ OneTier(r, HotSet(r) \ {n})
    BY <1>2, <1>3, <2>1, WriterKnows
  <2>3. Pending(r)' = {}
    BY <1>4, <2>2, Others
  <2>4. Active(c)' /\ op'[c].at \in Writing /\ op'[c].at \notin Moving
    BY <1>4, <1>7 DEF Active, Locked, Unlocked, Writing, Moving
  <2>5. Whole(r)' /\ Shape(r, n - 1)'
    BY <1>1, <2>2, <2>3, WholeKept DEF Shape, HotSet, ColdSet, Sealed
  <2>6. Settled(r)'
    BY <1>4, <2>4 DEF Settled, Quiet
  <2>7. Writes(c)' /\ Moves(c)'
    <3> SUFFICES ASSUME NEW s \in Records, NEW i \in Nat, op'[c].rec = s, op'[c].rev = i
                 PROVE  /\ Shape(s, i - 1)'
                        /\ i \notin HotSet(s)' /\ op'[c].at \notin {"event", "return"}
                        /\ s \notin killed' =>
                              /\ HotSet(s)' \ {i} = events'[s] \ {i}
                              /\ i \notin events'[s] /\ OneTier(s, HotSet(s) \ {i})'
      BY <2>4 DEF Writes, Moves, HotSet
    <3>1. s = r /\ i = n
      BY <1>4
    <3> QED
      BY <1>1, <1>4, <1>7, <2>2, <2>5, <3>1 DEF HotSet, ColdSet, Sealed, OneTier
  <2> QED
    BY <1>1, <1>2, <1>4, <1>5, <2>2, <2>5, <2>6, <2>7, Frame
<1> QED
  BY <1>1, <1>6, <1>7

\* The revision's path is free: a call that is to write it holds the lock, and
\* found the end of the line under it.
LEMMA RevisionWritten ==
    ASSUME Structure, NEW c \in Clients, WriteRevision(c),
           NEW r \in Records, NEW n \in Nat \ {0}, r = op[c].rec, n = op[c].rev
    PROVE  /\ op[c] # None /\ Active(c) /\ op[c].at \in Writing
           /\ op[c].wrote \subseteq {"object"} /\ op[c].do # "archive"
           /\ n \notin HotSet(r) /\ (r \notin killed => n \notin events[r])
           /\ Becomes(c, op[c].wrote \cup {"revision"}, "event")
           /\ UNCHANGED <<kind, events, objects, sealed, torn, acked, killed, contested>>
           /\ made' = made \cup {r}
           /\ HotSet(r)' = HotSet(r) \cup {n} /\ revs'[r][n] = op[c].new
           /\ \A m \in HotSet(r) : revs'[r][m] = revs[r][m]
           /\ \A s \in Records \ {r} : revs'[s] = revs[s]
<1> USE DEF files, packs, history
<1>1. /\ op[c] # None /\ op[c].at = "revision"
      /\ UNCHANGED <<kind, events, objects, sealed, torn, acked, killed, contested>>
  BY DEF WriteRevision, At
<1>2. Active(c) /\ op[c].at \in Writing
  BY <1>1 DEF Active, Locked, Unlocked, Writing
<1>3. /\ Stepwise(op[c])
      /\ n \in HotSet(r) => "revision" \in op[c].wrote
      /\ r \notin killed => (n \in events[r] => "event" \in op[c].wrote)
  BY <1>2, WriterKnows
<1>4. op[c].wrote \subseteq {"object"} /\ op[c].do # "archive"
  BY <1>1, <1>3 DEF Stepwise, Moving
<1>5. n \notin HotSet(r) /\ (r \notin killed => n \notin events[r])
  BY <1>3, <1>4
<1> DEFINE f == [m \in HotSet(r) \cup {n} |-> IF m = n THEN op[c].new ELSE revs[r][m]]
<1>6. /\ made' = made \cup {r} /\ revs' = [revs EXCEPT ![r] = f]
      /\ op' = [op EXCEPT ![c].wrote = op[c].wrote \cup {"revision"}, ![c].at = "event"]
  BY <1>5 DEF WriteRevision, HotSet, Structure, Types
<1>7. Becomes(c, op[c].wrote \cup {"revision"}, "event")
  <2>1. op[c].wrote \cup {"revision"} \in SUBSET Parts /\ "event" \in Steps
    BY <1>4 DEF Parts, Steps
  <2> QED
    BY <1>1, <1>6, <2>1, WritesBecomes DEF Structure
<1>8. revs'[r] = f /\ \A s \in Records \ {r} : revs'[s] = revs[s]
  BY <1>6 DEF Structure, Types
<1>9. HotSet(r)' = HotSet(r) \cup {n}
  BY <1>8 DEF HotSet
<1>10. revs'[r][n] = op[c].new /\ \A m \in HotSet(r) : revs'[r][m] = revs[r][m]
  BY <1>5, <1>8
<1> QED
  BY <1>1, <1>2, <1>4, <1>5, <1>6, <1>7, <1>8, <1>9, <1>10

LEMMA WriteRevisionStructure ==
    ASSUME Structure, Types', NEW c \in Clients, WriteRevision(c)
    PROVE  Structure'
<1>1. PICK r \in Records, n \in Nat \ {0} : r = op[c].rec /\ n = op[c].rev
  BY CallFields DEF Structure, WriteRevision, At
<1>2. /\ op[c] # None /\ Active(c) /\ op[c].at \in Writing
      /\ op[c].wrote \subseteq {"object"} /\ op[c].do # "archive"
      /\ n \notin HotSet(r) /\ (r \notin killed => n \notin events[r])
      /\ Becomes(c, op[c].wrote \cup {"revision"}, "event")
      /\ UNCHANGED <<kind, events, sealed, killed>>
      /\ made' = made \cup {r} /\ HotSet(r)' = HotSet(r) \cup {n}
      /\ \A m \in HotSet(r) : revs'[r][m] = revs[r][m]
      /\ \A s \in Records \ {r} : revs'[s] = revs[s]
  BY <1>1, RevisionWritten
<1>3. /\ \A d \in Clients \ {c} : Locked(d) => op[d].rec \notin SameLock(r)
      /\ Stepwise(op[c]) /\ Shape(r, n - 1) /\ Whole(r)
      /\ Pending(r) = {}
      /\ r \notin killed => /\ HotSet(r) \ {n} = events[r] \ {n}
                            /\ OneTier(r, HotSet(r) \ {n})
  BY <1>1, <1>2, WriterKnows
<1>4. /\ \A d \in Clients \ {c} : op'[d] = op[d]
      /\ op'[c] # None /\ op'[c].rec = r /\ op'[c].rev = n /\ op'[c].at = "event"
      /\ "revision" \in op'[c].wrote
  BY <1>1, <1>2 DEF Becomes
<1>5. Stepwise(op'[c])
  BY <1>1, <1>2, <1>3 DEF Becomes, Stepwise, Moving
<1>6. Pending(r)' = {n} /\ HotSet(r)' \ {n} = HotSet(r) \ {n}
  BY <1>2, <1>3, <1>4, Others
<1>7. Shape(r, n - 1)'
  BY <1>2, <1>3, <1>6 DEF Shape, ColdSet, Sealed
<1>8. Whole(r)'
  <2>1. n \notin ColdSet(r)
    BY <1>3 DEF Shape
  <2>2. \A i \in HotSet(r)' \cap ColdSet(r)' : revs'[r][i] = sealed'[r][i]
    <3> SUFFICES ASSUME NEW i \in HotSet(r), i \in ColdSet(r) PROVE revs'[r][i] = sealed[r][i]
      BY <1>2, <2>1 DEF ColdSet, Sealed
    <3> QED
      BY <1>2, <1>3 DEF Whole
  <2>3. n - 1 \in Nat /\ r \in made'
    BY <1>2
  <2> QED
    BY <1>7, <2>2, <2>3 DEF Whole
<1>9. Active(c)' /\ op'[c].at \in Writing /\ op'[c].at \notin Moving
  BY <1>4 DEF Active, Locked, Unlocked, Writing, Moving
<1>10. Settled(r)'
  BY <1>4, <1>9 DEF Settled, Quiet
<1>11. Writes(c)' /\ Moves(c)'
  <2>1. OneTier(r, HotSet(r) \ {n})' <=> OneTier(r, HotSet(r) \ {n})
    BY <1>2, <1>6 DEF OneTier, ColdSet, Sealed
  <2> SUFFICES ASSUME NEW s \in Records, NEW i \in Nat, op'[c].rec = s, op'[c].rev = i
               PROVE  /\ Shape(s, i - 1)' /\ "revision" \in op'[c].wrote
                      /\ i \in HotSet(s)' /\ op'[c].at # "return"
                      /\ s \notin killed' =>
                            /\ HotSet(s)' \ {i} = events'[s] \ {i}
                            /\ i \notin events'[s] /\ OneTier(s, HotSet(s) \ {i})'
    BY <1>9 DEF Writes, Moves, HotSet
  <2>2. s = r /\ i = n
    BY <1>4
  <2> QED
    BY <1>2, <1>3, <1>4, <1>6, <1>7, <2>1, <2>2
<1> QED
  BY <1>1, <1>2, <1>3, <1>4, <1>5, <1>8, <1>10, <1>11, Frame

\* A step of a rollback, or the one that starts it: at most the files of the
\* call's own number differ afterwards, and those still there are still to go.
LEMMA RollsBack ==
    ASSUME Structure, Types', NEW c \in Clients, op[c] # None,
           NEW things \in SUBSET Parts, RollBack(c, things),
           NEW r \in Records, NEW n \in Nat \ {0}, r = op[c].rec, n = op[c].rev,
           UNCHANGED <<kind, made, sealed, killed>>,
           \A s \in Records \ {r} : revs'[s] = revs[s] /\ events'[s] = events[s],
           Active(c), op[c].at \in Writing,
           "object" \in things => "object" \in op[c].wrote,
           HotSet(r)' \ {n} = HotSet(r) \ {n},
           \A m \in HotSet(r)' : revs'[r][m] = revs[r][m],
           n \in HotSet(r)' => n \in HotSet(r) /\ "revision" \in things,
           r \notin killed => /\ events'[r] \ {n} = events[r] \ {n}
                              /\ n \in events'[r] => "event" \in things
    PROVE  Structure'
<1>1. /\ \A d \in Clients \ {c} : Locked(d) => op[d].rec \notin SameLock(r)
      /\ Stepwise(op[c]) /\ Shape(r, n - 1) /\ Whole(r)
      /\ HotSet(r) \ Pending(r) = HotSet(r) \ {n}
      /\ r \notin killed => /\ HotSet(r) \ {n} = events[r] \ {n}
                            /\ OneTier(r, HotSet(r) \ {n})
  BY WriterKnows
<1>2. IF things = {} THEN Ends(c) ELSE Becomes(c, things, "undo")
  BY RollBackBecomes DEF Structure
<1>3. /\ \A d \in Clients \ {c} : op'[d] = op[d]
      /\ op'[c] = None <=> things = {}
      /\ things # {} => /\ op'[c].rec = r /\ op'[c].rev = n /\ op'[c].at = "undo"
                        /\ op'[c].wrote = things /\ op'[c].do = op[c].do
                        /\ op'[c].new = op[c].new
  BY <1>2 DEF Becomes, Ends
<1>4. op'[c] = None \/ Stepwise(op'[c])
  BY <1>1, <1>3 DEF Stepwise, Moving, Writing
<1>5. Pending(r)' = IF "revision" \in things THEN {n} ELSE {}
  BY <1>1, <1>3, Others
<1>6. HotSet(r)' \ Pending(r)' = HotSet(r) \ {n}
  BY <1>5
<1>7. Shape(r, n - 1)'
  BY <1>1, <1>6 DEF Shape, ColdSet, Sealed
<1>8. Whole(r)'
  <2>1. n - 1 \in Nat /\ HotSet(r)' \subseteq HotSet(r)
    OBVIOUS
  <2>2. \A i \in HotSet(r)' \cap ColdSet(r)' : revs'[r][i] = sealed'[r][i]
    BY <1>1, <2>1 DEF Whole, ColdSet, Sealed
  <2>3. Hot(r)' => r \in made'
    BY <1>1, <2>1 DEF Whole, Hot, HotSet
  <2> QED
    BY <1>7, <2>1, <2>2, <2>3 DEF Whole
<1>9. Active(c)' <=> ~(things \subseteq {"object"})
  BY <1>3 DEF Active, Locked, Unlocked
<1>10. OneTier(r, HotSet(r) \ {n})' <=> OneTier(r, HotSet(r) \ {n})
  BY DEF OneTier, ColdSet, Sealed
\* A rollback with at most an object left has nothing of this number on disk.
<1>11. Settled(r)'
  <2> SUFFICES ASSUME r \notin killed, ~Active(c)'
               PROVE  HotSet(r)' = events'[r] /\ OneTier(r, HotSet(r))'
    <3>1. op'[c] # None => op'[c].rec = r
      BY <1>3
    <3>2. Active(c)' => op'[c] # None
      BY DEF Active, Locked
    <3>3. Quiet(r)' => ~Active(c)'
      BY <3>1, <3>2 DEF Quiet
    <3> QED
      BY <3>3 DEF Settled
  <2>1. n \notin HotSet(r)' /\ n \notin events'[r]
    BY <1>9
  <2>2. HotSet(r)' = HotSet(r)' \ {n}
    BY <2>1
  <2>3. HotSet(r)' = events'[r]
    <3>1. HotSet(r)' \ {n} = events'[r] \ {n}
      BY <1>1
    <3>2. events'[r] = events'[r] \ {n}
      BY <2>1
    <3> QED
      BY <2>2, <3>1, <3>2
  <2> QED
    BY <1>1, <1>10, <2>2, <2>3 DEF OneTier
<1>12. Writes(c)' /\ Moves(c)'
  <2>1. CASE ~Active(c)'
    BY <2>1 DEF Writes, Moves
  <2>2. CASE Active(c)'
    <3>1. op'[c] # None
      BY <2>2 DEF Active, Locked
    <3> SUFFICES ASSUME NEW s \in Records, NEW i \in Nat, op'[c].rec = s, op'[c].rev = i
                 PROVE  /\ Shape(s, i - 1)'
                        /\ i \in HotSet(s)' => "revision" \in op'[c].wrote
                        /\ s \notin killed' =>
                              /\ HotSet(s)' \ {i} = events'[s] \ {i}
                              /\ i \in events'[s] => "event" \in op'[c].wrote
                              /\ OneTier(s, HotSet(s) \ {i})'
      BY <1>3, <3>1 DEF Writes, Moves, Moving, HotSet
    <3>2. s = r /\ i = n
      BY <1>3, <3>1
    <3> QED
      BY <1>1, <1>3, <1>7, <1>10, <3>1, <3>2
  <2> QED
    BY <2>1, <2>2
<1> QED
  BY <1>1, <1>3, <1>4, <1>8, <1>11, <1>12, Frame

\* A call that fails takes back what it owns.
LEMMA OwnedRollsBack ==
    ASSUME Structure, Types', NEW c \in Clients, op[c] # None, RollBack(c, Owned(c)),
           op[c].at \in {"object", "revision", "event", "return"},
           UNCHANGED <<kind, revs, events, made, sealed, killed>>
    PROVE  Structure'
<1>1. PICK r \in Records, n \in Nat \ {0} : r = op[c].rec /\ n = op[c].rev
  BY CallFields DEF Structure
<1>2. Active(c) /\ op[c].at \in Writing
  BY DEF Active, Locked, Unlocked, Writing
<1>3. /\ n \in HotSet(r) => "revision" \in op[c].wrote
      /\ r \notin killed => (n \in events[r] => "event" \in op[c].wrote)
  BY <1>1, <1>2, WriterKnows
<1>4. /\ Owned(c) \in SUBSET Parts
      /\ "object" \in Owned(c) => "object" \in op[c].wrote
      /\ "revision" \in op[c].wrote => "revision" \in Owned(c)
      /\ "event" \in op[c].wrote => "event" \in Owned(c)
  BY OwnedParts DEF Owned, Structure
<1>5. HotSet(r)' = HotSet(r)
  BY DEF HotSet
<1> HIDE DEF Owned
<1> QED
  BY <1>1, <1>2, <1>3, <1>4, <1>5, RollsBack

LEMMA WriteEventStructure ==
    ASSUME Structure, Types', NEW c \in Clients, WriteEvent(c)
    PROVE  Structure'
<1> USE DEF files, packs, history
<1>1. /\ op[c] # None /\ op[c].at = "event"
      /\ UNCHANGED <<kind, revs, made, sealed, killed>>
  BY DEF WriteEvent, At
<1>2. PICK r \in Records, n \in Nat \ {0} : r = op[c].rec /\ n = op[c].rev
  BY <1>1, CallFields DEF Structure
<1>3. CASE n \in events[r]
  BY <1>1, <1>2, <1>3, OwnedRollsBack DEF WriteEvent
<1>4. CASE n \notin events[r]
  <2>1. /\ events' = [events EXCEPT ![r] = @ \cup {n}]
        /\ op' = [op EXCEPT ![c].wrote = op[c].wrote \cup {"event"}, ![c].at = "return"]
    BY <1>2, <1>4 DEF WriteEvent, Structure, Types
  <2>2. Active(c) /\ op[c].at \in Writing
    BY <1>1 DEF Active, Locked, Unlocked, Writing
  <2>3. /\ \A d \in Clients \ {c} : Locked(d) => op[d].rec \notin SameLock(r)
        /\ Stepwise(op[c]) /\ Shape(r, n - 1) /\ Whole(r)
        /\ Pending(r) = IF "revision" \in op[c].wrote THEN {n} ELSE {}
        /\ n \in HotSet(r)
        /\ r \notin killed => /\ HotSet(r) \ {n} = events[r] \ {n}
                              /\ OneTier(r, HotSet(r) \ {n})
    BY <1>1, <1>2, <2>2, WriterKnows
  <2>4. "revision" \in op[c].wrote /\ op[c].do # "archive" /\ op[c].wrote \in SUBSET Parts
    BY <1>1, <2>3, CallFields DEF Stepwise, Moving, Structure
  <2>5. Becomes(c, op[c].wrote \cup {"event"}, "return")
    <3>1. op[c].wrote \cup {"event"} \in SUBSET Parts /\ "return" \in Steps
      BY <2>4 DEF Parts, Steps
    <3> QED
      BY <1>1, <2>1, <3>1, WritesBecomes DEF Structure
  <2>6. /\ \A d \in Clients \ {c} : op'[d] = op[d]
        /\ op'[c] # None /\ op'[c].rec = r /\ op'[c].rev = n /\ op'[c].at = "return"
        /\ op'[c].wrote = op[c].wrote \cup {"event"}
    BY <1>2, <2>5 DEF Becomes
  <2>7. Stepwise(op'[c])
    BY <1>1, <1>2, <2>3, <2>4, <2>5 DEF Becomes, Stepwise, Moving
  <2>8. Pending(r)' = {n} /\ Pending(r) = {n}
    BY <2>3, <2>4, <2>6, Others
  <2>9. /\ n \in events'[r] /\ events'[r] \ {n} = events[r] \ {n}
        /\ \A s \in Records \ {r} : events'[s] = events[s]
    BY <1>4, <2>1 DEF Structure, Types
  <2>10. Whole(r)' /\ Shape(r, n - 1)'
    BY <1>1, <2>3, <2>8, WholeKept DEF Shape, HotSet, ColdSet, Sealed
  <2>11. Active(c)' /\ op'[c].at \in Writing /\ op'[c].at \notin Moving
    BY <2>6 DEF Active, Locked, Unlocked, Writing, Moving
  <2>12. Settled(r)'
    BY <2>6, <2>11 DEF Settled, Quiet
  <2>13. Writes(c)' /\ Moves(c)'
    <3>1. OneTier(r, HotSet(r) \ {n})' <=> OneTier(r, HotSet(r) \ {n})
      BY <1>1 DEF OneTier, HotSet, ColdSet, Sealed
    <3>2. HotSet(r)' = HotSet(r)
      BY <1>1 DEF HotSet
    <3> SUFFICES ASSUME NEW s \in Records, NEW i \in Nat, op'[c].rec = s, op'[c].rev = i
                 PROVE  /\ Shape(s, i - 1)'
                        /\ "revision" \in op'[c].wrote /\ "event" \in op'[c].wrote
                        /\ i \in HotSet(s)' /\ i \in events'[s]
                        /\ s \notin killed' =>
                              /\ HotSet(s)' \ {i} = events'[s] \ {i}
                              /\ OneTier(s, HotSet(s) \ {i})'
      BY <2>11 DEF Writes, Moves, HotSet
    <3>3. s = r /\ i = n
      BY <2>6
    <3> QED
      BY <1>1, <2>3, <2>4, <2>6, <2>9, <2>10, <3>1, <3>2, <3>3
  <2> QED
    BY <1>1, <1>2, <2>3, <2>6, <2>7, <2>9, <2>10, <2>12, <2>13, Frame
<1> QED
  BY <1>3, <1>4

LEMMA FailStructure ==
    ASSUME Structure, Types', NEW c \in Clients, Fail(c)
    PROVE  Structure'
  BY OwnedRollsBack DEF Fail, files, packs, history


\* What one step of a rollback does to the files.
Undoes(c, r, n, x) ==
    /\ RollBack(c, op[c].wrote \ {x})
    /\ IF op[c].wrote \ {x} = {} THEN Ends(c)
       ELSE Becomes(c, op[c].wrote \ {x}, "undo")
    /\ x = "object" => op[c].wrote = {"object"}
    /\ objects' = IF x = "object" THEN objects \ {op[c].new.of} ELSE objects
    /\ HotSet(r)' = IF x = "revision" THEN HotSet(r) \ {n} ELSE HotSet(r)
    /\ \A m \in HotSet(r)' : revs'[r][m] = revs[r][m]
    /\ events'[r] = IF x = "event" THEN events[r] \ {n} ELSE events[r]
    /\ \A s \in Records \ {r} : revs'[s] = revs[s] /\ events'[s] = events[s]

LEMMA PartUndone ==
    ASSUME Structure, NEW c \in Clients, Undo(c),
           NEW r \in Records, NEW n \in Nat \ {0}, r = op[c].rec, n = op[c].rev
    PROVE  /\ op[c] # None /\ op[c].at = "undo" /\ Locked(c) /\ op[c].wrote \in SUBSET Parts
           /\ UNCHANGED <<kind, made, sealed, torn, acked, killed, contested>>
           /\ \E x \in op[c].wrote : Undoes(c, r, n, x)
<1> USE DEF files, packs, history
<1>1. /\ op[c] # None /\ op[c].at = "undo" /\ Locked(c)
      /\ UNCHANGED <<kind, made, sealed, torn, acked, killed, contested>>
  BY DEF Undo, At, Locked, Unlocked
<1>2. PICK x \in op[c].wrote :
         /\ revs' = IF x # "revision" THEN revs
                    ELSE [revs EXCEPT ![r] = [m \in DOMAIN @ \ {n} |-> @[m]]]
         /\ events' = IF x = "event" THEN [events EXCEPT ![r] = @ \ {n}] ELSE events
         /\ objects' = IF x = "object" THEN objects \ {op[c].new.of} ELSE objects
         /\ RollBack(c, op[c].wrote \ {x})
         /\ x = "object" => op[c].wrote = {"object"}
  BY UndoPart
<1>3. op[c].wrote \in SUBSET Parts /\ op[c].wrote \ {x} \in SUBSET Parts
  BY <1>1, CallFields DEF Structure
<1>4. IF op[c].wrote \ {x} = {} THEN Ends(c) ELSE Becomes(c, op[c].wrote \ {x}, "undo")
  BY <1>1, <1>2, <1>3, RollBackBecomes DEF Structure
<1>5. \A s \in Records \ {r} : revs'[s] = revs[s] /\ events'[s] = events[s]
  BY <1>2 DEF Structure, Types
<1>6. /\ HotSet(r)' = IF x = "revision" THEN HotSet(r) \ {n} ELSE HotSet(r)
      /\ \A m \in HotSet(r)' : revs'[r][m] = revs[r][m]
  <2>1. CASE x = "revision"
    <3>1. revs'[r] = [m \in HotSet(r) \ {n} |-> revs[r][m]]
      BY <1>2, <2>1 DEF Structure, Types, HotSet
    <3>2. HotSet(r)' = HotSet(r) \ {n}
      BY <3>1 DEF HotSet
    <3> QED
      BY <2>1, <3>1, <3>2
  <2>2. CASE x # "revision"
    BY <1>2, <2>2 DEF HotSet
  <2> QED
    BY <2>1, <2>2
<1>7. events'[r] = IF x = "event" THEN events[r] \ {n} ELSE events[r]
  BY <1>2 DEF Structure, Types
<1> QED
  BY <1>1, <1>2, <1>3, <1>4, <1>5, <1>6, <1>7 DEF Undoes

LEMMA UndoStructure ==
    ASSUME Structure, Types', NEW c \in Clients, Undo(c)
    PROVE  Structure'
<1>1. PICK r \in Records, n \in Nat \ {0} : r = op[c].rec /\ n = op[c].rev
  BY CallFields DEF Structure, Undo, At
<1>2. /\ op[c] # None /\ op[c].at = "undo" /\ Locked(c) /\ op[c].wrote \in SUBSET Parts
      /\ UNCHANGED <<kind, made, sealed, killed>>
  BY <1>1, PartUndone
<1>3. PICK x \in op[c].wrote : Undoes(c, r, n, x)
  BY <1>1, PartUndone
\* The object goes last: the call is over.
<1>4. CASE op[c].wrote \subseteq {"object"}
  <2>1. x = "object" /\ op[c].wrote \ {x} = {}
    BY <1>3, <1>4 DEF Undoes
  <2>2. op'[c] = None /\ \A d \in Clients \ {c} : op'[d] = op[d]
    BY <1>3, <2>1 DEF Ends, Undoes
  <2>3. \A d \in Clients \ {c} : Locked(d) => op[d].rec \notin SameLock(r)
    BY <1>1, <1>2, LockExcludes
  <2>4. ~Active(c) /\ ~Active(c)'
    BY <1>2, <1>4, <2>2 DEF Active, Locked
  <2>5. Pending(r) = {} /\ Pending(r)' = {} /\ Quiet(r) /\ Quiet(r)'
    BY <1>4, <2>2, <2>3, <2>4, Others
  <2>6. HotSet(r)' = HotSet(r) /\ events'[r] = events[r] /\ ColdSet(r)' = ColdSet(r)
    BY <1>2, <1>3, <2>1 DEF ColdSet, Sealed, Undoes
  <2>7. Whole(r)'
    <3>1. Whole(r)
      BY DEF Structure
    <3>2. \E last \in Nat : Shape(r, last)'
      BY <1>2, <2>5, <2>6, <3>1 DEF Whole, Shape
    <3> QED
      BY <1>2, <1>3, <2>6, <3>1, <3>2 DEF Whole, Hot, HotSet, Undoes
  <2>8. Settled(r)'
    BY <1>2, <2>5, <2>6 DEF Structure, Settled, OneTier
  <2>9. Writes(c)' /\ Moves(c)'
    BY <2>4 DEF Writes, Moves
  <2> QED
    BY <1>1, <1>2, <1>3, <2>2, <2>3, <2>7, <2>8, <2>9, Frame DEF Undoes
<1>5. CASE ~(op[c].wrote \subseteq {"object"})
  <2>1. x # "object"
    BY <1>3, <1>5 DEF Undoes
  <2>2. Active(c) /\ op[c].at \in Writing
    BY <1>2, <1>5 DEF Active, Writing
  <2>3. /\ n \in HotSet(r) => "revision" \in op[c].wrote
        /\ r \notin killed => (n \in events[r] => "event" \in op[c].wrote)
    BY <1>1, <2>2, WriterKnows
  <2>4. HotSet(r)' \ {n} = HotSet(r) \ {n}
    BY <1>3 DEF Undoes
  <2>5. \E things \in SUBSET Parts :
           /\ RollBack(c, things)
           /\ "object" \in things => "object" \in op[c].wrote
           /\ n \in HotSet(r)' => n \in HotSet(r) /\ "revision" \in things
           /\ r \notin killed => /\ events'[r] \ {n} = events[r] \ {n}
                                 /\ n \in events'[r] => "event" \in things
    BY <1>2, <1>3, <2>3 DEF Undoes
  <2> QED
    BY <1>1, <1>2, <1>3, <2>2, <2>4, <2>5, RollsBack DEF Undoes
<1> QED
  BY <1>4, <1>5

LEMMA ReturnStructure ==
    ASSUME Structure, Types', NEW c \in Clients, Return(c)
    PROVE  Structure'
<1> USE DEF files, packs, history
<1>1. /\ op[c] # None /\ op[c].at = "return"
      /\ op' = [op EXCEPT ![c] = None]
      /\ UNCHANGED <<kind, revs, events, made, sealed, killed>>
  BY DEF Return, At
<1>2. PICK r \in Records, n \in Nat \ {0} : r = op[c].rec /\ n = op[c].rev
  BY <1>1, CallFields DEF Structure
<1>3. Active(c) /\ op[c].at \in Writing
  BY <1>1 DEF Active, Locked, Unlocked, Writing
<1>4. /\ \A d \in Clients \ {c} : Locked(d) => op[d].rec \notin SameLock(r)
      /\ Stepwise(op[c]) /\ Shape(r, n - 1) /\ Whole(r) /\ n \in HotSet(r)
      /\ HotSet(r) \ Pending(r) = HotSet(r) \ {n}
      /\ r \notin killed => /\ HotSet(r) \ {n} = events[r] \ {n} /\ n \in events[r]
                            /\ OneTier(r, HotSet(r) \ {n})
  BY <1>1, <1>2, <1>3, WriterKnows
<1>5. op'[c] = None /\ \A d \in Clients \ {c} : op'[d] = op[d]
  BY <1>1, NoneEnds DEF Structure, Ends
<1>6. Pending(r)' = {} /\ ~Active(c)'
  BY <1>4, <1>5, Others DEF Active, Locked
<1>7. PICK m \in Nat \ {0}, s \in Nat :
         /\ m <= s + 1 /\ s <= n - 1 /\ HotSet(r) \ {n} = m..(n - 1) /\ ColdSet(r) = 1..s
         /\ s = 0 <=> sealed[r] = None
  BY <1>4 DEF Shape
<1>8. HotSet(r) = m..n
  <2>1. \A i : i \in HotSet(r) <=> i = n \/ i \in m..(n - 1)
    BY <1>4, <1>7
  <2>2. \A i : i \in m..n <=> i = n \/ i \in m..(n - 1)
    BY <1>7
  <2> QED
    BY <2>1, <2>2
<1>9. HotSet(r)' = HotSet(r) /\ ColdSet(r)' = ColdSet(r)
  BY <1>1 DEF HotSet, ColdSet, Sealed
<1>10. Shape(r, n)'
  <2>1. HotSet(r)' \ Pending(r)' = m..n /\ s <= n
    BY <1>6, <1>7, <1>8, <1>9
  <2> QED
    BY <1>1, <1>7, <1>9, <2>1, ShapeIs
<1>11. Whole(r)'
  BY <1>1, <1>4, <1>10 DEF Whole, Hot, HotSet, ColdSet, Sealed
<1>12. Settled(r)'
  <2> SUFFICES ASSUME r \notin killed PROVE HotSet(r) = events[r] /\ OneTier(r, HotSet(r))
    BY <1>1 DEF Settled, HotSet, OneTier, ColdSet, Sealed
  <2>1. HotSet(r) = events[r]
    <3>1. HotSet(r) = (HotSet(r) \ {n}) \cup {n}
      BY <1>4
    <3>2. events[r] = (events[r] \ {n}) \cup {n}
      BY <1>4
    <3> QED
      BY <1>4, <3>1, <3>2
  <2>2. n \notin ColdSet(r)
    BY <1>7
  <2> QED
    BY <1>4, <2>1, <2>2 DEF OneTier
<1>13. Writes(c)' /\ Moves(c)'
  BY <1>6 DEF Writes, Moves
<1> QED
  BY <1>1, <1>2, <1>4, <1>5, <1>11, <1>12, <1>13, Frame

LEMMA KillStructure ==
    ASSUME Structure, Types', NEW c \in Clients, Kill(c)
    PROVE  Structure'
<1> USE DEF files, packs, history
<1>1. /\ op[c] # None /\ op' = [op EXCEPT ![c] = None]
      /\ killed' = IF Locked(c) THEN killed \cup {op[c].rec} ELSE killed
      /\ UNCHANGED <<kind, revs, events, made, sealed>>
  BY DEF Kill
<1>2. op'[c] = None /\ \A d \in Clients \ {c} : op'[d] = op[d]
  BY <1>1, NoneEnds DEF Structure, Ends
<1>3. CASE ~Locked(c)
  BY <1>1, <1>2, <1>3, UnlockedStep
<1>4. CASE Locked(c)
  <2>1. PICK r \in Records, n \in Nat \ {0} : r = op[c].rec /\ n = op[c].rev
    BY <1>1, CallFields DEF Structure
  <2>2. \A d \in Clients \ {c} : Locked(d) => op[d].rec \notin SameLock(r)
    BY <1>1, <1>4, <2>1, LockExcludes
  <2>3. Pending(r)' = {} /\ ~Active(c)'
    BY <1>2, <2>2, Others DEF Active, Locked
  <2>4. HotSet(r)' = HotSet(r) /\ ColdSet(r)' = ColdSet(r) /\ Whole(r)
    BY <1>1 DEF HotSet, ColdSet, Sealed, Structure
  \* What was in hand stays: it is the new end of the line.
  <2>5. \E last \in Nat : Shape(r, last)'
    <3>1. CASE HotSet(r) \cap Pending(r) = {}
      <4>1. PICK last \in Nat : Shape(r, last)
        BY <2>4 DEF Whole
      <4>2. HotSet(r)' \ Pending(r)' = HotSet(r) \ Pending(r)
        BY <2>3, <2>4, <3>1
      <4> QED
        BY <1>1, <2>4, <4>1, <4>2 DEF Shape
    <3>2. CASE HotSet(r) \cap Pending(r) # {}
      <4>1. "revision" \in op[c].wrote /\ n \in HotSet(r)
        BY <1>1, <2>1, <2>2, <3>2, Others, <1>2
      <4>2. Shape(r, n - 1) /\ Pending(r) = {n}
        BY <1>1, <2>1, <4>1, HolderWrites
      <4>3. PICK m \in Nat \ {0}, s \in Nat :
               /\ m <= s + 1 /\ s <= n - 1 /\ HotSet(r) \ {n} = m..(n - 1) /\ ColdSet(r) = 1..s
               /\ s = 0 <=> sealed[r] = None
        BY <4>2 DEF Shape
      <4>4. HotSet(r) = m..n
        <5>1. \A i : i \in HotSet(r) <=> i = n \/ i \in m..(n - 1)
          BY <4>1, <4>3
        <5>2. \A i : i \in m..n <=> i = n \/ i \in m..(n - 1)
          BY <4>3
        <5> QED
          BY <5>1, <5>2
      <4>5. HotSet(r)' \ Pending(r)' = m..n /\ s <= n
        BY <2>3, <2>4, <4>3, <4>4
      <4> QED
        BY <1>1, <2>4, <4>3, <4>5, ShapeIs
    <3> QED
      BY <3>1, <3>2
  <2>6. Whole(r)'
    BY <1>1, <2>4, <2>5 DEF Whole, Hot, HotSet, ColdSet, Sealed
  <2>7. Settled(r)'
    BY <1>1, <1>4, <2>1 DEF Settled
  <2>8. Writes(c)' /\ Moves(c)'
    BY <2>3 DEF Writes, Moves
  <2>9. \A s \in Records \ {r} : s \in killed' <=> s \in killed
    BY <1>1, <2>1
  <2> QED
    BY <1>1, <1>2, <2>1, <2>2, <2>6, <2>7, <2>8, <2>9, Frame
<1> QED
  BY <1>3, <1>4


LEMMA StartArchiveStructure ==
    ASSUME Structure, Types', NEW c \in Clients, StartArchive(c)
    PROVE  Structure'
<1> USE DEF files, packs, history
<1>1. /\ op[c] = None /\ UNCHANGED <<kind, revs, events, made, sealed, killed>>
  BY DEF StartArchive
<1>2. PICK r \in Records :
         /\ Free(r) /\ Hot(r) /\ sealed[r] = None
         /\ op' = [op EXCEPT ![c] = Call("archive", r, Last(r), Top(r), Top(r), "seal")]
  BY DEF StartArchive
<1>3. Call("archive", r, Last(r), Top(r), Top(r), "seal") \in Calls
  <2>1. Top(r) \in Payloads /\ Last(r) \in 1..MaxRevision
    BY <1>2, LastIs, PayloadTop DEF Readable, Structure
  <2> QED
    BY <2>1, CallFits DEF Steps
<1>4. /\ \A d \in Clients \ {c} : op'[d] = op[d]
      /\ op'[c] # None /\ op'[c].rec = r /\ op'[c].do = "archive" /\ op'[c].wrote = {}
      /\ op'[c].at = "seal"
  <2>1. /\ \A d \in Clients \ {c} : op'[d] = op[d]
        /\ op'[c] = Call("archive", r, Last(r), Top(r), Top(r), "seal") /\ op'[c] # None
    BY <1>2, <1>3, NewCall DEF Structure
  <2> QED
    BY <2>1 DEF Call
<1>5. Stepwise(op'[c])
  BY <1>4 DEF Stepwise, Moving
<1>6. \A d \in Clients \ {c} : Locked(d) => op[d].rec \notin SameLock(r)
  BY <1>2 DEF Free
<1>7. Pending(r) = {} /\ Pending(r)' = {} /\ Quiet(r)
  BY <1>1, <1>4, <1>6, Others DEF Active, Locked
<1>8. Active(c)' /\ op'[c].at \notin Writing
  BY <1>4 DEF Active, Locked, Unlocked, Writing
<1>9. Whole(r)'
  BY <1>1, <1>7, WholeKept DEF Structure
<1>10. Settled(r)'
  BY <1>4, <1>8 DEF Settled, Quiet
<1>11. Writes(c)' /\ Moves(c)'
  <2>1. r \notin killed => HotSet(r) = events[r]
    BY <1>7 DEF Structure, Settled
  <2> SUFFICES ASSUME NEW s \in Records, op'[c].rec = s
               PROVE  /\ sealed'[s] = None /\ Hot(s)'
                      /\ s \notin killed' => HotSet(s)' = events'[s]
    BY <1>4, <1>8 DEF Writes, Moves
  <2> QED
    BY <1>1, <1>2, <1>4, <2>1 DEF Hot, HotSet
<1> QED
  BY <1>1, <1>4, <1>5, <1>6, <1>9, <1>10, <1>11, Frame

\* What an archiving call knows of its Record.
LEMMA MoverKnows ==
    ASSUME Structure, NEW c \in Clients, op[c] # None, op[c].at \in Moving,
           NEW r \in Records, r = op[c].rec
    PROVE  /\ \A d \in Clients \ {c} : Locked(d) => op[d].rec \notin SameLock(r)
           /\ Stepwise(op[c]) /\ op[c].do = "archive" /\ op[c].wrote = {}
           /\ Pending(r) = {} /\ Whole(r)
           /\ op[c].at \in {"seal", "publish"} => sealed[r] = None /\ Hot(r)
           /\ op[c].at = "whole" => sealed[r] = revs[r] /\ Hot(r)
           /\ op[c].at \in {"whole", "remove"} => sealed[r] # None /\ HotSet(r) \subseteq ColdSet(r)
           /\ op[c].at # "remove" /\ r \notin killed => HotSet(r) = events[r]
<1>1. Active(c) /\ Locked(c)
  BY DEF Active, Locked, Unlocked, Moving
<1>2. \A d \in Clients \ {c} : Locked(d) => op[d].rec \notin SameLock(r)
  BY <1>1, LockExcludes
<1>3. Stepwise(op[c]) /\ op[c].do = "archive" /\ op[c].wrote = {}
  BY DEF Structure, Stepwise
<1>4. Pending(r) = {}
  BY <1>2, <1>3, PendingOne DEF SameLock
<1> QED
  BY <1>1, <1>2, <1>3, <1>4 DEF Structure, Moves

\* Such a call moves on, or ends.
LEMMA MoverGoes ==
    ASSUME Structure, Types', NEW c \in Clients, op[c] # None, op[c].at \in Moving,
           NEW r \in Records, r = op[c].rec, NEW s \in Moving, Goto(c, s)
    PROVE  /\ \A d \in Clients \ {c} : op'[d] = op[d]
           /\ op'[c] # None /\ op'[c].rec = r /\ op'[c].at = s /\ op'[c].wrote = {}
           /\ kind' = kind => Stepwise(op'[c])
           /\ Pending(r)' = {} /\ Active(c)' /\ op'[c].at \notin Writing
<1>1. Stepwise(op[c]) /\ op[c].do = "archive" /\ op[c].wrote = {}
  BY MoverKnows
<1>2. Becomes(c, {}, s)
  BY <1>1, GotoBecomes DEF Structure, Steps, Moving
<1>3. /\ \A d \in Clients \ {c} : op'[d] = op[d]
      /\ op'[c] # None /\ op'[c].rec = r /\ op'[c].at = s /\ op'[c].wrote = {}
      /\ op'[c].do = "archive"
  BY <1>1, <1>2 DEF Becomes
<1>4. kind' = kind => Stepwise(op'[c])
  BY <1>3 DEF Stepwise, Moving
<1>5. Pending(r)' = {}
  BY <1>3, MoverKnows, Others
<1>6. Active(c)' /\ op'[c].at \notin Writing
  BY <1>3 DEF Active, Locked, Unlocked, Writing, Moving
<1> QED
  BY <1>3, <1>4, <1>5, <1>6

LEMMA PublishSomeStructure ==
    ASSUME Structure, Types', NEW c \in Clients, PublishSome(c)
    PROVE  Structure'
<1> USE DEF files, packs, history
<1>1. /\ op[c] # None /\ op[c].at = "seal" /\ Goto(c, "publish")
      /\ UNCHANGED <<kind, revs, events, made, sealed, killed>>
  BY DEF PublishSome, At
<1>2. PICK r \in Records : r = op[c].rec
  BY <1>1, CallFields DEF Structure
<1>3. op[c].at \in Moving /\ "publish" \in Moving
  BY <1>1 DEF Moving
<1>4. /\ \A d \in Clients \ {c} : Locked(d) => op[d].rec \notin SameLock(r)
      /\ Pending(r) = {} /\ Whole(r) /\ sealed[r] = None /\ Hot(r)
      /\ r \notin killed => HotSet(r) = events[r]
  BY <1>1, <1>2, <1>3, MoverKnows
<1>5. /\ \A d \in Clients \ {c} : op'[d] = op[d]
      /\ op'[c] # None /\ op'[c].rec = r /\ op'[c].at = "publish" /\ Stepwise(op'[c])
      /\ Pending(r)' = {} /\ Active(c)' /\ op'[c].at \notin Writing
  BY <1>1, <1>2, <1>3, MoverGoes
<1>6. Whole(r)' /\ Settled(r)'
  BY <1>1, <1>4, <1>5, WholeKept DEF Settled, Quiet
<1>7. Writes(c)' /\ Moves(c)'
  BY <1>1, <1>4, <1>5 DEF Writes, Moves, Hot, HotSet
<1> QED
  BY <1>1, <1>2, <1>4, <1>5, <1>6, <1>7, Frame

LEMMA PublishRestStructure ==
    ASSUME Structure, Types', NEW c \in Clients, PublishRest(c)
    PROVE  Structure'
<1> USE DEF files, packs, history
<1>1. /\ op[c] # None /\ op[c].at = "publish" /\ Goto(c, "whole")
      /\ UNCHANGED <<kind, revs, events, made, killed>>
  BY DEF PublishRest, At
<1>2. PICK r \in Records : r = op[c].rec
  BY <1>1, CallFields DEF Structure
<1>3. op[c].at \in Moving /\ "whole" \in Moving
  BY <1>1 DEF Moving
<1>4. /\ \A d \in Clients \ {c} : Locked(d) => op[d].rec \notin SameLock(r)
      /\ Pending(r) = {} /\ Whole(r) /\ sealed[r] = None /\ Hot(r)
      /\ r \notin killed => HotSet(r) = events[r]
  BY <1>1, <1>2, <1>3, MoverKnows
<1>5. /\ \A d \in Clients \ {c} : op'[d] = op[d]
      /\ op'[c] # None /\ op'[c].rec = r /\ op'[c].at = "whole" /\ Stepwise(op'[c])
      /\ Pending(r)' = {} /\ Active(c)' /\ op'[c].at \notin Writing
  BY <1>1, <1>2, <1>3, MoverGoes
<1>6. sealed'[r] = revs[r] /\ \A s \in Records \ {r} : sealed'[s] = sealed[s]
  BY <1>2 DEF PublishRest, Structure, Types
<1>7. revs[r] # None
  <2>1. AreRevisions(revs[r])
    BY DEF Structure, Types
  <2> QED
    BY <2>1, NoneAssumption DEF AreRevisions
<1>8. HotSet(r)' = HotSet(r) /\ ColdSet(r)' = HotSet(r) /\ HotSet(r) # {}
  BY <1>1, <1>4, <1>6, <1>7 DEF HotSet, ColdSet, Sealed, Hot
<1>9. PICK last \in Nat \ {0} : HotSet(r) = 1..last
  <2>1. PICK last \in Nat, m \in Nat \ {0} : m <= 1 /\ HotSet(r) = m..last
    BY <1>4 DEF Whole, Shape
  <2>2. m = 1 /\ last # 0
    BY <1>8, <2>1
  <2> QED
    BY <2>1, <2>2
<1>10. Shape(r, last)'
  <2>1. /\ 1 <= last + 1 /\ HotSet(r)' \ Pending(r)' = 1..last /\ ColdSet(r)' = 1..last
        /\ last = 0 <=> sealed'[r] = None
    BY <1>5, <1>6, <1>7, <1>8, <1>9
  <2> QED
    BY <2>1, ShapeIs
<1>11. Whole(r)'
  BY <1>1, <1>4, <1>6, <1>10 DEF Whole, Hot, HotSet
<1>12. Settled(r)'
  BY <1>5 DEF Settled, Quiet
<1>13. Writes(c)' /\ Moves(c)'
  <2> SUFFICES ASSUME NEW s \in Records, op'[c].rec = s
               PROVE  /\ sealed'[s] = revs'[s] /\ Hot(s)' /\ sealed'[s] # None
                      /\ HotSet(s)' \subseteq ColdSet(s)'
                      /\ s \notin killed' => HotSet(s)' = events'[s]
    BY <1>5 DEF Writes, Moves
  <2> QED
    BY <1>1, <1>4, <1>5, <1>6, <1>7, <1>8 DEF Hot, HotSet
<1> QED
  BY <1>1, <1>2, <1>4, <1>5, <1>6, <1>11, <1>12, <1>13, Frame

LEMMA RemoveHotStructure ==
    ASSUME Structure, Types', NEW c \in Clients, RemoveHot(c)
    PROVE  Structure'
<1> USE DEF files, packs, history
<1>1. /\ op[c] # None /\ op[c].at \in {"whole", "remove"}
      /\ UNCHANGED <<kind, made, sealed, killed>>
  BY DEF RemoveHot
<1>2. PICK r \in Records : r = op[c].rec
  BY <1>1, CallFields DEF Structure
<1>3. op[c].at \in Moving /\ "remove" \in Moving
  BY <1>1 DEF Moving
<1>4. /\ \A d \in Clients \ {c} : Locked(d) => op[d].rec \notin SameLock(r)
      /\ Pending(r) = {} /\ Whole(r) /\ sealed[r] # None /\ HotSet(r) \subseteq ColdSet(r)
  BY <1>1, <1>2, <1>3, MoverKnows
<1>5. PICK last \in Nat, m \in Nat \ {0}, s \in Nat :
         /\ s <= last /\ HotSet(r) = m..last /\ ColdSet(r) = 1..s
         /\ m <= s + 1 /\ (s = 0 <=> sealed[r] = None)
  BY <1>4 DEF Whole, Shape
<1>6. ColdSet(r)' = ColdSet(r)
  BY <1>1 DEF ColdSet, Sealed
<1>7. CASE Hot(r)
  <2>1. m <= last /\ Min(HotSet(r)) = m /\ m <= s
    <3>1. m <= last
      BY <1>5, <1>7 DEF Hot, HotSet
    <3>2. m \in HotSet(r)
      BY <1>5, <3>1
    <3> QED
      BY <1>4, <1>5, <3>1, <3>2, MinOfInterval
  <2>2. /\ revs' = [revs EXCEPT ![r] = [i \in HotSet(r) \ {m} |-> revs[r][i]]]
        /\ Goto(c, "remove") /\ events' = events
    BY <1>2, <1>7, <2>1 DEF RemoveHot, HotSet, Structure, Types
  <2>3. /\ \A d \in Clients \ {c} : op'[d] = op[d]
        /\ op'[c] # None /\ op'[c].rec = r /\ op'[c].at = "remove" /\ Stepwise(op'[c])
        /\ Pending(r)' = {} /\ Active(c)' /\ op'[c].at \notin Writing
    BY <1>1, <1>2, <1>3, <2>2, MoverGoes
  <2>4. /\ revs'[r] = [i \in HotSet(r) \ {m} |-> revs[r][i]]
        /\ \A q \in Records \ {r} : revs'[q] = revs[q]
    BY <2>2 DEF Structure, Types
  <2>5. HotSet(r)' = HotSet(r) \ {m}
    BY <2>4 DEF HotSet
  <2>6. HotSet(r)' = (m + 1)..last
    BY <1>5, <2>5
  <2>7. Shape(r, last)'
    <3>1. /\ m + 1 \in Nat \ {0} /\ m + 1 <= s + 1 /\ HotSet(r)' \ Pending(r)' = (m + 1)..last
          /\ ColdSet(r)' = 1..s /\ (s = 0 <=> sealed'[r] = None)
      BY <1>1, <1>5, <1>6, <2>1, <2>3, <2>6
    <3> QED
      BY <1>5, <3>1, ShapeIs
  <2>8. Whole(r)'
    <3>1. \A i \in HotSet(r)' \cap ColdSet(r)' : revs'[r][i] = sealed'[r][i]
      BY <1>1, <1>4, <1>6, <2>4, <2>5 DEF Whole
    <3>2. Hot(r)' => r \in made'
      BY <1>1, <1>4, <1>7 DEF Whole
    <3> QED
      BY <2>7, <3>1, <3>2 DEF Whole
  <2>9. Settled(r)'
    BY <2>3 DEF Settled, Quiet
  <2>10. Writes(c)' /\ Moves(c)'
    <3> SUFFICES ASSUME NEW q \in Records, op'[c].rec = q
                 PROVE  sealed'[q] # None /\ HotSet(q)' \subseteq ColdSet(q)'
      BY <2>3 DEF Writes, Moves
    <3> QED
      BY <1>1, <1>4, <1>6, <2>3, <2>5
  <2> QED
    BY <1>1, <1>2, <1>4, <2>2, <2>3, <2>4, <2>8, <2>9, <2>10, Frame
\* The events go last, and the call is over.
<1>8. CASE ~Hot(r)
  <2>1. /\ events' = [events EXCEPT ![r] = {}] /\ op' = [op EXCEPT ![c] = None]
        /\ revs' = revs
    BY <1>2, <1>8 DEF RemoveHot
  <2>2. op'[c] = None /\ \A d \in Clients \ {c} : op'[d] = op[d]
    BY <2>1, NoneEnds DEF Structure, Ends
  <2>3. events'[r] = {} /\ \A q \in Records \ {r} : events'[q] = events[q]
    BY <2>1 DEF Structure, Types
  <2>4. Pending(r)' = {} /\ ~Active(c)'
    BY <1>4, <2>2, Others DEF Active, Locked
  <2>5. Whole(r)'
    BY <1>1, <1>4, <2>1, <2>4, WholeKept
  <2>6. HotSet(r)' = {}
    BY <1>8, <2>1 DEF Hot, HotSet
  <2>7. Settled(r)'
    BY <2>3, <2>6 DEF Settled, OneTier
  <2>8. Writes(c)' /\ Moves(c)'
    BY <2>4 DEF Writes, Moves
  <2> QED
    BY <1>1, <1>2, <1>4, <2>1, <2>2, <2>3, <2>5, <2>7, <2>8, Frame
<1> QED
  BY <1>7, <1>8

LEMMA FailArchiveStructure ==
    ASSUME Structure, Types', NEW c \in Clients, FailArchive(c)
    PROVE  Structure'
<1> USE DEF files, packs, history
<1>1. /\ op[c] # None /\ op[c].at \in {"seal", "publish", "whole"}
      /\ op' = [op EXCEPT ![c] = None] /\ sealed' = [sealed EXCEPT ![op[c].rec] = None]
      /\ UNCHANGED <<kind, revs, events, made, killed>>
  BY DEF FailArchive
<1>2. PICK r \in Records : r = op[c].rec
  BY <1>1, CallFields DEF Structure
<1>3. op[c].at \in Moving /\ op[c].at # "remove"
  BY <1>1 DEF Moving
<1>4. /\ \A d \in Clients \ {c} : Locked(d) => op[d].rec \notin SameLock(r)
      /\ Pending(r) = {} /\ Whole(r) /\ Hot(r) /\ (sealed[r] = None \/ sealed[r] = revs[r])
      /\ r \notin killed => HotSet(r) = events[r]
  BY <1>1, <1>2, <1>3, MoverKnows
<1>5. op'[c] = None /\ \A d \in Clients \ {c} : op'[d] = op[d]
  BY <1>1, NoneEnds DEF Structure, Ends
<1>6. sealed'[r] = None /\ \A s \in Records \ {r} : sealed'[s] = sealed[s]
  BY <1>1, <1>2 DEF Structure, Types
<1>7. Pending(r)' = {} /\ ~Active(c)'
  BY <1>4, <1>5, Others DEF Active, Locked
<1>8. HotSet(r)' = HotSet(r) /\ ColdSet(r)' = {}
  BY <1>1, <1>6, EmptyRevisions DEF HotSet, ColdSet, Sealed
\* The hot revisions begin at 1, as they did before the pack was there.
<1>9. PICK last \in Nat : HotSet(r) = 1..last
  <2>1. PICK last \in Nat, m \in Nat \ {0}, s \in Nat :
           /\ m <= s + 1 /\ HotSet(r) = m..last /\ ColdSet(r) = 1..s
           /\ (s = 0 <=> sealed[r] = None)
    BY <1>4 DEF Whole, Shape
  <2>2. m = 1
    <3>1. CASE sealed[r] = None
      BY <2>1, <3>1
    <3>2. CASE sealed[r] = revs[r] /\ sealed[r] # None
      <4>1. m..last = 1..s /\ s # 0
        BY <2>1, <3>2 DEF HotSet, ColdSet, Sealed
      <4>2. 1 \in m..last
        BY <4>1
      <4> QED
        BY <4>2
    <3> QED
      BY <1>4, <3>1, <3>2
  <2> QED
    BY <2>1, <2>2
<1>10. Shape(r, last)'
  <2>1. HotSet(r)' \ Pending(r)' = 1..last /\ ColdSet(r)' = 1..0
    BY <1>7, <1>8, <1>9
  <2>2. 1 \in Nat \ {0} /\ 0 \in Nat /\ 1 <= 0 + 1 /\ 0 <= last
    OBVIOUS
  <2>3. 0 = 0 <=> sealed'[r] = None
    BY <1>6
  <2> QED
    BY <2>1, <2>2, <2>3 DEF Shape
<1>11. Whole(r)'
  BY <1>1, <1>4, <1>8, <1>10 DEF Whole, Hot
<1>12. Settled(r)'
  BY <1>1, <1>4, <1>6, <1>8 DEF Settled, OneTier
<1>13. Writes(c)' /\ Moves(c)'
  BY <1>7 DEF Writes, Moves
<1> QED
  BY <1>1, <1>2, <1>4, <1>5, <1>6, <1>11, <1>12, <1>13, Frame

LEMMA StutterStructure ==
    ASSUME Structure, UNCHANGED vars
    PROVE  Structure'
<1>1. Types' /\ Exclusive' /\ \A c \in Clients : op'[c] # None => Stepwise(op[c])'
  BY DEF Structure, vars, Types, Exclusive, Locked, SameLock, Stepwise
<1>2. ASSUME NEW s PROVE Pending(s)' = Pending(s)
  BY DEF vars, Pending
<1>3. \A r \in Records : Whole(r)' /\ Settled(r)'
  BY <1>2 DEF Structure, vars, Whole, Shape, Settled, Quiet, Active, Locked, OneTier,
              HotSet, ColdSet, Sealed, Hot
<1>4. \A c \in Clients : Moves(c)'
  BY DEF Structure, vars, Moves, Active, Locked, HotSet, ColdSet, Sealed, Hot
<1>5. ASSUME NEW c \in Clients PROVE Writes(c)'
  <2>1. UNCHANGED <<op, revs, events, sealed, killed>> /\ Writes(c)
    BY DEF vars, Structure
  <2> SUFFICES ASSUME NEW s \in Records, NEW n \in Nat
               PROVE  /\ Shape(s, n - 1)' <=> Shape(s, n - 1)
                      /\ OneTier(s, HotSet(s) \ {n})' <=> OneTier(s, HotSet(s) \ {n})
    BY <2>1 DEF Writes, Active, Locked, HotSet
  <2> QED
    BY <1>2, <2>1 DEF Shape, OneTier, HotSet, ColdSet, Sealed
<1> QED
  BY <1>1, <1>3, <1>4, <1>5 DEF Structure

LEMMA StepStructure == Structure /\ [Next]_vars => Structure'
<1> SUFFICES ASSUME Structure, [Next]_vars PROVE Structure'
  OBVIOUS
<1>1. Types'
  BY StepTypes
<1>2. CASE UNCHANGED vars
  BY <1>2, StutterStructure
<1>3. ASSUME NEW c \in Clients,
             \/ Create(c) \/ Read(c) \/ Put(c) \/ Lock(c)
             \/ WriteRevision(c) \/ WriteEvent(c) \/ Return(c)
             \/ Fail(c) \/ Undo(c) \/ Kill(c)
             \/ StartArchive(c) \/ PublishSome(c) \/ PublishRest(c) \/ RemoveHot(c)
             \/ FailArchive(c)
      PROVE  Structure'
  BY <1>1, <1>3, CreateStructure, ReadStructure, PutStructure, LockStructure,
     WriteRevisionStructure, WriteEventStructure, ReturnStructure, FailStructure,
     UndoStructure, KillStructure, StartArchiveStructure, PublishSomeStructure,
     PublishRestStructure, RemoveHotStructure, FailArchiveStructure
<1> QED
  BY <1>2, <1>3 DEF Next

LEMMA AlwaysStructure == Spec => []Structure
<1>1. Init => Structure
  BY InitStructure
<1> QED
  BY <1>1, StepStructure, PTL DEF Spec

---------------------------------------------------------------------------
(* What calls leave when they end *)

\* Whatever interleaves, fails or rolls back, a Record on which no call was
\* killed has, whenever its lock is free, an event for each hot revision and no
\* other, and lies in one tier unless it was revised after its archiving.
THEOREM AlwaysSettles == Spec => []RecordsSettle
<1>1. Structure => RecordsSettle
  <2> SUFFICES ASSUME Structure, NEW r \in Records \ killed, Free(r)
               PROVE  DOMAIN revs[r] = events[r] /\ (Hot(r) /\ sealed[r] # None => Reopened(r))
    BY DEF RecordsSettle, HistoryComplete, TiersDisjoint
  <2>1. Quiet(r)
    BY DEF Free, Quiet, Active, SameLock
  <2>2. HotSet(r) = events[r] /\ OneTier(r, HotSet(r))
    BY <2>1 DEF Structure, Settled
  <2> QED
    BY <2>2 DEF HotSet, OneTier, ColdSet, Sealed, Hot, Reopened
<1> QED
  BY <1>1, AlwaysStructure, PTL


---------------------------------------------------------------------------
(* The line of revisions *)

Numbers(r) == (HotSet(r) \cup ColdSet(r)) \ Pending(r)
Revision(r, n) == IF n \in HotSet(r) THEN revs[r][n] ELSE Sealed(r)[n]

LEMMA LineIs ==
    ASSUME NEW r
    PROVE  Line(r) = [n \in Numbers(r) |-> Revision(r, n)]
  BY DEF Line, Numbers, Revision, HotSet, ColdSet

LEMMA LineSame ==
    ASSUME NEW r, Numbers(r)' = Numbers(r), \A n \in Numbers(r) : Revision(r, n)' = Revision(r, n)
    PROVE  Line(r)' = Line(r)
<1>1. Line(r)' = [n \in Numbers(r)' |-> Revision(r, n)']
  BY DEF Line, Numbers, Revision, HotSet, ColdSet
<1> HIDE DEF Numbers, Revision
<1>2. [n \in Numbers(r)' |-> Revision(r, n)'] = [n \in Numbers(r) |-> Revision(r, n)]
  OBVIOUS
<1> QED
  BY <1>1, <1>2, LineIs

LEMMA LineAlone ==
    ASSUME NEW r, revs'[r] = revs[r], sealed'[r] = sealed[r], Pending(r)' = Pending(r)
    PROVE  Line(r)' = Line(r)
  BY DEF Line, Sealed

\* No revision in hand is in a pack.
LEMMA PendingNotCold ==
    ASSUME Structure, NEW r \in Records
    PROVE  Pending(r) \cap ColdSet(r) = {}
<1> SUFFICES ASSUME NEW x \in Pending(r), x \in ColdSet(r) PROVE FALSE
  OBVIOUS
<1>1. PICK c \in Clients : /\ op[c] # None /\ op[c].rec = r
                           /\ "revision" \in op[c].wrote /\ op[c].rev = x
  BY DEF Pending
<1>2. PICK n \in Nat \ {0} : n = x
  BY <1>1, HolderWrites
<1>3. Shape(r, n - 1)
  BY <1>1, <1>2, HolderWrites
<1> QED
  BY <1>2, <1>3 DEF Shape

\* Nothing is missing between 1 and the end of a line.
LEMMA LineNumbers ==
    ASSUME Structure, NEW r \in Records, NEW last \in Nat, Shape(r, last)
    PROVE  DOMAIN Line(r) = 1..last /\ Cardinality(DOMAIN Line(r)) = last
<1>1. PICK m \in Nat \ {0}, s \in Nat :
         m <= s + 1 /\ s <= last /\ HotSet(r) \ Pending(r) = m..last /\ ColdSet(r) = 1..s
  BY DEF Shape
<1>2. Numbers(r) = (m..last) \cup (1..s)
  BY <1>1, PendingNotCold DEF Numbers
<1>3. (m..last) \cup (1..s) = 1..last
  BY <1>1
<1>4. DOMAIN Line(r) = 1..last
  BY <1>2, <1>3, LineIs
<1>5. Cardinality(1..last) = last
  <2>1. last \in Int /\ 1 \in Int
    OBVIOUS
  <2>2. Cardinality(1..last) = IF 1 > last THEN 0 ELSE last - 1 + 1
    BY <2>1, FS_Interval
  <2> QED
    BY <2>2
<1> QED
  BY <1>4, <1>5

\* A writing call that only touches what it has in hand changes no line.
LEMMA LineWrites ==
    ASSUME Structure, NEW c \in Clients, op[c] # None, Active(c), op[c].at \in Writing,
           NEW r \in Records, NEW n \in Nat \ {0}, r = op[c].rec, n = op[c].rev,
           sealed'[r] = sealed[r],
           HotSet(r)' \ {n} = HotSet(r) \ {n},
           \A m \in HotSet(r) \ {n} : revs'[r][m] = revs[r][m],
           \A d \in Clients \ {c} : op'[d] = op[d],
           op'[c] = None \/ (op'[c].rec = r /\ op'[c].rev = n),
           n \in HotSet(r)' => op'[c] # None /\ "revision" \in op'[c].wrote
    PROVE  Line(r)' = Line(r)
<1>1. /\ \A d \in Clients \ {c} : Locked(d) => op[d].rec \notin SameLock(r)
      /\ Pending(r) = IF "revision" \in op[c].wrote THEN {n} ELSE {}
      /\ HotSet(r) \ Pending(r) = HotSet(r) \ {n}
      /\ Shape(r, n - 1)
  BY WriterKnows
<1>2. Pending(r)' = IF op'[c] # None /\ op'[c].rec = r /\ "revision" \in op'[c].wrote
                    THEN {op'[c].rev} ELSE {}
  BY <1>1, Others
<1>3. HotSet(r)' \ Pending(r)' = HotSet(r) \ {n} /\ Pending(r)' \subseteq {n}
  BY <1>2
<1>4. n \notin ColdSet(r) /\ ColdSet(r)' = ColdSet(r) /\ Sealed(r)' = Sealed(r)
  BY <1>1 DEF Shape, ColdSet, Sealed
<1>5. Numbers(r) = (HotSet(r) \cup ColdSet(r)) \ {n}
  BY <1>1, <1>4 DEF Numbers
<1>6. Numbers(r)' = (HotSet(r) \cup ColdSet(r)) \ {n}
  BY <1>3, <1>4 DEF Numbers
<1>7. \A m \in Numbers(r) : Revision(r, m)' = Revision(r, m)
  <2> SUFFICES ASSUME NEW m \in Numbers(r) PROVE Revision(r, m)' = Revision(r, m)
    OBVIOUS
  <2>1. m # n /\ (m \in HotSet(r)' <=> m \in HotSet(r))
    BY <1>5
  <2> QED
    BY <1>4, <2>1 DEF Revision
<1> QED
  BY <1>5, <1>6, <1>7, LineSame

\* The call is over and what it had in hand stays: its revision is the next
\* one of the line.
LEMMA LineGrows ==
    ASSUME Structure, Structure', NEW c \in Clients, op[c] # None, "revision" \in op[c].wrote,
           NEW r \in Records, NEW n \in Nat \ {0}, r = op[c].rec, n = op[c].rev,
           n \in HotSet(r), UNCHANGED <<revs, sealed>>,
           op'[c] = None, \A d \in Clients \ {c} : op'[d] = op[d]
    PROVE  /\ DOMAIN Line(r) = 1..(n - 1) /\ Cardinality(DOMAIN Line(r)) = n - 1
           /\ revs[r][n] \in Payloads
           /\ Line(r)' = [m \in 1..n |-> IF m <= n - 1 THEN Line(r)[m] ELSE revs[r][n]]
<1>1. Locked(c) /\ Shape(r, n - 1) /\ Pending(r) = {n}
  BY HolderWrites
<1>2. DOMAIN Line(r) = 1..(n - 1) /\ Cardinality(DOMAIN Line(r)) = n - 1
  <2>1. n - 1 \in Nat
    OBVIOUS
  <2> QED
    BY <1>1, <2>1, LineNumbers
<1>3. \A d \in Clients \ {c} : Locked(d) => op[d].rec \notin SameLock(r)
  BY <1>1, LockExcludes
<1>4. Pending(r)' = {}
  BY <1>3, Others
<1>5. Numbers(r) = 1..(n - 1)
  BY <1>2, LineIs
<1>6. Numbers(r)' = 1..n
  <2>1. Numbers(r)' = HotSet(r) \cup ColdSet(r)
    BY <1>4 DEF Numbers, HotSet, ColdSet, Sealed
  <2>2. Numbers(r) = (HotSet(r) \cup ColdSet(r)) \ {n}
    BY <1>1 DEF Numbers
  <2>3. \A i : i \in Numbers(r)' <=> i \in 1..(n - 1) \/ i = n
    BY <1>5, <2>1, <2>2
  <2>4. \A i : i \in 1..n <=> i \in 1..(n - 1) \/ i = n
    OBVIOUS
  <2> QED
    BY <2>3, <2>4
<1>7. \A m \in 1..n : Revision(r, m)' = Revision(r, m)
  BY DEF Revision, HotSet, Sealed
<1>8. \A m \in 1..(n - 1) : Line(r)[m] = Revision(r, m)
  BY <1>5, LineIs
<1>9. Revision(r, n) = revs[r][n]
  BY DEF Revision
<1>10. Line(r)' = [m \in Numbers(r)' |-> Revision(r, m)']
  BY DEF Line, Numbers, Revision, HotSet, ColdSet
<1>11. revs[r][n] \in Payloads
  BY DEF Structure, Types, AreRevisions, HotSet
<1>12. Line(r)' = [m \in 1..n |-> IF m <= n - 1 THEN Line(r)[m] ELSE revs[r][n]]
  <2>1. Line(r)' = [m \in 1..n |-> Revision(r, m)']
    BY <1>6, <1>10
  <2>2. \A m \in 1..n : Revision(r, m)' = IF m <= n - 1 THEN Line(r)[m] ELSE revs[r][n]
    <3> SUFFICES ASSUME NEW m \in 1..n
                 PROVE  Revision(r, m)' = IF m <= n - 1 THEN Line(r)[m] ELSE revs[r][n]
      OBVIOUS
    <3>1. CASE m <= n - 1
      BY <1>7, <1>8, <3>1
    <3>2. CASE ~(m <= n - 1)
      <4>1. m = n
        BY <3>2
      <4> QED
        BY <1>7, <1>9, <3>2, <4>1
    <3> QED
      BY <3>1, <3>2
  <2> HIDE DEF Revision
  <2> QED
    BY <2>1, <2>2
<1> QED
  BY <1>2, <1>11, <1>12


\* No step of a call touches the line of another Record.
LEMMA OtherLines ==
    ASSUME NEW c \in Clients, NEW r \in Records,
           \A d \in Clients \ {c} : op'[d] = op[d],
           op[c] = None \/ op[c].rec = r, op'[c] = None \/ op'[c].rec = r,
           \A s \in Records \ {r} : revs'[s] = revs[s] /\ sealed'[s] = sealed[s]
    PROVE  \A s \in Records \ {r} : Line(s)' = Line(s)
<1> SUFFICES ASSUME NEW s \in Records \ {r} PROVE Line(s)' = Line(s)
  OBVIOUS
<1>1. Pending(s)' = Pending(s)
  BY PendingKept
<1> QED
  BY <1>1, LineAlone

\* A step of a call that has no revision in hand, before or after it, and
\* touches no file that counts.
LEMMA HandsOff ==
    ASSUME NEW c \in Clients, \A d \in Clients \ {c} : op'[d] = op[d],
           op[c] = None \/ "revision" \notin op[c].wrote,
           op'[c] = None \/ "revision" \notin op'[c].wrote,
           UNCHANGED <<revs, sealed>>
    PROVE  \A s \in Records : Line(s)' = Line(s)
<1> SUFFICES ASSUME NEW s \in Records PROVE Line(s)' = Line(s)
  OBVIOUS
<1>1. Pending(s)' = Pending(s)
  BY PendingKept
<1> QED
  BY <1>1, LineAlone

LEMMA BeginLines ==
    ASSUME Structure, NEW c \in Clients, Create(c) \/ Read(c) \/ StartArchive(c)
    PROVE  \A s \in Records : Line(s)' = Line(s)
<1> USE DEF files, packs, history
<1>1. op[c] = None /\ UNCHANGED <<revs, sealed>>
  BY DEF Create, Read, StartArchive
<1>2. ASSUME NEW do, NEW r, NEW n, NEW basis, NEW p, NEW at,
             op' = [op EXCEPT ![c] = Call(do, r, n, basis, p, at)]
      PROVE  (\A d \in Clients \ {c} : op'[d] = op[d]) /\ "revision" \notin op'[c].wrote
  BY <1>2 DEF Structure, Types, Call
<1>3. (\A d \in Clients \ {c} : op'[d] = op[d]) /\ "revision" \notin op'[c].wrote
  <2>1. CASE Create(c)
    <3>1. PICK r \in Records : \E p \in PayloadsOf(r, FALSE) : op' = [op EXCEPT ![c] =
             Call("create", r, 1, None, p, IF p.local THEN "object" ELSE "revision")]
      BY <2>1 DEF Create
    <3>2. PICK p \in PayloadsOf(r, FALSE) : op' = [op EXCEPT ![c] =
             Call("create", r, 1, None, p, IF p.local THEN "object" ELSE "revision")]
      BY <3>1
    <3> QED
      BY <1>2, <3>2
  <2>2. CASE Read(c)
    <3>1. PICK r \in Records, do \in {"revise", "import"} :
             \E p \in PayloadsOf(r, Current(r).cold) : op' = [op EXCEPT ![c] =
                Call(do, r, Last(r) + 1, Current(r), p, IF p.local THEN "put" ELSE "wait")]
      BY <2>2 DEF Read
    <3>2. PICK p \in PayloadsOf(r, Current(r).cold) : op' = [op EXCEPT ![c] =
                Call(do, r, Last(r) + 1, Current(r), p, IF p.local THEN "put" ELSE "wait")]
      BY <3>1
    <3> QED
      BY <1>2, <3>2
  <2>3. CASE StartArchive(c)
    <3>1. PICK r \in Records :
             op' = [op EXCEPT ![c] = Call("archive", r, Last(r), Top(r), Top(r), "seal")]
      BY <2>3 DEF StartArchive
    <3> QED
      BY <1>2, <3>1
  <2> QED
    BY <2>1, <2>2, <2>3
<1> QED
  BY <1>1, <1>3, HandsOff

LEMMA WaitingLines ==
    ASSUME Structure, NEW c \in Clients, Put(c) \/ Lock(c) \/ PublishSome(c)
    PROVE  \A s \in Records : Line(s)' = Line(s)
<1> USE DEF files, packs, history
<1>1. op[c] # None /\ op[c].at \in {"object", "put", "wait", "seal"} /\ UNCHANGED <<revs, sealed>>
  BY DEF Put, Lock, PublishSome, At
<1>2. "revision" \notin op[c].wrote
  BY <1>1 DEF Structure, Stepwise, Moving
<1>3. /\ \A d \in Clients \ {c} : op'[d] = op[d]
      /\ op'[c] = None \/ "revision" \notin op'[c].wrote
  <2>1. CASE Put(c)
    <3> DEFINE w == IF op[c].new.of \in objects THEN op[c].wrote ELSE op[c].wrote \cup {"object"}
               a == IF op[c].at = "object" THEN "revision" ELSE "wait"
    <3>1. Becomes(c, w, a)
      BY <2>1, PutBecomes DEF Structure
    <3>2. "revision" \notin w
      BY <1>2
    <3> HIDE DEF w, a
    <3> QED
      BY <3>1, <3>2 DEF Becomes
  <2>2. CASE Lock(c) /\ Fits(c)
    BY <1>1, <1>2, <2>2, GotoBecomes DEF Structure, Becomes, Lock, Steps
  <2>3. CASE Lock(c) /\ ~Fits(c)
    <3>1. IF op[c].wrote = {} THEN Ends(c) ELSE Becomes(c, op[c].wrote, "undo")
      BY <1>1, <2>3, RollBackBecomes, CallFields DEF Structure, Lock
    <3> QED
      BY <1>2, <3>1 DEF Becomes, Ends
  <2>4. CASE PublishSome(c)
    BY <1>1, <1>2, <2>4, GotoBecomes DEF Structure, Becomes, PublishSome, Steps
  <2> QED
    BY <2>1, <2>2, <2>3, <2>4
<1> QED
  BY <1>1, <1>2, <1>3, HandsOff

LEMMA WriteRevisionLines ==
    ASSUME Structure, NEW c \in Clients, WriteRevision(c)
    PROVE  (\A s \in Records : Line(s)' = Line(s)) /\ acked' = acked
<1>1. PICK r \in Records, n \in Nat \ {0} : r = op[c].rec /\ n = op[c].rev
  BY CallFields DEF Structure, WriteRevision, At
<1>2. /\ op[c] # None /\ Active(c) /\ op[c].at \in Writing
      /\ n \notin HotSet(r)
      /\ Becomes(c, op[c].wrote \cup {"revision"}, "event")
      /\ UNCHANGED <<sealed, acked>> /\ HotSet(r)' = HotSet(r) \cup {n}
      /\ \A m \in HotSet(r) : revs'[r][m] = revs[r][m]
      /\ \A s \in Records \ {r} : revs'[s] = revs[s]
  BY <1>1, RevisionWritten
<1>3. /\ \A d \in Clients \ {c} : op'[d] = op[d]
      /\ op'[c] # None /\ op'[c].rec = r /\ op'[c].rev = n /\ "revision" \in op'[c].wrote
  BY <1>1, <1>2 DEF Becomes
<1>4. HotSet(r)' \ {n} = HotSet(r) \ {n}
  BY <1>2
<1>5. Line(r)' = Line(r)
  BY <1>1, <1>2, <1>3, <1>4, LineWrites
<1>6. \A s \in Records \ {r} : Line(s)' = Line(s)
  BY <1>1, <1>2, <1>3, OtherLines
<1> QED
  BY <1>2, <1>5, <1>6

\* A call that goes on to write its event, or to roll back, still has its
\* revision in hand.
LEMMA KeepsInHand ==
    ASSUME Structure, NEW c \in Clients, op[c] # None,
           op[c].at \in {"object", "revision", "event", "return"},
           NEW things \in SUBSET Parts, "revision" \in op[c].wrote => "revision" \in things,
           NEW at, IF things = {} THEN Ends(c) ELSE Becomes(c, things, at),
           UNCHANGED <<revs, sealed>>
    PROVE  \A s \in Records : Line(s)' = Line(s)
<1>1. PICK r \in Records, n \in Nat \ {0} : r = op[c].rec /\ n = op[c].rev
  BY CallFields DEF Structure
<1>2. Active(c) /\ op[c].at \in Writing
  BY DEF Active, Locked, Unlocked, Writing
<1>3. n \in HotSet(r) => "revision" \in op[c].wrote
  BY <1>1, <1>2, WriterKnows
<1>4. /\ \A d \in Clients \ {c} : op'[d] = op[d]
      /\ op'[c] = None \/ (op'[c].rec = r /\ op'[c].rev = n)
      /\ "revision" \in things => op'[c] # None /\ "revision" \in op'[c].wrote
  BY <1>1 DEF Becomes, Ends
<1>5. HotSet(r)' = HotSet(r)
  BY DEF HotSet
<1>6. Line(r)' = Line(r)
  BY <1>1, <1>2, <1>3, <1>4, <1>5, LineWrites
<1>7. \A s \in Records \ {r} : Line(s)' = Line(s)
  BY <1>1, <1>4, OtherLines
<1> QED
  BY <1>6, <1>7

LEMMA OwnedLines ==
    ASSUME Structure, NEW c \in Clients, op[c] # None, RollBack(c, Owned(c)),
           op[c].at \in {"object", "revision", "event", "return"}, UNCHANGED <<revs, sealed>>
    PROVE  \A s \in Records : Line(s)' = Line(s)
<1>1. Owned(c) \in SUBSET Parts /\ ("revision" \in op[c].wrote => "revision" \in Owned(c))
  BY OwnedParts DEF Owned, Structure
<1> HIDE DEF Owned
<1>2. IF Owned(c) = {} THEN Ends(c) ELSE Becomes(c, Owned(c), "undo")
  BY <1>1, RollBackBecomes DEF Structure
<1> QED
  BY <1>1, <1>2, KeepsInHand

LEMMA WriteEventLines ==
    ASSUME Structure, NEW c \in Clients, WriteEvent(c) \/ Fail(c)
    PROVE  \A s \in Records : Line(s)' = Line(s)
<1> USE DEF files, packs, history
<1>1. op[c] # None /\ op[c].at \in {"object", "revision", "event", "return"} /\ UNCHANGED <<revs, sealed>>
  BY DEF WriteEvent, Fail, At
<1>2. CASE RollBack(c, Owned(c))
  BY <1>1, <1>2, OwnedLines
<1>3. CASE op' = [op EXCEPT ![c].wrote = @ \cup {"event"}, ![c].at = "return"]
  <2>1. op[c].wrote \cup {"event"} \in SUBSET Parts /\ "return" \in Steps
    BY <1>1, CallFields DEF Structure, Parts, Steps
  <2>2. op' = [op EXCEPT ![c].wrote = op[c].wrote \cup {"event"}, ![c].at = "return"]
    BY <1>3 DEF Structure, Types
  <2>3. Becomes(c, op[c].wrote \cup {"event"}, "return")
    BY <1>1, <2>1, <2>2, WritesBecomes DEF Structure
  <2>4. op[c].wrote \cup {"event"} # {}
    OBVIOUS
  <2> QED
    BY <1>1, <2>1, <2>3, <2>4, KeepsInHand
<1> QED
  BY <1>2, <1>3 DEF WriteEvent, Fail

LEMMA UndoLines ==
    ASSUME Structure, NEW c \in Clients, Undo(c)
    PROVE  (\A s \in Records : Line(s)' = Line(s)) /\ acked' = acked
<1>1. PICK r \in Records, n \in Nat \ {0} : r = op[c].rec /\ n = op[c].rev
  BY CallFields DEF Structure, Undo, At
<1>2. /\ op[c] # None /\ op[c].at = "undo" /\ Locked(c) /\ op[c].wrote \in SUBSET Parts
      /\ UNCHANGED <<sealed, acked>>
  BY <1>1, PartUndone
<1>3. PICK x \in op[c].wrote : Undoes(c, r, n, x)
  BY <1>1, PartUndone
<1>4. /\ \A d \in Clients \ {c} : op'[d] = op[d]
      /\ op'[c] = None \/ (op'[c].rec = r /\ op'[c].rev = n /\ op'[c].wrote = op[c].wrote \ {x})
      /\ op[c].wrote \ {x} # {} => op'[c] # None
  BY <1>1, <1>3 DEF Undoes, Becomes, Ends
<1>5. \A s \in Records \ {r} : Line(s)' = Line(s)
  BY <1>1, <1>2, <1>3, <1>4, OtherLines DEF Undoes
<1>6. CASE op[c].wrote \subseteq {"object"}
  <2>1. HotSet(r)' = HotSet(r) /\ Pending(r)' = Pending(r)
    BY <1>3, <1>4, <1>6, PendingKept DEF Undoes
  <2>2. \A m \in Numbers(r) : Revision(r, m)' = Revision(r, m)
    BY <1>2, <1>3, <2>1 DEF Undoes, Revision, Sealed
  <2>3. Numbers(r)' = Numbers(r)
    BY <1>2, <2>1 DEF Numbers, ColdSet, Sealed
  <2> QED
    BY <1>2, <1>5, <2>2, <2>3, LineSame
<1>7. CASE ~(op[c].wrote \subseteq {"object"})
  <2>1. Active(c) /\ op[c].at \in Writing
    BY <1>2, <1>7 DEF Active, Writing
  <2>2. n \in HotSet(r) => "revision" \in op[c].wrote
    BY <1>1, <2>1, WriterKnows
  <2>3. /\ HotSet(r)' \ {n} = HotSet(r) \ {n}
        /\ \A m \in HotSet(r) \ {n} : revs'[r][m] = revs[r][m]
    BY <1>3 DEF Undoes
  <2>4. n \in HotSet(r)' => op'[c] # None /\ "revision" \in op'[c].wrote
    BY <1>3, <1>4, <2>2 DEF Undoes
  <2>5. Line(r)' = Line(r)
    BY <1>1, <1>2, <1>4, <2>1, <2>3, <2>4, LineWrites
  <2> QED
    BY <1>2, <1>5, <2>5
<1> QED
  BY <1>6, <1>7


LEMMA ArchiveLines ==
    ASSUME Structure, NEW c \in Clients, PublishRest(c) \/ RemoveHot(c) \/ FailArchive(c)
    PROVE  \A s \in Records : Line(s)' = Line(s)
<1> USE DEF files, packs, history
<1>1. /\ op[c] # None /\ op[c].at \in Moving
      /\ PublishRest(c) => op[c].at = "publish"
      /\ RemoveHot(c) => op[c].at \in {"whole", "remove"}
      /\ FailArchive(c) => op[c].at \in {"seal", "publish", "whole"}
  BY DEF PublishRest, RemoveHot, FailArchive, At, Moving
<1>2. PICK r \in Records : r = op[c].rec
  BY <1>1, CallFields DEF Structure
<1>3. /\ \A d \in Clients \ {c} : Locked(d) => op[d].rec \notin SameLock(r)
      /\ Stepwise(op[c]) /\ op[c].wrote = {} /\ Pending(r) = {} /\ Whole(r)
      /\ op[c].at \in {"seal", "publish"} => sealed[r] = None
      /\ op[c].at = "whole" => sealed[r] = revs[r]
      /\ op[c].at \in {"whole", "remove"} => HotSet(r) \subseteq ColdSet(r)
  BY <1>1, <1>2, MoverKnows
<1>4. /\ \A d \in Clients \ {c} : op'[d] = op[d]
      /\ op'[c] = None \/ (op'[c].rec = r /\ op'[c].wrote = {})
  <2>1. CASE \E s \in Moving : Goto(c, s)
    <3>1. PICK s \in Steps : Goto(c, s)
      BY <2>1 DEF Moving, Steps
    <3> QED
      BY <1>1, <1>2, <1>3, <3>1, GotoBecomes DEF Structure, Becomes
  <2>2. CASE op' = [op EXCEPT ![c] = None]
    BY <2>2, NoneEnds DEF Structure, Ends
  <2> QED
    BY <2>1, <2>2 DEF PublishRest, RemoveHot, FailArchive, Moving
<1>5. Pending(r)' = {}
  BY <1>3, <1>4, Others
<1>6. /\ Numbers(r) = HotSet(r) \cup ColdSet(r)
      /\ Numbers(r)' = HotSet(r)' \cup ColdSet(r)'
  BY <1>3, <1>5 DEF Numbers
<1>7. CASE PublishRest(c)
  <2>1. /\ sealed'[r] = revs[r] /\ revs' = revs /\ sealed[r] = None
        /\ \A s \in Records \ {r} : sealed'[s] = sealed[s]
    BY <1>1, <1>2, <1>3, <1>7 DEF PublishRest, Structure, Types
  <2>2. HotSet(r)' = HotSet(r) /\ ColdSet(r) = {} /\ ColdSet(r)' \subseteq HotSet(r)
    BY <2>1, EmptyRevisions DEF HotSet, ColdSet, Sealed
  <2>3. Line(r)' = Line(r)
    BY <1>6, <2>1, <2>2, LineSame DEF Revision
  <2> QED
    BY <1>2, <1>4, <2>1, <2>3, OtherLines
<1>8. CASE RemoveHot(c)
  <2>1. /\ sealed' = sealed /\ \A s \in Records \ {r} : revs'[s] = revs[s]
        /\ HotSet(r)' \subseteq HotSet(r)
        /\ \A m \in HotSet(r)' : revs'[r][m] = revs[r][m]
    <3>1. sealed' = sealed
      BY <1>8 DEF RemoveHot
    <3>2. CASE Hot(r)
      <4> DEFINE S == HotSet(r) \ {Min(HotSet(r))}
      <4>1. revs' = [revs EXCEPT ![r] = [i \in S |-> revs[r][i]]]
        BY <1>2, <1>8, <3>2 DEF RemoveHot, HotSet, Structure, Types
      <4> HIDE DEF S
      <4>2. revs'[r] = [i \in S |-> revs[r][i]] /\ \A s \in Records \ {r} : revs'[s] = revs[s]
        BY <4>1 DEF Structure, Types
      <4>3. HotSet(r)' = S
        BY <4>2 DEF HotSet
      <4>4. S \subseteq HotSet(r)
        BY DEF S
      <4> QED
        BY <3>1, <4>2, <4>3, <4>4
    <3>3. CASE ~Hot(r)
      BY <1>2, <1>8, <3>1, <3>3 DEF RemoveHot, HotSet
    <3> QED
      BY <3>2, <3>3
  <2>2. ColdSet(r)' = ColdSet(r) /\ Sealed(r)' = Sealed(r) /\ HotSet(r) \subseteq ColdSet(r)
    BY <1>1, <1>3, <1>8, <2>1 DEF ColdSet, Sealed
  <2>3. Numbers(r)' = Numbers(r)
    BY <1>6, <2>1, <2>2
  \* A hot revision that goes shows the same one in the pack.
  <2>4. \A m \in Numbers(r) : Revision(r, m)' = Revision(r, m)
    <3>1. \A m \in HotSet(r) : revs[r][m] = Sealed(r)[m]
      BY <1>3, <2>2, EmptyRevisions DEF Whole, ColdSet, Sealed
    <3> QED
      BY <2>1, <2>2, <3>1 DEF Revision
  <2>5. Line(r)' = Line(r)
    BY <2>3, <2>4, LineSame
  <2> QED
    BY <1>2, <1>4, <2>1, <2>5, OtherLines
<1>9. CASE FailArchive(c)
  <2>1. /\ sealed'[r] = None /\ revs' = revs
        /\ \A s \in Records \ {r} : sealed'[s] = sealed[s]
        /\ sealed[r] = None \/ sealed[r] = revs[r]
    BY <1>1, <1>2, <1>3, <1>9 DEF FailArchive, Structure, Types
  <2>2. HotSet(r)' = HotSet(r) /\ ColdSet(r) \subseteq HotSet(r) /\ ColdSet(r)' = {}
    BY <2>1, EmptyRevisions DEF HotSet, ColdSet, Sealed
  <2>3. Line(r)' = Line(r)
    BY <1>6, <2>1, <2>2, LineSame DEF Revision
  <2> QED
    BY <1>2, <1>4, <2>1, <2>3, OtherLines
<1> QED
  BY <1>7, <1>8, <1>9

\* The two steps by which a line can grow: a call that answers, and one that
\* is killed with its revision written.
LEMMA ReturnAdds ==
    ASSUME Structure, Structure', NEW c \in Clients, Return(c) \/ Kill(c)
    PROVE  \/ (\A s \in Records : Line(s)' = Line(s)) /\ acked' = acked
           \/ \E r \in Records, n \in Nat \ {0}, p \in Payloads :
                 /\ DOMAIN Line(r) = 1..(n - 1) /\ Cardinality(DOMAIN Line(r)) = n - 1
                 /\ Line(r)' = [m \in 1..n |-> IF m <= n - 1 THEN Line(r)[m] ELSE p]
                 /\ \A s \in Records \ {r} : Line(s)' = Line(s)
                 /\ acked' = acked \/ acked' = acked \cup {<<r, n>>}
<1> USE DEF files, packs, history
<1>1. op[c] # None /\ op' = [op EXCEPT ![c] = None] /\ UNCHANGED <<revs, sealed>>
  BY DEF Return, Kill, At
<1>2. PICK r \in Records, n \in Nat \ {0} : r = op[c].rec /\ n = op[c].rev
  BY <1>1, CallFields DEF Structure
<1>3. op'[c] = None /\ \A d \in Clients \ {c} : op'[d] = op[d]
  BY <1>1, NoneEnds DEF Structure, Ends
<1>4. \A s \in Records \ {r} : Line(s)' = Line(s)
  BY <1>1, <1>2, <1>3, OtherLines
<1>5. acked' = acked \/ acked' = acked \cup {<<r, n>>}
  BY <1>2 DEF Return, Kill
<1>6. CASE "revision" \in op[c].wrote /\ n \in HotSet(r)
  <2>1. /\ DOMAIN Line(r) = 1..(n - 1) /\ Cardinality(DOMAIN Line(r)) = n - 1
        /\ revs[r][n] \in Payloads
        /\ Line(r)' = [m \in 1..n |-> IF m <= n - 1 THEN Line(r)[m] ELSE revs[r][n]]
    BY <1>1, <1>2, <1>3, <1>6, LineGrows
  <2> QED
    BY <1>4, <1>5, <2>1
<1>7. CASE ~("revision" \in op[c].wrote /\ n \in HotSet(r))
  <2>1. Kill(c) /\ acked' = acked
    <3>1. ~Return(c)
      <4>1. SUFFICES ASSUME op[c].at = "return" PROVE FALSE
        BY DEF Return, At
      <4>2. Active(c) /\ op[c].at \in Writing
        BY <1>1, <4>1 DEF Active, Locked, Unlocked, Writing
      <4>3. n \in HotSet(r) /\ Stepwise(op[c])
        BY <1>2, <4>1, <4>2, WriterKnows
      <4> QED
        BY <1>7, <4>1, <4>3 DEF Stepwise
    <3> QED
      BY <3>1 DEF Kill
  <2>2. CASE "revision" \notin op[c].wrote
    BY <1>1, <1>3, <2>1, <2>2, HandsOff
  <2>3. CASE "revision" \in op[c].wrote /\ n \notin HotSet(r)
    <3>1. Active(c) /\ op[c].at \in Writing
      BY <1>1, <2>3, HolderWrites
    <3>2. HotSet(r)' = HotSet(r)
      BY <1>1 DEF HotSet
    <3>3. Line(r)' = Line(r)
      BY <1>1, <1>2, <1>3, <2>3, <3>1, <3>2, LineWrites
    <3> QED
      BY <1>4, <2>1, <3>3
  <2> QED
    BY <1>7, <2>2, <2>3
<1> QED
  BY <1>6, <1>7

\* The two modules count alike.
LEMMA SameCount == \A S : Promise!Cardinality(S) = Cardinality(S)
  BY DEF Promise!Cardinality, Cardinality

LEMMA StepLines ==
    ASSUME Structure, Structure', [Next]_vars
    PROVE  [Promise!Next]_<<[r \in Records |-> Line(r)], acked>>
<1> USE DEF files, packs, history
<1> DEFINE lines == [r \in Records |-> Line(r)]
<1>1. CASE (\A s \in Records : Line(s)' = Line(s)) /\ acked' = acked
  <2>1. [r \in Records |-> Line(r)'] = [r \in Records |-> Line(r)]
    BY <1>1
  <2> QED
    BY <1>1, <2>1
<1>2. ASSUME NEW r \in Records, NEW n \in Nat \ {0}, NEW p \in Payloads,
             DOMAIN Line(r) = 1..(n - 1), Cardinality(DOMAIN Line(r)) = n - 1,
             Line(r)' = [m \in 1..n |-> IF m <= n - 1 THEN Line(r)[m] ELSE p],
             \A s \in Records \ {r} : Line(s)' = Line(s),
             acked' = acked \/ acked' = acked \cup {<<r, n>>}
      PROVE  Promise!Next
  <2> DEFINE count == Cardinality(DOMAIN lines[r])
  <2>1. lines[r] = Line(r) /\ count = n - 1 /\ count + 1 = n
    BY <1>2
  <2>2. DOMAIN lines[r] = 1..count
    BY <1>2, <2>1
  <2>3. lines' = [lines EXCEPT ![r] =
                     [m \in 1..(count + 1) |-> IF m <= count THEN lines[r][m] ELSE p]]
    <3>1. lines' = [lines EXCEPT ![r] = Line(r)']
      BY <1>2
    <3>2. Line(r)' = [m \in 1..(count + 1) |-> IF m <= count THEN lines[r][m] ELSE p]
      <4> HIDE DEF count, lines
      <4> QED
        BY <1>2, <2>1
    <3> QED
      BY <3>1, <3>2
  <2>4. acked' = acked \/ acked' = acked \cup {<<r, count + 1>>}
    BY <1>2, <2>1
  <2>5. Promise!Add(r, p)
    BY <2>2, <2>3, <2>4, SameCount DEF Promise!Add
  <2> QED
    BY <2>5 DEF Promise!Next
<1>3. CASE UNCHANGED vars
  BY <1>1, <1>3, LineAlone DEF vars, Pending, Line, Sealed
<1>4. ASSUME NEW c \in Clients,
             \/ Create(c) \/ Read(c) \/ Put(c) \/ Lock(c)
             \/ WriteRevision(c) \/ WriteEvent(c)
             \/ Fail(c) \/ Undo(c)
             \/ StartArchive(c) \/ PublishSome(c) \/ PublishRest(c) \/ RemoveHot(c)
             \/ FailArchive(c)
      PROVE  (\A s \in Records : Line(s)' = Line(s)) /\ acked' = acked
  <2>1. CASE Create(c) \/ Read(c) \/ StartArchive(c)
    BY <2>1, BeginLines DEF Create, Read, StartArchive
  <2>2. CASE Put(c) \/ Lock(c) \/ PublishSome(c)
    BY <2>2, WaitingLines DEF Put, Lock, PublishSome
  <2>3. CASE WriteRevision(c) \/ Undo(c)
    BY <2>3, WriteRevisionLines, UndoLines
  <2>4. CASE WriteEvent(c) \/ Fail(c)
    BY <2>4, WriteEventLines DEF WriteEvent, Fail
  <2>5. CASE PublishRest(c) \/ RemoveHot(c) \/ FailArchive(c)
    BY <2>5, ArchiveLines DEF PublishRest, RemoveHot, FailArchive
  <2> QED
    BY <1>4, <2>1, <2>2, <2>3, <2>4, <2>5
<1>5. ASSUME NEW c \in Clients, Return(c) \/ Kill(c)
      PROVE  [Promise!Next]_<<lines, acked>>
  <2>1. CASE (\A s \in Records : Line(s)' = Line(s)) /\ acked' = acked
    BY <1>1, <2>1
  <2>2. CASE ~((\A s \in Records : Line(s)' = Line(s)) /\ acked' = acked)
    <3>1. PICK r \in Records, n \in Nat \ {0}, p \in Payloads :
             /\ DOMAIN Line(r) = 1..(n - 1) /\ Cardinality(DOMAIN Line(r)) = n - 1
             /\ Line(r)' = [m \in 1..n |-> IF m <= n - 1 THEN Line(r)[m] ELSE p]
             /\ \A s \in Records \ {r} : Line(s)' = Line(s)
             /\ acked' = acked \/ acked' = acked \cup {<<r, n>>}
      BY <1>5, <2>2, ReturnAdds
    <3>2. Promise!Next
      BY <1>2, <3>1
    <3> QED
      BY <3>2
  <2> QED
    BY <2>1, <2>2
<1> QED
  BY <1>1, <1>3, <1>4, <1>5 DEF Next

\* Whatever fails, is killed or races: a call adds one revision at the end of
\* one Record's line or changes no line, and what was acknowledged stays in it.
THEOREM RecordsAreLines == Spec => ImplementsRevisionLines
<1>1. Init => Promise!Init
  <2> SUFFICES ASSUME Init PROVE Promise!Init
    OBVIOUS
  <2>1. acked = {}
    BY DEF Init
  <2>2. ASSUME NEW r \in Records PROVE Line(r) = <<>>
    <3>1. revs[r] = <<>> /\ Sealed(r) = <<>>
      BY DEF Init, Sealed
    <3>2. Line(r) = [n \in {} |-> IF n \in DOMAIN revs[r] THEN revs[r][n] ELSE Sealed(r)[n]]
      BY <3>1, EmptyRevisions DEF Line
    <3> QED
      BY <3>2
  <2> QED
    BY <2>1, <2>2 DEF Promise!Init
<1> QED
  BY <1>1, AlwaysStructure, StepLines, PTL DEF Spec, ImplementsRevisionLines, Promise!Spec


---------------------------------------------------------------------------
(* The bytes *)

\* What a call that is moved on by its step still has to do with the objects.
Holds(c) ==
    /\ Uses(c)' => Uses(c) /\ op'[c].new = op[c].new
    /\ \A x : Owns(c, x)' => Owns(c, x) /\ op'[c].rec = op[c].rec /\ op'[c].rev = op[c].rev

\* A step that stores no object, takes none back and writes no revision.
LEMMA BytesFrame ==
    ASSUME Bytes, NEW c \in Clients, \A d \in Clients \ {c} : op'[d] = op[d], Holds(c),
           \A r \in Records : \A n \in HotSet(r)' :
              /\ n \in HotSet(r) /\ revs'[r][n] = revs[r][n]
              /\ /\ op[c] # None /\ op[c].rec = r /\ op[c].rev = n /\ "revision" \in op[c].wrote
                 /\ op'[c] # None
                 => "revision" \in op'[c].wrote,
           \A r \in Records : \A n \in ColdSet(r)' : n \in ColdSet(r) /\ sealed'[r][n] = sealed[r][n],
           UNCHANGED <<objects, contested>>
    PROVE  Bytes'
<1>1. ASSUME NEW d \in Clients PROVE Uses(d)' => Uses(d) /\ op'[d].new = op[d].new
  BY DEF Holds, Uses
<1>2. ASSUME NEW d \in Clients, NEW x PROVE Owns(d, x)' => Owns(d, x)
  BY DEF Holds, Owns
<1>3. \A d \in Clients : Uses(d)' => (op[d].new.of \in Kept)'
  BY <1>1 DEF Bytes, Kept
<1>4. \A d, e \in Clients :
         d # e /\ Uses(d)' /\ Owns(e, op[d].new.of)' => (op[d].new.of \in contested)'
  BY <1>1, <1>2 DEF Bytes
<1>5. \A r \in Records : \A n \in HotSet(r)' : revs'[r][n].local =>
          /\ (revs[r][n].of \in Kept)'
          /\ \A d \in Clients : Owns(d, revs[r][n].of)' =>
                \/ revs'[r][n].of \in contested'
                \/ op'[d].rec = r /\ op'[d].rev = n /\ "revision" \in op'[d].wrote
  <2> SUFFICES ASSUME NEW r \in Records, NEW n \in HotSet(r)', revs'[r][n].local
               PROVE  /\ (revs[r][n].of \in Kept)'
                      /\ \A d \in Clients : Owns(d, revs[r][n].of)' =>
                            \/ revs'[r][n].of \in contested'
                            \/ op'[d].rec = r /\ op'[d].rev = n /\ "revision" \in op'[d].wrote
    OBVIOUS
  <2>1. n \in HotSet(r) /\ revs'[r][n] = revs[r][n]
    OBVIOUS
  <2>2. revs[r][n].of \in Kept
    BY <2>1 DEF Bytes
  <2>3. ASSUME NEW d \in Clients, Owns(d, revs[r][n].of)', revs'[r][n].of \notin contested'
        PROVE  op'[d].rec = r /\ op'[d].rev = n /\ "revision" \in op'[d].wrote
    <3>1. Owns(d, revs[r][n].of)
      <4>1. PICK x : x = revs[r][n].of
        OBVIOUS
      <4>2. Owns(d, x)'
        BY <2>1, <2>3, <4>1 DEF Owns
      <4> QED
        BY <1>2, <4>1, <4>2
    <3>2. op[d].rec = r /\ op[d].rev = n /\ "revision" \in op[d].wrote
      BY <2>1, <2>3, <3>1 DEF Bytes
    <3>3. CASE d # c
      BY <3>2, <3>3
    <3>4. CASE d = c
      <4>1. op'[c] # None /\ op'[c].rec = op[c].rec /\ op'[c].rev = op[c].rev
        BY <2>3, <3>4 DEF Holds, Owns
      <4>2. op[c] # None
        BY <3>1, <3>4 DEF Owns
      <4> QED
        BY <2>1, <3>2, <3>4, <4>1, <4>2
    <3> QED
      BY <3>3, <3>4
  <2>4. (revs[r][n].of \in Kept)'
    BY <2>1, <2>2 DEF Kept
  <2> QED
    BY <2>3, <2>4
<1>6. \A r \in Records : \A n \in ColdSet(r)' : sealed'[r][n].local =>
          /\ (sealed[r][n].of \in Kept)'
          /\ \A d \in Clients : Owns(d, sealed[r][n].of)' => sealed'[r][n].of \in contested'
  BY <1>2 DEF Bytes, Kept
<1> QED
  BY <1>3, <1>4, <1>5, <1>6 DEF Bytes

LEMMA InitBytes ==
    ASSUME Init
    PROVE  Bytes
<1>1. \A c \in Clients : op[c] = None
  BY DEF Init
<1>2. \A r \in Records : HotSet(r) = {} /\ ColdSet(r) = {}
  BY EmptyRevisions DEF Init, HotSet, ColdSet, Sealed
<1> QED
  BY <1>1, <1>2 DEF Bytes, Uses, Owns

\* Files that stay as they are.
LEMMA SameFiles ==
    ASSUME Bytes, NEW c \in Clients, \A d \in Clients \ {c} : op'[d] = op[d], Holds(c),
           op[c] # None /\ op'[c] # None /\ "revision" \in op[c].wrote => "revision" \in op'[c].wrote,
           UNCHANGED <<revs, sealed, objects, contested>>
    PROVE  Bytes'
<1>1. \A r \in Records : HotSet(r)' = HotSet(r) /\ ColdSet(r)' = ColdSet(r)
  BY DEF HotSet, ColdSet, Sealed
<1> QED
  BY <1>1, BytesFrame

LEMMA BeginBytes ==
    ASSUME Structure, Bytes, NEW c \in Clients, Create(c) \/ Read(c) \/ StartArchive(c)
    PROVE  Bytes'
<1> USE DEF files, packs, history
<1>1. op[c] = None /\ UNCHANGED <<revs, sealed, objects, contested>>
  BY DEF Create, Read, StartArchive
<1>2. ASSUME NEW do, NEW r, NEW n, NEW basis, NEW p, NEW at,
             op' = [op EXCEPT ![c] = Call(do, r, n, basis, p, at)],
             do = "archive" \/ at \in {"object", "put"} \/ ~p.local
      PROVE  Bytes'
  <2>1. /\ \A d \in Clients \ {c} : op'[d] = op[d]
        /\ op'[c] = Call(do, r, n, basis, p, at)
    BY <1>2 DEF Structure, Types
  <2>2. /\ op'[c].wrote = {} /\ op'[c].do = do /\ op'[c].at = at /\ op'[c].new = p
    BY <2>1 DEF Call
  <2>3. ~Uses(c)' /\ \A x : ~Owns(c, x)'
    BY <1>2, <2>2 DEF Uses, Owns
  <2>4. Holds(c)
    BY <2>3 DEF Holds
  <2> QED
    BY <1>1, <2>1, <2>4, SameFiles
<1>3. CASE Create(c)
  <2>1. PICK r \in Records : \E p \in PayloadsOf(r, FALSE) : op' = [op EXCEPT ![c] =
           Call("create", r, 1, None, p, IF p.local THEN "object" ELSE "revision")]
    BY <1>3 DEF Create
  <2>2. PICK p \in PayloadsOf(r, FALSE) : op' = [op EXCEPT ![c] =
           Call("create", r, 1, None, p, IF p.local THEN "object" ELSE "revision")]
    BY <2>1
  <2> QED
    BY <1>2, <2>2
<1>4. CASE Read(c)
  <2>1. PICK r \in Records, do \in {"revise", "import"} :
           \E p \in PayloadsOf(r, Current(r).cold) : op' = [op EXCEPT ![c] =
              Call(do, r, Last(r) + 1, Current(r), p, IF p.local THEN "put" ELSE "wait")]
    BY <1>4 DEF Read
  <2>2. PICK p \in PayloadsOf(r, Current(r).cold) : op' = [op EXCEPT ![c] =
              Call(do, r, Last(r) + 1, Current(r), p, IF p.local THEN "put" ELSE "wait")]
    BY <2>1
  <2> QED
    BY <1>2, <2>2
<1>5. CASE StartArchive(c)
  <2>1. PICK r \in Records :
           op' = [op EXCEPT ![c] = Call("archive", r, Last(r), Top(r), Top(r), "seal")]
    BY <1>5 DEF StartArchive
  <2> QED
    BY <1>2, <2>1
<1> QED
  BY <1>3, <1>4, <1>5


LEMMA GoesOn ==
    ASSUME Structure, Bytes, NEW c \in Clients, op[c] # None, NEW things, NEW at,
           IF things = {} /\ at = "undo" THEN Ends(c) ELSE Becomes(c, things, at),
           "object" \in things => "object" \in op[c].wrote,
           at \in {"wait", "revision", "event", "return"} =>
              op[c].at \in {"wait", "revision", "event", "return"}
    PROVE  Holds(c)
<1>1. CASE Ends(c)
  BY <1>1 DEF Ends, Holds, Uses, Owns
<1>2. CASE Becomes(c, things, at)
  <2>1. /\ op'[c] # None /\ op'[c].do = op[c].do /\ op'[c].rec = op[c].rec /\ op'[c].rev = op[c].rev
        /\ op'[c].new = op[c].new /\ op'[c].wrote = things /\ op'[c].at = at
    BY <1>2 DEF Becomes
  <2> QED
    BY <2>1 DEF Holds, Uses, Owns
<1> QED
  BY <1>1, <1>2

LEMMA LockBytes ==
    ASSUME Structure, Bytes, NEW c \in Clients, Lock(c) \/ PublishSome(c)
    PROVE  Bytes'
<1> USE DEF files, packs, history
<1>1. /\ op[c] # None /\ op[c].at \in {"wait", "seal"}
      /\ UNCHANGED <<revs, sealed, objects, contested>>
  BY DEF Lock, PublishSome, At
<1>2. "revision" \notin op[c].wrote /\ op[c].wrote \in SUBSET Parts
  BY <1>1, CallFields DEF Structure, Stepwise, Moving
<1>3. PICK at : /\ IF op[c].wrote = {} /\ at = "undo" THEN Ends(c) ELSE Becomes(c, op[c].wrote, at)
                /\ at = "revision" => op[c].at = "wait"
                /\ at \in {"revision", "undo", "publish"}
  <2>1. CASE Lock(c) /\ Fits(c)
    <3>1. Becomes(c, op[c].wrote, "revision") /\ op[c].at = "wait"
      BY <1>1, <2>1, GotoBecomes DEF Structure, Lock, Steps, At
    <3> QED
      BY <3>1
  <2>2. CASE Lock(c) /\ ~Fits(c)
    <3>1. IF op[c].wrote = {} THEN Ends(c) ELSE Becomes(c, op[c].wrote, "undo")
      BY <1>1, <1>2, <2>2, RollBackBecomes DEF Structure, Lock
    <3> QED
      BY <3>1
  <2>3. CASE PublishSome(c)
    <3>1. Becomes(c, op[c].wrote, "publish")
      BY <1>1, <2>3, GotoBecomes DEF Structure, PublishSome, Steps
    <3> QED
      BY <3>1
  <2> QED
    BY <2>1, <2>2, <2>3
<1>4. Holds(c)
  BY <1>1, <1>3, GoesOn
<1>5. \A d \in Clients \ {c} : op'[d] = op[d]
  BY <1>3 DEF Becomes, Ends
<1> QED
  BY <1>1, <1>2, <1>4, <1>5, SameFiles

LEMMA WriteEventBytes ==
    ASSUME Structure, Bytes, NEW c \in Clients, WriteEvent(c) \/ Fail(c)
    PROVE  Bytes'
<1> USE DEF files, packs, history
<1>1. /\ op[c] # None /\ UNCHANGED <<revs, sealed, objects, contested>>
      /\ WriteEvent(c) => op[c].at = "event"
  BY DEF WriteEvent, Fail, At
<1>2. CASE RollBack(c, Owned(c))
  <2>1. /\ Owned(c) \in SUBSET Parts
        /\ "object" \in Owned(c) => "object" \in op[c].wrote
        /\ "revision" \in op[c].wrote => "revision" \in Owned(c)
    BY <1>1, OwnedParts DEF Owned, Structure
  <2> HIDE DEF Owned
  <2>2. IF Owned(c) = {} THEN Ends(c) ELSE Becomes(c, Owned(c), "undo")
    BY <1>1, <1>2, <2>1, RollBackBecomes DEF Structure
  <2>3. Holds(c)
    BY <1>1, <2>1, <2>2, GoesOn
  <2>4. /\ \A d \in Clients \ {c} : op'[d] = op[d]
        /\ op'[c] # None /\ "revision" \in op[c].wrote => "revision" \in op'[c].wrote
    BY <2>1, <2>2 DEF Becomes, Ends
  <2> QED
    BY <1>1, <2>3, <2>4, SameFiles
<1>3. CASE WriteEvent(c) /\ op' = [op EXCEPT ![c].wrote = @ \cup {"event"}, ![c].at = "return"]
  <2>1. op[c].wrote \cup {"event"} \in SUBSET Parts /\ "return" \in Steps
    BY <1>1, CallFields DEF Structure, Parts, Steps
  <2>2. op' = [op EXCEPT ![c].wrote = op[c].wrote \cup {"event"}, ![c].at = "return"]
    BY <1>3 DEF Structure, Types
  <2>3. Becomes(c, op[c].wrote \cup {"event"}, "return")
    BY <1>1, <2>1, <2>2, WritesBecomes DEF Structure
  <2>4. "object" \in op[c].wrote \cup {"event"} => "object" \in op[c].wrote
    OBVIOUS
  <2>5. Holds(c)
    BY <1>1, <1>3, <2>3, <2>4, GoesOn
  <2>6. /\ \A d \in Clients \ {c} : op'[d] = op[d]
        /\ "revision" \in op[c].wrote => "revision" \in op'[c].wrote
    BY <2>3 DEF Becomes
  <2> QED
    BY <1>1, <2>5, <2>6, SameFiles
<1> QED
  BY <1>2, <1>3 DEF WriteEvent, Fail

LEMMA EndBytes ==
    ASSUME Structure, Bytes, NEW c \in Clients, Return(c) \/ Kill(c)
    PROVE  Bytes'
<1>1. /\ op' = [op EXCEPT ![c] = None] /\ UNCHANGED <<revs, sealed, objects, contested>>
  BY DEF Return, Kill, files, packs
<1>2. op'[c] = None /\ \A d \in Clients \ {c} : op'[d] = op[d]
  BY <1>1, NoneEnds DEF Structure, Ends
<1>3. Holds(c)
  BY <1>2 DEF Holds, Uses, Owns
<1> QED
  BY <1>1, <1>2, <1>3, SameFiles

\* An object that is created belongs to the call that created it; one that is
\* found while its author runs is contested from then on.
LEMMA PutBytes ==
    ASSUME Structure, Bytes, NEW c \in Clients, Put(c)
    PROVE  Bytes'
<1> USE DEF files, packs, history
<1>1. /\ op[c] # None /\ op[c].at \in {"object", "put"} /\ UNCHANGED <<revs, sealed>>
      /\ objects' = objects \cup {op[c].new.of}
      /\ contested' = IF {k \in Clients \ {c} : op[k] # None /\ op[k].new.of = op[c].new.of
                                                /\ "object" \in op[k].wrote} # {}
                      THEN contested \cup {op[c].new.of} ELSE contested
  BY DEF Put
<1>2. PICK x : x = op[c].new.of
  OBVIOUS
<1>3. op[c].wrote = {}
  BY <1>1 DEF Structure, Stepwise, Moving
<1>4. /\ \A d \in Clients \ {c} : op'[d] = op[d]
      /\ op'[c] # None /\ op'[c].new = op[c].new
      /\ "object" \in op'[c].wrote => x \notin objects
  <2> DEFINE w == IF op[c].new.of \in objects THEN op[c].wrote ELSE op[c].wrote \cup {"object"}
             a == IF op[c].at = "object" THEN "revision" ELSE "wait"
  <2>1. Becomes(c, w, a)
    BY PutBecomes DEF Structure
  <2>2. "object" \in w => x \notin objects
    BY <1>2, <1>3
  <2> HIDE DEF w, a
  <2> QED
    BY <2>1, <2>2 DEF Becomes
<1>5. \A d \in Clients \ {c} : Owns(d, x) => x \in contested'
  BY <1>1, <1>2 DEF Owns
<1>6. /\ Kept' = Kept \cup {x} /\ contested \subseteq contested'
  BY <1>1, <1>2 DEF Kept
\* What this call owns, if anything, was nowhere but contested.
<1>7. \A y : Owns(c, y)' => y = x /\ (y \in Kept => y \in contested')
  BY <1>1, <1>2, <1>4 DEF Owns, Kept
<1>8. \A y : ~Owns(c, y)
  BY <1>3 DEF Owns
<1>9. \A d \in Clients \ {c} : /\ Uses(d)' <=> Uses(d)
                               /\ \A y : Owns(d, y)' <=> Owns(d, y)
  BY <1>4 DEF Uses, Owns
<1>10. \A d \in Clients : Uses(d)' => (op[d].new.of \in Kept)'
  <2> SUFFICES ASSUME NEW d \in Clients, Uses(d)' PROVE op'[d].new.of \in Kept'
    OBVIOUS
  <2>1. CASE d = c
    BY <1>2, <1>4, <1>6, <2>1
  <2>2. CASE d # c
    BY <1>4, <1>6, <1>9, <2>2 DEF Bytes
  <2> QED
    BY <2>1, <2>2
<1>11. \A d, e \in Clients :
          d # e /\ Uses(d)' /\ Owns(e, op[d].new.of)' => (op[d].new.of \in contested)'
  <2> SUFFICES ASSUME NEW d \in Clients, NEW e \in Clients, d # e, Uses(d)',
                      NEW y, y = op'[d].new.of, Owns(e, y)'
               PROVE  y \in contested'
    BY DEF Owns
  <2>1. CASE d = c
    BY <1>2, <1>4, <1>5, <1>9, <2>1
  <2>2. CASE e = c
    <3>1. y \in Kept
      BY <1>4, <1>9, <2>2 DEF Bytes
    <3> QED
      BY <1>7, <2>2, <3>1
  <2>3. CASE d # c /\ e # c
    BY <1>4, <1>6, <1>9, <2>3 DEF Bytes
  <2> QED
    BY <2>1, <2>2, <2>3
<1>12. \A r \in Records : HotSet(r)' = HotSet(r) /\ ColdSet(r)' = ColdSet(r)
  BY <1>1 DEF HotSet, ColdSet, Sealed
<1>13. \A r \in Records : \A n \in HotSet(r)' : revs'[r][n].local =>
          /\ (revs[r][n].of \in Kept)'
          /\ \A d \in Clients : Owns(d, revs[r][n].of)' =>
                \/ revs'[r][n].of \in contested'
                \/ op'[d].rec = r /\ op'[d].rev = n /\ "revision" \in op'[d].wrote
  <2> SUFFICES ASSUME NEW r \in Records, NEW n \in HotSet(r), revs[r][n].local,
                      NEW y, y = revs[r][n].of
               PROVE  /\ y \in Kept'
                      /\ \A d \in Clients : Owns(d, y)' =>
                            \/ y \in contested'
                            \/ op'[d].rec = r /\ op'[d].rev = n /\ "revision" \in op'[d].wrote
    BY <1>1, <1>12 DEF Owns
  <2>1. y \in Kept
    BY DEF Bytes
  <2>2. ASSUME NEW d \in Clients \ {c}, Owns(d, y)'
        PROVE  \/ y \in contested'
               \/ op'[d].rec = r /\ op'[d].rev = n /\ "revision" \in op'[d].wrote
    BY <1>4, <1>6, <1>9, <2>2 DEF Bytes
  <2> QED
    BY <1>6, <1>7, <2>1, <2>2
<1>14. \A r \in Records : \A n \in ColdSet(r)' : sealed'[r][n].local =>
          /\ (sealed[r][n].of \in Kept)'
          /\ \A d \in Clients : Owns(d, sealed[r][n].of)' => sealed'[r][n].of \in contested'
  <2> SUFFICES ASSUME NEW r \in Records, NEW n \in ColdSet(r), sealed[r][n].local,
                      NEW y, y = sealed[r][n].of
               PROVE  /\ y \in Kept'
                      /\ \A d \in Clients : Owns(d, y)' => y \in contested'
    BY <1>1, <1>12 DEF Owns
  <2>1. y \in Kept
    BY DEF Bytes
  <2>2. ASSUME NEW d \in Clients \ {c}, Owns(d, y)' PROVE y \in contested'
    BY <1>6, <1>9, <2>2 DEF Bytes
  <2> QED
    BY <1>6, <1>7, <2>1, <2>2
<1> QED
  BY <1>10, <1>11, <1>13, <1>14 DEF Bytes


LEMMA WriteRevisionBytes ==
    ASSUME Structure, Bytes, NEW c \in Clients, WriteRevision(c)
    PROVE  Bytes'
<1>1. PICK r \in Records, n \in Nat \ {0} : r = op[c].rec /\ n = op[c].rev
  BY CallFields DEF Structure, WriteRevision, At
<1>2. /\ op[c] # None /\ op[c].do # "archive" /\ n \notin HotSet(r)
      /\ Becomes(c, op[c].wrote \cup {"revision"}, "event")
      /\ UNCHANGED <<objects, sealed, contested>>
      /\ HotSet(r)' = HotSet(r) \cup {n} /\ revs'[r][n] = op[c].new
      /\ \A m \in HotSet(r) : revs'[r][m] = revs[r][m]
      /\ \A s \in Records \ {r} : revs'[s] = revs[s]
  BY <1>1, RevisionWritten
<1>3. op[c].at = "revision"
  BY DEF WriteRevision, At
<1>4. /\ \A d \in Clients \ {c} : op'[d] = op[d]
      /\ op'[c] # None /\ op'[c].rec = r /\ op'[c].rev = n /\ op'[c].new = op[c].new
      /\ op'[c].do = op[c].do /\ op'[c].wrote = op[c].wrote \cup {"revision"}
  BY <1>1, <1>2 DEF Becomes
<1>5. \A d \in Clients : /\ Uses(d)' => Uses(d)
                         /\ \A y : Owns(d, y)' <=> Owns(d, y)
                         /\ op'[d] # None => /\ op'[d].new = op[d].new /\ op'[d].rec = op[d].rec
                                             /\ op'[d].rev = op[d].rev
                                             /\ op[d].wrote \subseteq op'[d].wrote
  <2> SUFFICES ASSUME NEW d \in Clients
               PROVE  /\ Uses(d)' => Uses(d)
                      /\ \A y : Owns(d, y)' <=> Owns(d, y)
                      /\ op'[d] # None => /\ op'[d].new = op[d].new /\ op'[d].rec = op[d].rec
                                          /\ op'[d].rev = op[d].rev
                                          /\ op[d].wrote \subseteq op'[d].wrote
    OBVIOUS
  <2>1. CASE d = c
    BY <1>1, <1>2, <1>3, <1>4, <2>1 DEF Uses, Owns
  <2>2. CASE d # c
    BY <1>4, <2>2 DEF Uses, Owns
  <2> QED
    BY <2>1, <2>2
<1>6. UNCHANGED Kept
  BY <1>2 DEF Kept
<1>7. \A d \in Clients : Uses(d)' => (op[d].new.of \in Kept)'
  BY <1>5, <1>6 DEF Bytes, Uses
<1>8. \A d, e \in Clients :
         d # e /\ Uses(d)' /\ Owns(e, op[d].new.of)' => (op[d].new.of \in contested)'
  <2> SUFFICES ASSUME NEW d \in Clients, NEW e \in Clients, d # e, Uses(d)',
                      NEW y, y = op'[d].new.of, Owns(e, y)'
               PROVE  y \in contested'
    BY DEF Owns
  <2>1. Uses(d) /\ y = op[d].new.of /\ Owns(e, y)
    BY <1>5 DEF Uses
  <2> QED
    BY <1>2, <2>1 DEF Bytes
<1>9. \A s \in Records : \A m \in HotSet(s)' : revs'[s][m].local =>
          /\ (revs[s][m].of \in Kept)'
          /\ \A d \in Clients : Owns(d, revs[s][m].of)' =>
                \/ revs'[s][m].of \in contested'
                \/ op'[d].rec = s /\ op'[d].rev = m /\ "revision" \in op'[d].wrote
  <2> SUFFICES ASSUME NEW s \in Records, NEW m \in HotSet(s)', revs'[s][m].local,
                      NEW y, y = revs'[s][m].of
               PROVE  /\ y \in Kept'
                      /\ \A d \in Clients : Owns(d, y)' =>
                            \/ y \in contested'
                            \/ op'[d].rec = s /\ op'[d].rev = m /\ "revision" \in op'[d].wrote
    BY DEF Owns
  \* The new revision is the caller's, who may take its object back.
  <2>1. CASE s = r /\ m = n
    <3>1. Uses(c) /\ y = op[c].new.of
      BY <1>2, <1>3, <2>1 DEF Uses
    <3>2. y \in Kept
      BY <3>1 DEF Bytes
    <3>3. ASSUME NEW d \in Clients, Owns(d, y)'
          PROVE  \/ y \in contested'
                 \/ op'[d].rec = s /\ op'[d].rev = m /\ "revision" \in op'[d].wrote
      <4>1. CASE d = c
        BY <1>4, <2>1, <4>1
      <4>2. CASE d # c
        BY <1>2, <1>5, <3>1, <3>3, <4>2 DEF Bytes
      <4> QED
        BY <4>1, <4>2
    <3> QED
      BY <1>6, <3>2, <3>3
  <2>2. CASE ~(s = r /\ m = n)
    <3>1. m \in HotSet(s) /\ revs'[s][m] = revs[s][m]
      BY <1>2, <2>2 DEF HotSet
    <3>2. y \in Kept /\ y = revs[s][m].of
      BY <3>1 DEF Bytes
    <3>3. ASSUME NEW d \in Clients, Owns(d, y)'
          PROVE  \/ y \in contested'
                 \/ op'[d].rec = s /\ op'[d].rev = m /\ "revision" \in op'[d].wrote
      <4>1. Owns(d, y) /\ op'[d] # None
        BY <1>5, <3>3 DEF Owns
      <4>2. y \in contested \/ (op[d].rec = s /\ op[d].rev = m /\ "revision" \in op[d].wrote)
        BY <3>1, <3>2, <4>1 DEF Bytes
      <4> QED
        BY <1>2, <1>5, <4>1, <4>2
    <3> QED
      BY <1>6, <3>2, <3>3
  <2> QED
    BY <2>1, <2>2
<1>10. \A s \in Records : \A m \in ColdSet(s)' : sealed'[s][m].local =>
          /\ (sealed[s][m].of \in Kept)'
          /\ \A d \in Clients : Owns(d, sealed[s][m].of)' => sealed'[s][m].of \in contested'
  <2> SUFFICES ASSUME NEW s \in Records, NEW m \in ColdSet(s), sealed[s][m].local,
                      NEW y, y = sealed[s][m].of
               PROVE  /\ y \in Kept'
                      /\ \A d \in Clients : Owns(d, y)' => y \in contested'
    BY <1>2 DEF Owns, ColdSet, Sealed
  <2> QED
    BY <1>2, <1>5, <1>6 DEF Bytes
<1> QED
  BY <1>7, <1>8, <1>9, <1>10 DEF Bytes

LEMMA UndoBytes ==
    ASSUME Structure, Bytes, NEW c \in Clients, Undo(c)
    PROVE  Bytes'
<1>1. PICK r \in Records, n \in Nat \ {0} : r = op[c].rec /\ n = op[c].rev
  BY CallFields DEF Structure, Undo, At
<1>2. /\ op[c] # None /\ op[c].at = "undo" /\ UNCHANGED <<sealed, contested>>
  BY <1>1, PartUndone
<1>3. PICK x \in op[c].wrote : Undoes(c, r, n, x)
  BY <1>1, PartUndone
<1>4. \A d \in Clients \ {c} : op'[d] = op[d]
  BY <1>3 DEF Undoes, Becomes, Ends
<1>5. \A s \in Records : ColdSet(s)' = ColdSet(s)
  BY <1>2 DEF ColdSet, Sealed
<1>6. \A s \in Records : \A m \in HotSet(s)' : m \in HotSet(s) /\ revs'[s][m] = revs[s][m]
  <2> SUFFICES ASSUME NEW s \in Records
               PROVE  \A m \in HotSet(s)' : m \in HotSet(s) /\ revs'[s][m] = revs[s][m]
    OBVIOUS
  <2>1. CASE s = r
    BY <1>3, <2>1 DEF Undoes
  <2>2. CASE s # r
    BY <1>3, <2>2 DEF Undoes, HotSet
  <2> QED
    BY <2>1, <2>2
<1>7. CASE x # "object"
  <2>1. objects' = objects
    BY <1>3, <1>7 DEF Undoes
  <2>2. "object" \in op[c].wrote \ {x} => "object" \in op[c].wrote
    OBVIOUS
  <2>3. Holds(c)
    <3>1. IF op[c].wrote \ {x} = {} THEN Ends(c) ELSE Becomes(c, op[c].wrote \ {x}, "undo")
      BY <1>3 DEF Undoes
    <3> QED
      BY <1>2, <2>2, <3>1, GoesOn
  \* With the revision its file goes, too.
  <2>4. \A s \in Records : \A m \in HotSet(s)' :
           op[c].rec = s /\ op[c].rev = m /\ "revision" \in op[c].wrote /\ op'[c] # None
              => "revision" \in op'[c].wrote
    <3>1. op'[c] # None => op'[c].wrote = op[c].wrote \ {x}
      BY <1>3 DEF Undoes, Becomes, Ends
    <3>2. x = "revision" => n \notin HotSet(r)'
      BY <1>3 DEF Undoes
    <3> QED
      BY <1>1, <3>1, <3>2
  <2> QED
    BY <1>2, <1>4, <1>5, <1>6, <2>1, <2>3, <2>4, BytesFrame
\* Whoever uses the object that goes, or refers to it, found it contested.
<1>8. CASE x = "object"
  <2>1. PICK y : y = op[c].new.of
    OBVIOUS
  <2>2. op[c].wrote = {"object"} /\ objects' = objects \ {y} /\ op'[c] = None
    BY <1>3, <1>8, <2>1 DEF Undoes, Ends
  <2>3. Owns(c, y)
    BY <1>2, <2>1, <2>2 DEF Owns
  <2>4. \A z \in Kept : z # y \/ z \in contested => z \in Kept'
    BY <1>2, <2>2 DEF Kept
  <2>5. \A d \in Clients : /\ Uses(d)' => d # c /\ Uses(d) /\ op'[d] = op[d]
                           /\ \A z : Owns(d, z)' => d # c /\ Owns(d, z) /\ op'[d] = op[d]
    BY <1>4, <2>2 DEF Uses, Owns
  <2>6. \A d \in Clients : Uses(d)' => (op[d].new.of \in Kept)'
    <3> SUFFICES ASSUME NEW d \in Clients, d # c, Uses(d) PROVE op[d].new.of \in Kept'
      BY <2>5
    <3>1. op[d].new.of \in Kept /\ (op[d].new.of = y => y \in contested)
      BY <2>3 DEF Bytes
    <3> QED
      BY <2>4, <3>1
  <2>7. \A d, e \in Clients :
           d # e /\ Uses(d)' /\ Owns(e, op[d].new.of)' => (op[d].new.of \in contested)'
    <3> SUFFICES ASSUME NEW d \in Clients, NEW e \in Clients, d # e, Uses(d)',
                        NEW z, z = op'[d].new.of, Owns(e, z)'
                 PROVE  z \in contested'
      BY DEF Owns
    <3> QED
      BY <1>2, <2>5 DEF Bytes
  <2>8. \A s \in Records : \A m \in HotSet(s)' : revs'[s][m].local =>
          /\ (revs[s][m].of \in Kept)'
          /\ \A d \in Clients : Owns(d, revs[s][m].of)' =>
                \/ revs'[s][m].of \in contested'
                \/ op'[d].rec = s /\ op'[d].rev = m /\ "revision" \in op'[d].wrote
    <3> SUFFICES ASSUME NEW s \in Records, NEW m \in HotSet(s)', revs'[s][m].local,
                        NEW z, z = revs'[s][m].of
                 PROVE  /\ z \in Kept'
                        /\ \A d \in Clients : Owns(d, z)' =>
                              \/ z \in contested'
                              \/ op'[d].rec = s /\ op'[d].rev = m /\ "revision" \in op'[d].wrote
      BY DEF Owns
    <3>1. m \in HotSet(s) /\ revs'[s][m] = revs[s][m]
      BY <1>6
    <3>2. z \in Kept /\ (z = y => z \in contested)
      BY <2>2, <2>3, <3>1 DEF Bytes
    <3>3. z \in Kept'
      BY <2>4, <3>2
    <3> QED
      BY <1>2, <2>5, <3>1, <3>3 DEF Bytes
  <2>9. \A s \in Records : \A m \in ColdSet(s)' : sealed'[s][m].local =>
          /\ (sealed[s][m].of \in Kept)'
          /\ \A d \in Clients : Owns(d, sealed[s][m].of)' => sealed'[s][m].of \in contested'
    <3> SUFFICES ASSUME NEW s \in Records, NEW m \in ColdSet(s), sealed[s][m].local,
                        NEW z, z = sealed[s][m].of
                 PROVE  /\ z \in Kept'
                        /\ \A d \in Clients : Owns(d, z)' => z \in contested'
      BY <1>2, <1>5 DEF Owns
    <3>1. z \in Kept /\ (z = y => z \in contested)
      BY <2>3 DEF Bytes
    <3>2. z \in Kept'
      BY <2>4, <3>1
    <3> QED
      BY <1>2, <2>5, <3>2 DEF Bytes
  <2> QED
    BY <2>6, <2>7, <2>8, <2>9 DEF Bytes
<1> QED
  BY <1>7, <1>8

LEMMA ArchiveBytes ==
    ASSUME Structure, Bytes, NEW c \in Clients, RemoveHot(c) \/ FailArchive(c)
    PROVE  Bytes'
<1> USE DEF files, packs, history
<1>1. /\ op[c] # None /\ op[c].at \in Moving /\ UNCHANGED <<objects, contested>>
  BY DEF RemoveHot, FailArchive, Moving
<1>2. PICK r \in Records : r = op[c].rec
  BY <1>1, CallFields DEF Structure
<1>3. op[c].do = "archive" /\ op[c].wrote = {}
  BY <1>1, <1>2, MoverKnows
<1>4. /\ \A d \in Clients \ {c} : op'[d] = op[d]
      /\ op'[c] = None \/ (op'[c].do = "archive" /\ op'[c].wrote = {})
  <2>1. CASE Goto(c, "remove")
    BY <1>1, <1>3, <2>1, GotoBecomes DEF Structure, Becomes, Steps
  <2>2. CASE op' = [op EXCEPT ![c] = None]
    BY <2>2, NoneEnds DEF Structure, Ends
  <2> QED
    BY <2>1, <2>2 DEF RemoveHot, FailArchive
<1>5. Holds(c)
  BY <1>4 DEF Holds, Uses, Owns
<1>6. \A s \in Records : \A m \in HotSet(s)' : m \in HotSet(s) /\ revs'[s][m] = revs[s][m]
  <2>1. CASE revs' = revs
    BY <2>1 DEF HotSet
  <2>2. CASE RemoveHot(c) /\ Hot(r)
    <3> DEFINE S == HotSet(r) \ {Min(HotSet(r))}
    <3>1. revs' = [revs EXCEPT ![r] = [i \in S |-> revs[r][i]]]
      BY <1>2, <2>2 DEF RemoveHot, HotSet, Structure, Types
    <3>2. S \subseteq HotSet(r)
      OBVIOUS
    <3> HIDE DEF S
    <3>3. revs'[r] = [i \in S |-> revs[r][i]] /\ \A s \in Records \ {r} : revs'[s] = revs[s]
      BY <3>1 DEF Structure, Types
    <3> QED
      BY <3>2, <3>3 DEF HotSet
  <2> QED
    BY <1>2, <2>1, <2>2 DEF RemoveHot, FailArchive
<1>7. \A s \in Records : \A m \in ColdSet(s)' : m \in ColdSet(s) /\ sealed'[s][m] = sealed[s][m]
  <2>1. CASE sealed' = sealed
    BY <2>1 DEF ColdSet, Sealed
  <2>2. CASE sealed' = [sealed EXCEPT ![r] = None]
    <3>1. sealed'[r] = None /\ \A s \in Records \ {r} : sealed'[s] = sealed[s]
      BY <2>2 DEF Structure, Types
    <3> QED
      BY <3>1, EmptyRevisions DEF ColdSet, Sealed
  <2> QED
    BY <1>2, <2>1, <2>2 DEF RemoveHot, FailArchive
<1> QED
  BY <1>1, <1>3, <1>4, <1>5, <1>6, <1>7, BytesFrame

\* The pack has what the hot tier had, of which no call has any part in hand.
LEMMA PublishRestBytes ==
    ASSUME Structure, Bytes, NEW c \in Clients, PublishRest(c)
    PROVE  Bytes'
<1> USE DEF files, packs, history
<1>1. /\ op[c] # None /\ op[c].at = "publish" /\ op[c].at \in Moving /\ Goto(c, "whole")
      /\ UNCHANGED <<revs, objects, contested>>
  BY DEF PublishRest, At, Moving
<1>2. PICK r \in Records : r = op[c].rec
  BY <1>1, CallFields DEF Structure
<1>3. op[c].do = "archive" /\ op[c].wrote = {} /\ Pending(r) = {}
  BY <1>1, <1>2, MoverKnows
<1>4. /\ \A d \in Clients \ {c} : op'[d] = op[d]
      /\ op'[c].do = "archive" /\ op'[c].wrote = {}
  BY <1>1, <1>3, GotoBecomes DEF Structure, Becomes, Steps
<1>5. sealed'[r] = revs[r] /\ \A s \in Records \ {r} : sealed'[s] = sealed[s]
  BY <1>2 DEF PublishRest, Structure, Types
<1>6. \A d \in Clients : /\ Uses(d)' => Uses(d) /\ op'[d] = op[d]
                         /\ \A y : Owns(d, y)' => Owns(d, y) /\ op'[d] = op[d]
  BY <1>4 DEF Uses, Owns
<1>7. \A d \in Clients : Uses(d)' => (op[d].new.of \in Kept)'
  BY <1>1, <1>6 DEF Bytes, Kept
<1>8. \A d, e \in Clients :
         d # e /\ Uses(d)' /\ Owns(e, op[d].new.of)' => (op[d].new.of \in contested)'
  <2> SUFFICES ASSUME NEW d \in Clients, NEW e \in Clients, d # e, Uses(d)',
                      NEW y, y = op'[d].new.of, Owns(e, y)'
               PROVE  y \in contested'
    BY DEF Owns
  <2> QED
    BY <1>1, <1>6 DEF Bytes
<1>9. \A s \in Records : \A m \in HotSet(s)' : revs'[s][m].local =>
          /\ (revs[s][m].of \in Kept)'
          /\ \A d \in Clients : Owns(d, revs[s][m].of)' =>
                \/ revs'[s][m].of \in contested'
                \/ op'[d].rec = s /\ op'[d].rev = m /\ "revision" \in op'[d].wrote
  <2> SUFFICES ASSUME NEW s \in Records, NEW m \in HotSet(s), revs[s][m].local,
                      NEW y, y = revs[s][m].of
               PROVE  /\ y \in Kept'
                      /\ \A d \in Clients : Owns(d, y)' =>
                            \/ y \in contested'
                            \/ op'[d].rec = s /\ op'[d].rev = m /\ "revision" \in op'[d].wrote
    BY <1>1 DEF Owns, HotSet
  <2> QED
    BY <1>1, <1>6 DEF Bytes, Kept
<1>10. \A s \in Records : \A m \in ColdSet(s)' : sealed'[s][m].local =>
          /\ (sealed[s][m].of \in Kept)'
          /\ \A d \in Clients : Owns(d, sealed[s][m].of)' => sealed'[s][m].of \in contested'
  <2> SUFFICES ASSUME NEW s \in Records, NEW m \in ColdSet(s)', sealed'[s][m].local,
                      NEW y, y = sealed'[s][m].of
               PROVE  /\ y \in Kept'
                      /\ \A d \in Clients : Owns(d, y)' => y \in contested'
    BY DEF Owns
  <2>1. CASE s # r
    <3>1. m \in ColdSet(s) /\ sealed'[s] = sealed[s]
      BY <1>5, <2>1 DEF ColdSet, Sealed
    <3> QED
      BY <1>1, <1>6, <3>1 DEF Bytes, Kept
  <2>2. CASE s = r
    <3>1. m \in HotSet(r) /\ sealed'[r][m] = revs[r][m]
      BY <1>5, <2>2, EmptyRevisions DEF ColdSet, HotSet, Sealed
    <3>2. y \in Kept
      BY <2>2, <3>1 DEF Bytes
    <3>3. ASSUME NEW d \in Clients, Owns(d, y)' PROVE y \in contested
      <4>1. Owns(d, y)
        BY <1>6, <3>3
      <4>2. y \in contested \/ (op[d].rec = r /\ "revision" \in op[d].wrote)
        BY <2>2, <3>1, <4>1 DEF Bytes
      <4>3. ~(op[d] # None /\ op[d].rec = r /\ "revision" \in op[d].wrote)
        BY <1>3, PendingIs
      <4> QED
        BY <4>1, <4>2, <4>3 DEF Owns
    <3> QED
      BY <1>1, <3>2, <3>3 DEF Kept
  <2> QED
    BY <2>1, <2>2
<1> QED
  BY <1>7, <1>8, <1>9, <1>10 DEF Bytes

LEMMA StepBytes == Structure /\ Bytes /\ [Next]_vars => Bytes'
<1> SUFFICES ASSUME Structure, Bytes, [Next]_vars PROVE Bytes'
  OBVIOUS
<1>1. CASE UNCHANGED vars
  <2>1. UNCHANGED <<op, revs, sealed, objects, contested>>
    BY <1>1 DEF vars
  <2>2. \A r \in Records : HotSet(r)' = HotSet(r) /\ ColdSet(r)' = ColdSet(r)
    BY <2>1 DEF HotSet, ColdSet, Sealed
  <2>3. \A d \in Clients : (Uses(d)' <=> Uses(d)) /\ \A x : Owns(d, x)' <=> Owns(d, x)
    BY <2>1 DEF Uses, Owns
  <2> QED
    BY <2>1, <2>2 DEF Bytes, Uses, Owns, Kept
<1>2. ASSUME NEW c \in Clients,
             \/ Create(c) \/ Read(c) \/ Put(c) \/ Lock(c)
             \/ WriteRevision(c) \/ WriteEvent(c) \/ Return(c)
             \/ Fail(c) \/ Undo(c) \/ Kill(c)
             \/ StartArchive(c) \/ PublishSome(c) \/ PublishRest(c) \/ RemoveHot(c)
             \/ FailArchive(c)
      PROVE  Bytes'
  BY <1>2, BeginBytes, PutBytes, LockBytes, WriteRevisionBytes, WriteEventBytes, EndBytes,
     UndoBytes, ArchiveBytes, PublishRestBytes
<1> QED
  BY <1>1, <1>2 DEF Next

\* The local bytes of every revision, in either tier, are in the object store,
\* unless two calls were storing the same bytes at once: no call that rolls
\* back removes bytes another Record's revision refers to.
THEOREM AlwaysBytesKept == Spec => []BytesKept
<1>1. Init => Bytes
  BY InitBytes
<1>2. Bytes => BytesKept
  <2> SUFFICES ASSUME Bytes, NEW x \in Referenced PROVE x \in Kept
    BY DEF BytesKept, Kept
  <2>1. PICK r \in Records : x \in Local(Line(r))
    BY DEF Referenced
  <2>2. PICK n \in DOMAIN Line(r) : Line(r)[n].local /\ x = Line(r)[n].of
    BY <2>1 DEF Local
  <2>3. n \in Numbers(r) /\ Line(r)[n] = Revision(r, n)
    BY LineIs
  <2>4. CASE n \in HotSet(r)
    BY <2>2, <2>3, <2>4 DEF Bytes, Revision
  <2>5. CASE n \notin HotSet(r)
    <3>1. n \in ColdSet(r) /\ Line(r)[n] = Sealed(r)[n]
      BY <2>3, <2>5 DEF Numbers, Revision
    <3>2. Sealed(r) = sealed[r]
      BY <3>1, EmptyRevisions DEF ColdSet, Sealed
    <3> QED
      BY <2>2, <3>1, <3>2 DEF Bytes
  <2> QED
    BY <2>4, <2>5
<1> QED
  BY <1>1, <1>2, AlwaysStructure, StepBytes, PTL DEF Spec

=============================================================================
