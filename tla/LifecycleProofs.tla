-------------------------- MODULE LifecycleProofs --------------------------
(***************************************************************************)
(* Lifecycle, for every set of tasks and processes: its types, the         *)
(* completion rule, and that every cycle of hot tasks goes through one     *)
(* whose edges no up-to-date cycle check has seen.                         *)
(*                                                                         *)
(* CyclesAreUntested gives each task w a region S that it cannot come back *)
(* from.  The proof follows those regions through each call.  What makes   *)
(* an applied request harmless is what its check found out: the tasks that *)
(* do not lead to its target form a region too, and hold the new blockers. *)
(***************************************************************************)
EXTENDS Lifecycle, TLAPS

---------------------------------------------------------------------------
(* Types *)

\* A write keeps the types of what it changes, the board's tiers aside.
LEMMA WriteType ==
    ASSUME TypeOK,
           NEW p, NEW S \in SUBSET Tasks, NEW s \in Statuses,
           NEW B, \A t \in S : B[t] \in SUBSET Tasks,
           Write(p, S, s, B)
    PROVE  /\ status' \in [Tasks -> Statuses]
           /\ blockers' \in [Tasks -> SUBSET Tasks]
           /\ request' \in [Procs -> Requests \cup {None}]
           /\ admission' \in Receipts \cup {None}
<1>1. status' \in [Tasks -> Statuses]
  BY DEF Write, TypeOK
<1>2. blockers' \in [Tasks -> SUBSET Tasks]
  BY DEF Write, TypeOK
<1>3. request' \in [Procs -> Requests \cup {None}]
  <2> SUFFICES ASSUME NEW q \in Procs, q # p, request[q] # None
               PROVE  [request[q] EXCEPT !.tested = @ /\ \A t \in S : B[t] = blockers[t]] \in Requests
    BY DEF Write
  <2>1. request[q] \in Requests
    BY DEF TypeOK
  <2>2. (request[q].tested /\ \A t \in S : B[t] = blockers[t]) \in BOOLEAN
    OBVIOUS
  <2> QED
    BY <2>1, <2>2 DEF Requests
<1>4. admission' \in Receipts \cup {None}
  <2>1. CASE admission = None
    BY <2>1 DEF Write
  <2>2. CASE admission # None
    <3>1. admission \in Receipts
      BY <2>2 DEF TypeOK
    <3> QED
      BY <2>2, <3>1 DEF Write, Receipts
  <2> QED
    BY <2>1, <2>2
<1> QED
  BY <1>1, <1>2, <1>3, <1>4

LEMMA UpdateType ==
    ASSUME TypeOK,
           NEW p, NEW t \in Tasks, NEW s \in Statuses, NEW B \in SUBSET Tasks,
           Update(p, t, s, B)
    PROVE  /\ tier' = tier /\ blamed' \subseteq Tasks
           /\ status' \in [Tasks -> Statuses]
           /\ blockers' \in [Tasks -> SUBSET Tasks]
           /\ request' \in [Procs -> Requests \cup {None}]
           /\ admission' \in Receipts \cup {None}
<1>1. {t} \in SUBSET Tasks /\ \A u \in {t} : Set1(t, B)[u] \in SUBSET Tasks
  BY DEF Set1
<1>2. Write(p, {t}, s, Set1(t, B))
  BY DEF Update
<1>3. tier' = tier /\ blamed' \subseteq Tasks
  BY DEF Update, Checked, TypeOK
<1> QED
  BY <1>1, <1>2, <1>3, WriteType

LEMMA AskType ==
    ASSUME TypeOK,
           NEW p \in Procs, NEW t \in Tasks, NEW s \in Statuses \cup {None},
           NEW B \in SUBSET Tasks, NEW w \in BOOLEAN,
           Ask(p, t, s, B, w)
    PROVE  TypeOK'
<1>1. [task |-> t, status |-> s, blockers |-> B, whole |-> w, tested |-> TRUE] \in Requests
  BY DEF Requests
<1>2. request' \in [Procs -> Requests \cup {None}]
  BY <1>1 DEF Ask, TypeOK
<1> QED
  BY <1>2 DEF Ask, TypeOK, board

LEMMA NextType ==
    ASSUME TypeOK, Next
    PROVE  TypeOK'
<1>1. ASSUME NEW p \in Procs, AskDepsAdd(p)
      PROVE  TypeOK'
  <2>1. PICK t \in Tasks, new \in SUBSET Tasks : Ask(p, t, None, blockers[t] \cup new, FALSE)
    BY <1>1 DEF AskDepsAdd
  <2>2. blockers[t] \cup new \in SUBSET Tasks
    BY DEF TypeOK
  <2> QED
    BY <2>1, <2>2, AskType
<1>2. ASSUME NEW p \in Procs, AskDepsRemove(p)
      PROVE  TypeOK'
  <2>0. PICK t \in Tasks :
            \E old \in SUBSET blockers[t] : Ask(p, t, None, blockers[t] \ old, FALSE)
    BY <1>2 DEF AskDepsRemove
  <2>1. PICK old \in SUBSET blockers[t] : Ask(p, t, None, blockers[t] \ old, FALSE)
    BY <2>0
  <2>2. blockers[t] \ old \in SUBSET Tasks
    BY DEF TypeOK
  <2> QED
    BY <2>1, <2>2, AskType
<1>3. ASSUME NEW p \in Procs, AskUpdate(p)
      PROVE  TypeOK'
  <2>1. PICK t \in Tasks, s \in Statuses \cup {None}, B \in SUBSET Tasks : Ask(p, t, s, B, TRUE)
    BY <1>3 DEF AskUpdate
  <2> QED
    BY <2>1, AskType
<1>4. ASSUME NEW p \in Procs, ApplyRequest(p)
      PROVE  TypeOK'
  <2> DEFINE r == request[p]
             s == IF r.status = None THEN status[r.task] ELSE r.status
  <2>1. r \in Requests
    BY <1>4 DEF ApplyRequest, TypeOK
  <2>2. r.task \in Tasks /\ r.blockers \in SUBSET Tasks /\ r.status \in Statuses \cup {None}
    BY <2>1 DEF Requests
  <2>3. s \in Statuses
    BY <2>2 DEF TypeOK
  <2>4. Update(p, r.task, s, r.blockers)
    BY <1>4 DEF ApplyRequest
  <2>5. untested' \subseteq Tasks
    BY <1>4, <2>2 DEF ApplyRequest, TypeOK
  <2> HIDE DEF r, s
  <2> QED
    BY <2>2, <2>3, <2>4, <2>5, UpdateType DEF TypeOK
<1>5. ASSUME NEW p \in Procs, Abandon(p)
      PROVE  TypeOK'
  BY <1>5 DEF Abandon, TypeOK, board
<1>6. ASSUME NEW t \in Tasks, SetStatus(t)
      PROVE  TypeOK'
  <2>1. PICK s \in Statuses : Update(None, t, s, blockers[t])
    BY <1>6 DEF SetStatus
  <2>2. blockers[t] \in SUBSET Tasks
    BY DEF TypeOK
  <2>3. untested' = untested
    BY <1>6 DEF SetStatus
  <2> QED
    BY <2>1, <2>2, <2>3, UpdateType DEF TypeOK
<1>7. ASSUME NEW t \in Tasks, ExactReplace(t)
      PROVE  TypeOK'
  <2>1. PICK s \in Statuses, B \in SUBSET Tasks : Write(None, {t}, s, Set1(t, B))
    BY <1>7 DEF ExactReplace, TypeOK
  <2>2. {t} \in SUBSET Tasks /\ \A u \in {t} : Set1(t, B)[u] \in SUBSET Tasks
    BY DEF Set1
  <2>3. tier' = tier /\ untested' \subseteq Tasks
    BY <1>7 DEF ExactReplace, TypeOK
  <2>4. blamed' \subseteq Tasks
    BY <1>7 DEF ExactReplace, Unverified, Broken, TypeOK
  <2> QED
    BY <2>1, <2>2, <2>3, <2>4, WriteType DEF TypeOK
<1>8. ASSUME NEW t \in Tasks, Create(t)
      PROVE  TypeOK'
  <2>1. PICK s \in Statuses, B \in SUBSET Tasks : Write(None, {t}, s, Set1(t, B))
    BY <1>8 DEF Create
  <2>2. {t} \in SUBSET Tasks /\ \A u \in {t} : Set1(t, B)[u] \in SUBSET Tasks
    BY DEF Set1
  <2>3. tier' \in [Tasks -> {"none", "hot", "cold"}] /\ untested' = untested /\ blamed' \subseteq Tasks
    BY <1>8 DEF Create, Checked, TypeOK
  <2> QED
    BY <2>1, <2>2, <2>3, WriteType DEF TypeOK
<1>9. ASSUME NEW t \in Tasks, ReplaceRecord(t)
      PROVE  TypeOK'
  <2>1. PICK s \in Statuses, B \in SUBSET Tasks : Update(None, t, s, B)
    BY <1>9 DEF ReplaceRecord
  <2>2. untested' \subseteq Tasks
    BY <1>9 DEF ReplaceRecord, TypeOK
  <2> QED
    BY <2>1, <2>2, UpdateType DEF TypeOK
<1>10. ASSUME NEW t \in Tasks, Delete(t)
       PROVE  TypeOK'
  <2>1. Write(None, {t}, "todo", Set1(t, {})) /\ "todo" \in Statuses
    BY <1>10, StatusesAssumption DEF Delete
  <2>2. {t} \in SUBSET Tasks /\ \A u \in {t} : Set1(t, {})[u] \in SUBSET Tasks
    BY DEF Set1
  <2>3. tier' \in [Tasks -> {"none", "hot", "cold"}] /\ untested' \subseteq Tasks
    BY <1>10 DEF Delete, TypeOK
  <2>4. blamed' \subseteq Tasks
    BY <1>10 DEF Delete, Unverified, Broken, TypeOK
  <2> QED
    BY <2>1, <2>2, <2>3, <2>4, WriteType DEF TypeOK
<1>11. ASSUME NEW t \in Tasks, ArchiveRecord(t)
       PROVE  TypeOK'
  BY <1>11 DEF ArchiveRecord, Checked, TypeOK
<1>12. ASSUME Admit
       PROVE  TypeOK'
  <2>1. PICK u \in Umbrellas, C \in SUBSET Tasks :
            admission' = [umbrella |-> u, children |-> C, current |-> C \cup {u}]
    BY <1>12 DEF Admit
  <2>2. admission' \in Receipts
    BY <2>1, UmbrellasAssumption DEF Receipts
  <2> QED
    BY <1>12, <2>2 DEF Admit, TypeOK, board
<1>13. ASSUME Finalize
       PROVE  TypeOK'
  <2>1. admission \in Receipts
    BY <1>13 DEF Finalize, TypeOK
  <2>2. Batch \in SUBSET Tasks
    BY <2>1, UmbrellasAssumption DEF Receipts, Batch
  <2>3. "done" \in Statuses /\ Write(None, Batch, "done", blockers)
    BY <1>13, <2>1, UmbrellasAssumption DEF Finalize, Receipts
  <2>4. \A t \in Batch : blockers[t] \in SUBSET Tasks
    BY <2>2 DEF TypeOK
  <2>5. tier' = tier /\ untested' = untested /\ blamed' \subseteq Tasks
    BY <1>13 DEF Finalize, Checked, TypeOK
  <2> QED
    BY <2>2, <2>3, <2>4, <2>5, WriteType DEF TypeOK
<1>14. ASSUME ArchivePack
       PROVE  TypeOK'
  BY <1>14 DEF ArchivePack, Checked, TypeOK
<1> QED
  BY <1>1, <1>2, <1>3, <1>4, <1>5, <1>6, <1>7, <1>8, <1>9, <1>10, <1>11, <1>12, <1>13, <1>14
     DEF Next

\* Every variable keeps its type; a request is written with the status it
\* leaves alone, never with a missing one.
THEOREM TypeCorrect == Spec => []TypeOK
<1>1. Init => TypeOK
  BY StatusesAssumption DEF Init, TypeOK
<1>2. TypeOK /\ [Next]_vars => TypeOK'
  <2>1. TypeOK /\ UNCHANGED vars => TypeOK'
    BY DEF TypeOK, vars, board
  <2> QED
    BY <2>1, NextType
<1> QED
  BY <1>1, <1>2, PTL DEF Spec

---------------------------------------------------------------------------
(* The completion rule.  DoneIsUnblocked is inductive with the types: a    *)
(* checked call breaks no task, and what an unchecked call breaks is       *)
(* blamed on it.                                                           *)

LEMMA CheckedKeepsRule ==
    ASSUME DoneIsUnblocked, Checked, Broken' \subseteq Broken
    PROVE  DoneIsUnblocked'
BY DEF DoneIsUnblocked, Checked

LEMMA UnverifiedKeepsRule ==
    ASSUME DoneIsUnblocked, Unverified
    PROVE  DoneIsUnblocked'
BY DEF DoneIsUnblocked, Unverified

\* update_task breaks neither the task it writes nor a dependent of it.
LEMMA UpdateBreaksNothing ==
    ASSUME TypeOK, NEW p, NEW t \in Tasks, NEW s \in Statuses, NEW B \in SUBSET Tasks,
           Update(p, t, s, B)
    PROVE  Broken' \subseteq Broken
<1> SUFFICES ASSUME NEW u \in Tasks, u \in Broken', u \notin Broken
             PROVE  FALSE
  BY DEF Broken
<1>1. tier' = tier /\ Hot(u) /\ status'[u] = "done"
  BY DEF Update, Broken, Hot
<1>2. /\ status'[t] = s /\ blockers'[t] = B
      /\ \A v \in Tasks \ {t} : status'[v] = status[v] /\ blockers'[v] = blockers[v]
  BY DEF Update, Write, Set1
<1>3. PICK b \in blockers'[u] : ~Resolved(b)'
  BY DEF Broken, Unmet
<1>4. CASE u = t
  <2>1. s = "done" /\ Unmet(B, {}) = {} /\ b \in B
    BY <1>1, <1>2, <1>3, <1>4 DEF Update
  <2>2. Resolved(b)
    BY <2>1 DEF Unmet
  <2>3. b \in Tasks
    BY <2>1
  <2>4. CASE b = t
    BY <1>1, <1>2, <1>3, <2>1, <2>2, <2>4 DEF Resolved, Terminal
  <2>5. CASE b # t
    BY <1>1, <1>2, <1>3, <2>2, <2>3, <2>5 DEF Resolved
  <2> QED
    BY <2>4, <2>5
<1>5. CASE u # t
  <2>1. status[u] = "done" /\ b \in blockers[u]
    BY <1>1, <1>2, <1>3, <1>5
  <2>2. Resolved(b) /\ b \in Tasks
    BY <1>1, <2>1 DEF Broken, Unmet, TypeOK
  <2>3. b = t
    BY <1>1, <1>2, <1>3, <2>2 DEF Resolved
  <2>4. status[t] \in Terminal /\ s \notin Terminal
    BY <1>1, <1>2, <1>3, <2>2, <2>3 DEF Resolved
  <2>5. ReopenRefused(t, s)
    BY <1>1, <2>1, <2>3, <2>4 DEF ReopenRefused
  <2> QED
    BY <2>5 DEF Update
<1> QED
  BY <1>4, <1>5

LEMMA CreateBreaksNothing ==
    ASSUME TypeOK, NEW t \in Tasks, Create(t)
    PROVE  Broken' \subseteq Broken
<1> SUFFICES ASSUME NEW u \in Tasks, u \in Broken', u \notin Broken
             PROVE  FALSE
  BY DEF Broken
<1>1. PICK s \in Statuses, B \in SUBSET (Tasks \ {t}) :
          (s = "done" => Unmet(B, {}) = {}) /\ Write(None, {t}, s, Set1(t, B))
  BY DEF Create
<1>2. /\ status'[t] = s /\ blockers'[t] = B
      /\ \A v \in Tasks \ {t} :
            status'[v] = status[v] /\ blockers'[v] = blockers[v] /\ tier'[v] = tier[v]
  BY <1>1 DEF Create, Write, Set1, TypeOK
<1>3. PICK b \in blockers'[u] : ~Resolved(b)'
  BY DEF Broken, Unmet
<1>4. status'[u] = "done" /\ (u # t => Hot(u))
  BY <1>2 DEF Broken, Hot
<1>5. b \in Tasks \ {t} /\ Resolved(b)
  <2>1. CASE u = t
    BY <1>1, <1>2, <1>3, <1>4, <2>1 DEF Unmet
  <2>2. CASE u # t
    <3>1. b \in blockers[u] /\ Hot(u) /\ status[u] = "done"
      BY <1>2, <1>3, <1>4, <2>2
    <3>2. b # t /\ b \in Tasks
      BY <3>1 DEF Create, TypeOK
    <3> QED
      BY <3>1, <3>2 DEF Broken, Unmet
  <2> QED
    BY <2>1, <2>2
<1> QED
  BY <1>2, <1>3, <1>5 DEF Resolved

LEMMA FinalizeBreaksNothing ==
    ASSUME TypeOK, Finalize
    PROVE  Broken' \subseteq Broken
<1> SUFFICES ASSUME NEW u \in Tasks, u \in Broken', u \notin Broken
             PROVE  FALSE
  BY DEF Broken
<1>1. /\ tier' = tier /\ Batch \subseteq Tasks
      /\ \A v \in Tasks : /\ status'[v] = IF v \in Batch THEN "done" ELSE status[v]
                          /\ blockers'[v] = blockers[v]
  BY UmbrellasAssumption DEF Finalize, Write, TypeOK, Receipts, Batch
<1>2. PICK b \in blockers[u] : ~Resolved(b)'
  BY <1>1 DEF Broken, Unmet
<1>3. Hot(u) /\ b \in Tasks
  BY <1>1, <1>2 DEF Broken, Hot, TypeOK
<1>4. b \notin Batch
  BY <1>1, <1>2, <1>3 DEF Finalize, Resolved, Hot, Terminal
<1>5. Resolved(b)
  <2>1. CASE u \in Batch
    BY <1>2, <1>4, <2>1 DEF Finalize, Unmet
  <2>2. CASE u \notin Batch
    BY <1>1, <1>2, <1>3, <2>2 DEF Broken, Unmet
  <2> QED
    BY <2>1, <2>2
<1> QED
  BY <1>1, <1>2, <1>3, <1>4, <1>5 DEF Resolved

\* A cold record still resolves what it resolved as a file.
LEMMA ColdBreaksNothing ==
    ASSUME TypeOK, NEW S \in SUBSET Tasks, \A t \in S : Hot(t),
           tier' = [t \in Tasks |-> IF t \in S THEN "cold" ELSE tier[t]],
           status' = status, blockers' = blockers
    PROVE  Broken' \subseteq Broken
BY DEF Broken, Unmet, Resolved, Hot, TypeOK

LEMMA NextKeepsRule ==
    ASSUME TypeOK, DoneIsUnblocked, Next
    PROVE  DoneIsUnblocked'
<1>1. ASSUME NEW p, NEW t \in Tasks, NEW s \in Statuses, NEW B \in SUBSET Tasks, Update(p, t, s, B)
      PROVE  DoneIsUnblocked'
  <2>1. Checked
    BY <1>1 DEF Update
  <2> QED
    BY <1>1, <2>1, UpdateBreaksNothing, CheckedKeepsRule
<1>2. ASSUME UNCHANGED <<board, blamed>>
      PROVE  DoneIsUnblocked'
  BY <1>2 DEF DoneIsUnblocked, Broken, Unmet, Resolved, Hot, board
<1>3. ASSUME NEW p \in Procs, AskDepsAdd(p) \/ AskDepsRemove(p) \/ AskUpdate(p) \/ Abandon(p)
      PROVE  DoneIsUnblocked'
  BY <1>2, <1>3 DEF AskDepsAdd, AskDepsRemove, AskUpdate, Ask, Abandon
<1>4. ASSUME NEW p \in Procs, ApplyRequest(p)
      PROVE  DoneIsUnblocked'
  <2> DEFINE r == request[p]
             s == IF r.status = None THEN status[r.task] ELSE r.status
  <2>1. r \in Requests
    BY <1>4 DEF ApplyRequest, TypeOK
  <2>2. r.task \in Tasks /\ r.blockers \in SUBSET Tasks /\ r.status \in Statuses \cup {None}
    BY <2>1 DEF Requests
  <2>3. s \in Statuses
    BY <2>2 DEF TypeOK
  <2>4. Update(p, r.task, s, r.blockers)
    BY <1>4 DEF ApplyRequest
  <2> HIDE DEF r, s
  <2> QED
    BY <1>1, <2>2, <2>3, <2>4
<1>5. ASSUME NEW t \in Tasks, SetStatus(t)
      PROVE  DoneIsUnblocked'
  <2>1. PICK s \in Statuses : Update(None, t, s, blockers[t])
    BY <1>5 DEF SetStatus
  <2>2. blockers[t] \in SUBSET Tasks
    BY DEF TypeOK
  <2> QED
    BY <1>1, <2>1, <2>2
<1>6. ASSUME NEW t \in Tasks, ReplaceRecord(t)
      PROVE  DoneIsUnblocked'
  BY <1>1, <1>6 DEF ReplaceRecord
<1>7. ASSUME NEW t \in Tasks, ExactReplace(t) \/ Delete(t)
      PROVE  DoneIsUnblocked'
  <2>1. Unverified
    BY <1>7 DEF ExactReplace, Delete
  <2> QED
    BY <2>1, UnverifiedKeepsRule
<1>8. ASSUME NEW t \in Tasks, Create(t)
      PROVE  DoneIsUnblocked'
  <2>1. Checked
    BY <1>8 DEF Create
  <2> QED
    BY <1>8, <2>1, CreateBreaksNothing, CheckedKeepsRule
<1>9. ASSUME NEW t \in Tasks, ArchiveRecord(t)
      PROVE  DoneIsUnblocked'
  <2>1. {t} \in SUBSET Tasks /\ \A v \in {t} : Hot(v)
    BY <1>9 DEF ArchiveRecord
  <2>2. tier' = [v \in Tasks |-> IF v \in {t} THEN "cold" ELSE tier[v]]
    BY <1>9 DEF ArchiveRecord, TypeOK
  <2>3. status' = status /\ blockers' = blockers /\ Checked
    BY <1>9 DEF ArchiveRecord
  <2> QED
    BY <2>1, <2>2, <2>3, ColdBreaksNothing, CheckedKeepsRule
<1>10. ASSUME ArchivePack
       PROVE  DoneIsUnblocked'
  <2>1. PICK S \in SUBSET Tasks :
            /\ \A t \in S : Hot(t)
            /\ tier' = [t \in Tasks |-> IF t \in S THEN "cold" ELSE tier[t]]
            /\ status' = status /\ blockers' = blockers /\ Checked
    BY <1>10 DEF ArchivePack
  <2> QED
    BY <2>1, ColdBreaksNothing, CheckedKeepsRule
<1>11. ASSUME Finalize
       PROVE  DoneIsUnblocked'
  <2>1. Checked
    BY <1>11 DEF Finalize
  <2> QED
    BY <1>11, <2>1, FinalizeBreaksNothing, CheckedKeepsRule
<1>12. ASSUME Admit
       PROVE  DoneIsUnblocked'
  BY <1>2, <1>12 DEF Admit
<1> QED
  BY <1>3, <1>4, <1>5, <1>6, <1>7, <1>8, <1>9, <1>10, <1>11, <1>12 DEF Next

\* No sequence of calls leaves a hot task done with a blocker that is open or
\* missing, but for what exact replacement and deletion did.
THEOREM CompletionRule == Spec => []DoneIsUnblocked
<1>1. Init => DoneIsUnblocked
  BY DEF Init, DoneIsUnblocked, Broken
<1>2. DoneIsUnblocked /\ UNCHANGED vars => DoneIsUnblocked'
  BY DEF DoneIsUnblocked, Broken, Unmet, Resolved, Hot, vars, board
<1>3. TypeOK /\ DoneIsUnblocked /\ [Next]_vars => DoneIsUnblocked'
  BY <1>2, NextKeepsRule
<1> QED
  BY <1>1, <1>3, TypeCorrect, PTL DEF Spec


---------------------------------------------------------------------------
(* The inductive invariant *)

\* S holds every tested way on from w, and not w itself.
Region(w, S) ==
    /\ w \notin S
    /\ Edges(w) \subseteq S \cup untested
    /\ \A u \in S \ untested : Edges(u) \subseteq S \cup untested

\* The tasks that do not lead to t.
Clear(t) == {v \in Tasks : v # t /\ ~Reaches(v, t)}

\* The blockers that the check of p's request was about.
Added(p) ==
    LET r == request[p] IN IF r.whole THEN r.blockers ELSE r.blockers \ blockers[r.task]

\* What the check of a request found still holds of the graph.
RequestsVetted ==
    \A p \in Procs, t \in Tasks :
        request[p] # None /\ request[p].tested /\ request[p].task = t => Added(p) \subseteq Clear(t)

\* A task that does not exist has no edges.
MissingIsBare == \A t \in Tasks : tier[t] = "none" => blockers[t] = {}

CycleInv == CyclesAreUntested /\ RequestsVetted /\ MissingIsBare


---------------------------------------------------------------------------
(* Edges and regions *)

LEMMA EdgesType ==
    ASSUME TypeOK, NEW t \in Tasks
    PROVE  Edges(t) \subseteq Tasks
BY DEF Edges, TypeOK

\* A task without edges leads nowhere.
LEMMA BareIsClear ==
    ASSUME NEW b, NEW t \in Tasks, Edges(b) = {}
    PROVE  ~Reaches(b, t)
<1>1. {} \in SUBSET Tasks
  OBVIOUS
<1> QED
  BY <1>1 DEF Reaches

\* Clear(t) is closed under following edges.
LEMMA ClearIsClosed ==
    ASSUME TypeOK, NEW t \in Tasks, NEW v \in Clear(t)
    PROVE  Edges(v) \subseteq Clear(t)
<1>1. PICK S \in SUBSET Tasks :
          Edges(v) \subseteq S /\ (\A u \in S : Edges(u) \subseteq S) /\ t \notin S
  BY DEF Clear, Reaches
<1>2. ASSUME NEW u \in Edges(v)
      PROVE  u \in Clear(t)
  <2>1. u \in S /\ u \in Tasks /\ u # t /\ Edges(u) \subseteq S
    BY <1>1, <1>2
  <2>2. ~Reaches(u, t)
    BY <1>1, <2>1 DEF Reaches
  <2> QED
    BY <2>1, <2>2 DEF Clear
<1> QED
  BY <1>2

\* Fewer edges lead to fewer tasks.
LEMMA ClearGrows ==
    ASSUME NEW t \in Tasks, \A u \in Tasks : Edges(u)' \subseteq Edges(u)
    PROVE  Clear(t) \subseteq Clear(t)'
<1> SUFFICES ASSUME NEW v \in Clear(t)
             PROVE  v \in Clear(t)'
  OBVIOUS
<1>1. v \in Tasks /\ v # t
  BY DEF Clear
<1>2. PICK S \in SUBSET Tasks :
          Edges(v) \subseteq S /\ (\A u \in S : Edges(u) \subseteq S) /\ t \notin S
  BY DEF Clear, Reaches
<1>3. Edges(v)' \subseteq S /\ (\A u \in S : Edges(u)' \subseteq S)
  BY <1>1, <1>2
<1>4. ~Reaches(v, t)'
  BY <1>2, <1>3 DEF Reaches
<1> QED
  BY <1>1, <1>4 DEF Clear

LEMMA RegionExists ==
    ASSUME CyclesAreUntested, NEW w \in Tasks
    PROVE  \E S \in SUBSET Tasks : Region(w, S)
BY DEF CyclesAreUntested, Region

LEMMA RegionsSuffice ==
    ASSUME \A w \in Tasks : \E S \in SUBSET Tasks : Region(w, S)'
    PROVE  CyclesAreUntested'
BY DEF CyclesAreUntested, Region

---------------------------------------------------------------------------
(* How a step may change the graph *)

\* No new edge, and no task more is taken for tested.
LEMMA ShrinkingKeepsRegions ==
    ASSUME CyclesAreUntested,
           \A u \in Tasks : Edges(u)' \subseteq Edges(u),
           untested \subseteq untested'
    PROVE  CyclesAreUntested'
<1>1. ASSUME NEW w \in Tasks, NEW S \in SUBSET Tasks, Region(w, S)
      PROVE  Region(w, S)'
  BY <1>1 DEF Region
<1> QED
  BY <1>1, RegionExists, RegionsSuffice

\* The edges of one task change and it counts as untested.
LEMMA MarkingKeepsRegions ==
    ASSUME CyclesAreUntested, TypeOK', NEW t \in Tasks,
           \A u \in Tasks \ {t} : Edges(u)' = Edges(u),
           untested' = untested \cup {t}
    PROVE  CyclesAreUntested'
<1>1. \A u \in Tasks : Edges(u)' \subseteq Tasks
  BY DEF Edges, Hot, TypeOK
<1>2. Region(t, Tasks \ {t})'
  BY <1>1 DEF Region
<1>3. ASSUME NEW w \in Tasks \ {t}, NEW S \in SUBSET Tasks, Region(w, S)
      PROVE  Region(w, S)'
  BY <1>3 DEF Region
<1>4. ASSUME NEW w \in Tasks
      PROVE  \E S \in SUBSET Tasks : Region(w, S)'
  <2>1. Tasks \ {t} \in SUBSET Tasks
    OBVIOUS
  <2>2. CASE w = t
    BY <1>2, <2>1, <2>2
  <2>3. CASE w # t
    BY <1>3, <2>3, RegionExists
  <2> QED
    BY <2>2, <2>3
<1> QED
  BY <1>4, RegionsSuffice

\* A new task has edges, and none lead to it.
LEMMA CreatingKeepsRegions ==
    ASSUME CyclesAreUntested, NEW t \in Tasks, NEW B \in SUBSET (Tasks \ {t}),
           \A u \in Tasks : Edges(u) \subseteq Tasks \ {t},
           \A u \in Tasks \ {t} : Edges(u)' = Edges(u),
           Edges(t)' = B,
           untested' = untested
    PROVE  CyclesAreUntested'
<1>1. ASSUME NEW w \in Tasks
      PROVE  \E S \in SUBSET Tasks : Region(w, S)'
  <2>1. CASE w = t
    <3>1. Region(t, Tasks \ {t})'
      BY DEF Region
    <3> QED
      BY <2>1, <3>1
  <2>2. CASE w # t
    <3>1. PICK S \in SUBSET Tasks : Region(w, S)
      BY RegionExists
    <3>2. Region(w, S \ {t})'
      BY <2>2, <3>1 DEF Region
    <3>3. S \ {t} \in SUBSET Tasks
      OBVIOUS
    <3> QED
      BY <3>2, <3>3
  <2> QED
    BY <2>1, <2>2
<1> QED
  BY <1>1, RegionsSuffice

\* A task loses its edges and counts as tested.
LEMMA DeletingKeepsRegions ==
    ASSUME CyclesAreUntested, NEW t \in Tasks,
           \A u \in Tasks \ {t} : Edges(u)' = Edges(u),
           Edges(t)' = {},
           untested' = untested \ {t}
    PROVE  CyclesAreUntested'
<1>1. ASSUME NEW w \in Tasks
      PROVE  \E S \in SUBSET Tasks : Region(w, S)'
  <2>1. CASE w = t
    <3>1. Region(t, {})'
      BY DEF Region
    <3> QED
      BY <2>1, <3>1
  <2>2. CASE w # t
    <3>1. PICK S \in SUBSET Tasks : Region(w, S)
      BY RegionExists
    <3>2. Region(w, S \cup {t})'
      BY <2>2, <3>1 DEF Region
    <3> QED
      BY <3>2
  <2> QED
    BY <2>1, <2>2
<1> QED
  BY <1>1, RegionsSuffice

\* All the edges of a task are replaced by edges to tasks that do not lead to
\* it, and it counts as tested.
LEMMA ReplacingKeepsRegions ==
    ASSUME CyclesAreUntested, TypeOK, NEW t \in Tasks, NEW B,
           B \subseteq Clear(t),
           \A u \in Tasks \ {t} : Edges(u)' = Edges(u),
           Edges(t)' = B,
           untested' = untested \ {t}
    PROVE  CyclesAreUntested'
<1>0. PICK U \in SUBSET Tasks : U = Clear(t)
  BY DEF Clear
<1>1. t \notin U
  BY <1>0 DEF Clear
<1>2. \A u \in U : Edges(u) \subseteq U
  BY <1>0, ClearIsClosed
<1>3. B \subseteq U
  BY <1>0
<1>4. ASSUME NEW w \in Tasks
      PROVE  \E S \in SUBSET Tasks : Region(w, S)'
  <2>1. PICK S \in SUBSET Tasks : Region(w, S)
    BY RegionExists
  <2>2. CASE w = t
    <3>1. Region(t, U)'
      BY <1>1, <1>2, <1>3 DEF Region
    <3> QED
      BY <1>1, <2>2, <3>1
  <2>3. CASE w \in U
    <3>1. Region(w, S \cap U)'
      BY <1>1, <1>2, <2>1, <2>3 DEF Region
    <3> QED
      BY <3>1
  <2>4. CASE w # t /\ w \notin U
    <3>1. Region(w, S \cup U \cup {t})'
      BY <1>1, <1>2, <1>3, <2>1, <2>4 DEF Region
    <3>2. S \cup U \cup {t} \in SUBSET Tasks
      BY <1>1
    <3> QED
      BY <3>1, <3>2
  <2> QED
    BY <2>2, <2>3, <2>4
<1> QED
  BY <1>4, RegionsSuffice

\* Edges to such tasks are added, others may go.
LEMMA AddingKeepsRegions ==
    ASSUME CyclesAreUntested, TypeOK, NEW t \in Tasks,
           \A u \in Tasks \ {t} : Edges(u)' = Edges(u),
           Edges(t)' \subseteq Edges(t) \cup Clear(t),
           untested' = untested
    PROVE  CyclesAreUntested'
<1>0. PICK U \in SUBSET Tasks : U = Clear(t)
  BY DEF Clear
<1>1. t \notin U
  BY <1>0 DEF Clear
<1>2. \A u \in U : Edges(u) \subseteq U
  BY <1>0, ClearIsClosed
<1>3. Edges(t)' \subseteq Edges(t) \cup U
  BY <1>0
<1>4. ASSUME NEW w \in Tasks
      PROVE  \E S \in SUBSET Tasks : Region(w, S)'
  <2>1. PICK S \in SUBSET Tasks : Region(w, S)
    BY RegionExists
  <2>2. CASE w \in U
    <3>1. Region(w, S \cap U)'
      BY <1>1, <1>2, <2>1, <2>2 DEF Region
    <3> QED
      BY <3>1
  <2>3. CASE w \notin U
    <3>1. Region(w, S \cup U)'
      BY <1>1, <1>2, <1>3, <2>1, <2>3 DEF Region
    <3>2. S \cup U \in SUBSET Tasks
      BY <1>1
    <3> QED
      BY <3>1, <3>2
  <2> QED
    BY <2>2, <2>3
<1> QED
  BY <1>4, RegionsSuffice

---------------------------------------------------------------------------
(* What the calls do to the graph and to the requests *)

\* Writing one task changes the edges of no other.
LEMMA WriteOne ==
    ASSUME TypeOK, NEW p, NEW t \in Tasks, NEW s, NEW B,
           Write(p, {t}, s, Set1(t, B)),
           \A u \in Tasks \ {t} : tier'[u] = tier[u]
    PROVE  /\ blockers'[t] = B
           /\ \A u \in Tasks \ {t} : blockers'[u] = blockers[u] /\ Edges(u)' = Edges(u)
<1>1. blockers' = [u \in Tasks |-> IF u \in {t} THEN Set1(t, B)[u] ELSE blockers[u]]
  BY DEF Write
<1>2. blockers'[t] = B /\ \A u \in Tasks \ {t} : blockers'[u] = blockers[u]
  BY <1>1 DEF Set1
<1> QED
  BY <1>2 DEF Edges, Hot

\* A request whose check is still up to date saw the graph that is there.
LEMMA WriteKeepsVetted ==
    ASSUME TypeOK, RequestsVetted,
           NEW p, NEW S \in SUBSET Tasks, NEW s, NEW B, Write(p, S, s, B),
           \A u \in Tasks \ S : Edges(u)' \subseteq Edges(u),
           \A t \in S : B[t] = blockers[t] => Edges(t)' \subseteq Edges(t)
    PROVE  RequestsVetted'
<1> SUFFICES ASSUME NEW q \in Procs, NEW t \in Tasks,
                    request'[q] # None, request'[q].tested, request'[q].task = t
             PROVE  Added(q)' \subseteq Clear(t)'
  BY DEF RequestsVetted
<1> DEFINE r == request[q]
<1>1. q # p /\ r # None /\ r \in Requests
  BY DEF Write, TypeOK
<1>2. request'[q] = [r EXCEPT !.tested = @ /\ \A u \in S : B[u] = blockers[u]]
  BY <1>1 DEF Write
<1>3. /\ request'[q].task = r.task /\ request'[q].blockers = r.blockers
      /\ request'[q].whole = r.whole
      /\ request'[q].tested = (r.tested /\ \A u \in S : B[u] = blockers[u])
  BY <1>1, <1>2 DEF Requests
<1>4. r.tested /\ (\A u \in S : B[u] = blockers[u]) /\ r.task = t
  BY <1>3
<1>5. \A u \in Tasks : blockers'[u] = blockers[u] /\ Edges(u)' \subseteq Edges(u)
  BY <1>4 DEF Write
<1>6. Clear(t) \subseteq Clear(t)'
  BY <1>5, ClearGrows
<1>7. Added(q)' = Added(q)
  BY <1>3, <1>4, <1>5 DEF Added
<1>8. Added(q) \subseteq Clear(t)
  BY <1>1, <1>4 DEF RequestsVetted
<1> QED
  BY <1>6, <1>7, <1>8

\* What the unlocked check accepts does not lead to the task.
LEMMA AcceptableIsClear ==
    ASSUME NEW t \in Tasks, NEW new \in SUBSET Tasks, Acceptable(t, new)
    PROVE  new \subseteq Clear(t)
<1> SUFFICES ASSUME NEW b \in new
             PROVE  b # t /\ ~Reaches(b, t)
  BY DEF Clear
<1>1. b # t
  BY DEF Acceptable
<1>2. CASE tier[b] # "none"
  BY <1>2 DEF Acceptable, WouldCycle
<1>3. CASE tier[b] = "none"
  <2>1. Edges(b) = {}
    BY <1>3 DEF Edges, Hot
  <2> QED
    BY <1>1, <2>1, BareIsClear
<1> QED
  BY <1>1, <1>2, <1>3

\* A request is prepared while the graph stays as it is.
LEMMA AskKeepsInv ==
    ASSUME TypeOK, CycleInv,
           NEW p \in Procs, NEW t \in Tasks, NEW s, NEW B \in SUBSET Tasks, NEW whole \in BOOLEAN,
           (IF whole THEN B ELSE B \ blockers[t]) \subseteq Clear(t),
           Ask(p, t, s, B, whole)
    PROVE  CycleInv'
<1>1. tier' = tier /\ blockers' = blockers /\ untested' = untested
  BY DEF Ask, board
<1>2. \A u \in Tasks : Edges(u)' = Edges(u)
  BY <1>1 DEF Edges, Hot
<1>3. CyclesAreUntested'
  BY <1>1, <1>2, ShrinkingKeepsRegions DEF CycleInv
<1>4. MissingIsBare'
  BY <1>1 DEF CycleInv, MissingIsBare
<1>5. ASSUME NEW q \in Procs, NEW v \in Tasks,
             request'[q] # None, request'[q].tested, request'[q].task = v
      PROVE  Added(q)' \subseteq Clear(v)'
  <2>1. Clear(v) \subseteq Clear(v)'
    BY <1>2, ClearGrows
  <2>2. CASE q = p
    <3>1. request'[p] = [task |-> t, status |-> s, blockers |-> B, whole |-> whole, tested |-> TRUE]
      BY DEF Ask, TypeOK
    <3>2. v = t /\ Added(p)' = IF whole THEN B ELSE B \ blockers[t]
      BY <1>1, <1>5, <2>2, <3>1 DEF Added
    <3> QED
      BY <2>1, <2>2, <3>2
  <2>3. CASE q # p
    <3>1. request'[q] = request[q]
      BY <2>3 DEF Ask, TypeOK
    <3>2. Added(q)' = Added(q)
      BY <1>1, <3>1 DEF Added
    <3>3. Added(q) \subseteq Clear(v)
      BY <1>5, <3>1 DEF CycleInv, RequestsVetted
    <3> QED
      BY <2>1, <3>2, <3>3
  <2> QED
    BY <2>2, <2>3
<1>6. RequestsVetted'
  BY <1>5 DEF RequestsVetted
<1> QED
  BY <1>3, <1>4, <1>6 DEF CycleInv

\* The graph loses edges at most, and requests are dropped at most.
LEMMA ShrinkingKeepsInv ==
    ASSUME TypeOK, CycleInv,
           blockers' = blockers, untested' = untested,
           \A u \in Tasks : Hot(u)' => Hot(u),
           \A u \in Tasks : tier'[u] = "none" => tier[u] = "none",
           \A q \in Procs : request'[q] \in {request[q], None}
    PROVE  CycleInv'
<1>1. \A u \in Tasks : Edges(u)' \subseteq Edges(u)
  BY DEF Edges
<1>2. CyclesAreUntested'
  BY <1>1, ShrinkingKeepsRegions DEF CycleInv
<1>3. MissingIsBare'
  BY DEF CycleInv, MissingIsBare
<1>4. ASSUME NEW q \in Procs, NEW v \in Tasks,
             request'[q] # None, request'[q].tested, request'[q].task = v
      PROVE  Added(q)' \subseteq Clear(v)'
  <2>1. Clear(v) \subseteq Clear(v)'
    BY <1>1, ClearGrows
  <2>2. request'[q] = request[q]
    BY <1>4
  <2>3. Added(q)' = Added(q)
    BY <2>2 DEF Added
  <2>4. Added(q) \subseteq Clear(v)
    BY <1>4, <2>2 DEF CycleInv, RequestsVetted
  <2> QED
    BY <2>1, <2>3, <2>4
<1>5. RequestsVetted'
  BY <1>4 DEF RequestsVetted
<1> QED
  BY <1>2, <1>3, <1>5 DEF CycleInv

\* A checked write of a hot task: what it does to the graph, and that the
\* other parts of the invariant survive it.
LEMMA UpdateGraph ==
    ASSUME TypeOK, CycleInv,
           NEW p, NEW t \in Tasks, NEW s, NEW B \in SUBSET Tasks,
           Hot(t), Write(p, {t}, s, Set1(t, B)), tier' = tier
    PROVE  /\ \A u \in Tasks \ {t} : Edges(u)' = Edges(u)
           /\ Edges(t)' = B /\ Edges(t) = blockers[t]
           /\ RequestsVetted' /\ MissingIsBare'
<1>1. /\ blockers'[t] = B
      /\ \A u \in Tasks \ {t} : blockers'[u] = blockers[u] /\ Edges(u)' = Edges(u)
  BY WriteOne
<1>2. Edges(t)' = B /\ Edges(t) = blockers[t]
  BY <1>1 DEF Edges, Hot
<1>3. RequestsVetted'
  <2>1. \A v \in {t} : Set1(t, B)[v] = blockers[v] => Edges(v)' \subseteq Edges(v)
    BY <1>2 DEF Set1
  <2>2. \A u \in Tasks \ {t} : Edges(u)' \subseteq Edges(u)
    BY <1>1
  <2>3. {t} \in SUBSET Tasks
    OBVIOUS
  <2> QED
    BY <2>1, <2>2, <2>3, WriteKeepsVetted DEF CycleInv
<1>4. MissingIsBare'
  BY <1>1 DEF CycleInv, MissingIsBare, Hot
<1> QED
  BY <1>1, <1>2, <1>3, <1>4

---------------------------------------------------------------------------
(* Every step keeps the invariant *)

\* An edge list written without, or after an outdated, cycle check is marked.
LEMMA MarkedWriteKeepsInv ==
    ASSUME TypeOK, TypeOK', CycleInv,
           NEW p, NEW t \in Tasks, NEW s, NEW B \in SUBSET Tasks,
           Hot(t), Write(p, {t}, s, Set1(t, B)), tier' = tier,
           untested' = untested \cup {t}
    PROVE  CycleInv'
<1>1. (\A u \in Tasks \ {t} : Edges(u)' = Edges(u)) /\ RequestsVetted' /\ MissingIsBare'
  BY UpdateGraph
<1>2. CyclesAreUntested'
  BY <1>1, MarkingKeepsRegions DEF CycleInv
<1> QED
  BY <1>1, <1>2 DEF CycleInv

\* So is a request that was overtaken; one that was not is as good as checked
\* in place.
LEMMA ApplyRequestKeepsInv ==
    ASSUME TypeOK, TypeOK', CycleInv, NEW p \in Procs, ApplyRequest(p)
    PROVE  CycleInv'
<1>1. request[p] \in Requests
  BY DEF ApplyRequest, TypeOK
<1>2. PICK t \in Tasks, B \in SUBSET Tasks : t = request[p].task /\ B = request[p].blockers
  BY <1>1 DEF Requests
<1>3. PICK s : Update(p, t, s, B)
  BY <1>2 DEF ApplyRequest
<1>4. Hot(t) /\ Write(p, {t}, s, Set1(t, B)) /\ tier' = tier
  BY <1>3 DEF Update
<1>5. CASE ~request[p].tested
  <2>1. untested' = untested \cup {t}
    BY <1>2, <1>5 DEF ApplyRequest
  <2> QED
    BY <1>4, <2>1, MarkedWriteKeepsInv
<1>6. CASE request[p].tested
  <2>1. /\ \A u \in Tasks \ {t} : Edges(u)' = Edges(u)
        /\ Edges(t)' = B /\ Edges(t) = blockers[t]
        /\ RequestsVetted' /\ MissingIsBare'
    BY <1>4, UpdateGraph
  <2>2. Added(p) \subseteq Clear(t)
    BY <1>2, <1>6 DEF ApplyRequest, CycleInv, RequestsVetted
  <2>3. CASE request[p].whole
    <3>1. untested' = untested \ {t} /\ B \subseteq Clear(t)
      BY <1>2, <1>6, <2>2, <2>3 DEF ApplyRequest, Added
    <3>2. CyclesAreUntested'
      BY <2>1, <3>1, ReplacingKeepsRegions DEF CycleInv
    <3> QED
      BY <2>1, <3>2 DEF CycleInv
  <2>4. CASE ~request[p].whole
    <3>1. untested' = untested /\ B \ blockers[t] \subseteq Clear(t)
      BY <1>2, <1>6, <2>2, <2>4 DEF ApplyRequest, Added
    <3>2. Edges(t)' \subseteq Edges(t) \cup Clear(t)
      BY <2>1, <3>1
    <3>3. CyclesAreUntested'
      BY <2>1, <3>1, <3>2, AddingKeepsRegions DEF CycleInv
    <3> QED
      BY <2>1, <3>3 DEF CycleInv
  <2> QED
    BY <2>3, <2>4
<1> QED
  BY <1>5, <1>6

\* Writing tasks with the edges they have changes no edge.
LEMMA SameEdgesKeepInv ==
    ASSUME TypeOK, CycleInv,
           NEW p, NEW S \in SUBSET Tasks, NEW s, NEW B, Write(p, S, s, B),
           \A t \in S : B[t] = blockers[t],
           tier' = tier, untested' = untested
    PROVE  CycleInv'
<1>1. blockers' = blockers
  BY DEF Write, TypeOK
<1>2. \A u \in Tasks : Edges(u)' = Edges(u)
  BY <1>1 DEF Edges, Hot
<1>3. CyclesAreUntested'
  BY <1>2, ShrinkingKeepsRegions DEF CycleInv
<1>4. RequestsVetted'
  BY <1>2, WriteKeepsVetted DEF CycleInv
<1>5. MissingIsBare'
  BY <1>1 DEF CycleInv, MissingIsBare
<1> QED
  BY <1>3, <1>4, <1>5 DEF CycleInv

LEMMA CreateKeepsInv ==
    ASSUME TypeOK, CycleInv, NEW t \in Tasks, Create(t)
    PROVE  CycleInv'
<1>1. PICK s \in Statuses, B \in SUBSET (Tasks \ {t}) : Write(None, {t}, s, Set1(t, B))
  BY DEF Create
<1>2. untested' = untested /\ tier[t] = "none" /\ tier' = [tier EXCEPT ![t] = "hot"]
  BY DEF Create
<1>3. tier'[t] = "hot" /\ \A u \in Tasks \ {t} : tier'[u] = tier[u]
  BY <1>2 DEF TypeOK
<1>4. /\ blockers'[t] = B
      /\ \A u \in Tasks \ {t} : blockers'[u] = blockers[u] /\ Edges(u)' = Edges(u)
  BY <1>1, <1>3, WriteOne
<1>5. Edges(t)' = B
  BY <1>3, <1>4 DEF Edges, Hot
<1>6. \A u \in Tasks : Edges(u) \subseteq Tasks \ {t}
  BY DEF Create, Edges, TypeOK
<1>7. CyclesAreUntested'
  BY <1>2, <1>4, <1>5, <1>6, CreatingKeepsRegions DEF CycleInv
<1>8. RequestsVetted'
  <2>1. \A v \in {t} : Set1(t, B)[v] = blockers[v] => Edges(v)' \subseteq Edges(v)
    BY <1>2, <1>5 DEF Set1, CycleInv, MissingIsBare
  <2>2. \A u \in Tasks \ {t} : Edges(u)' \subseteq Edges(u)
    BY <1>4
  <2>3. {t} \in SUBSET Tasks
    OBVIOUS
  <2> QED
    BY <1>1, <2>1, <2>2, <2>3, WriteKeepsVetted DEF CycleInv
<1>9. MissingIsBare'
  BY <1>3, <1>4 DEF CycleInv, MissingIsBare
<1> QED
  BY <1>7, <1>8, <1>9 DEF CycleInv

LEMMA DeleteKeepsInv ==
    ASSUME TypeOK, CycleInv, NEW t \in Tasks, Delete(t)
    PROVE  CycleInv'
<1>1. Write(None, {t}, "todo", Set1(t, {})) /\ untested' = untested \ {t}
  BY DEF Delete
<1>2. tier'[t] = "none" /\ \A u \in Tasks \ {t} : tier'[u] = tier[u]
  BY DEF Delete, TypeOK
<1>3. /\ blockers'[t] = {}
      /\ \A u \in Tasks \ {t} : blockers'[u] = blockers[u] /\ Edges(u)' = Edges(u)
  BY <1>1, <1>2, WriteOne
<1>4. Edges(t)' = {}
  BY <1>2 DEF Edges, Hot
<1>5. CyclesAreUntested'
  BY <1>1, <1>3, <1>4, DeletingKeepsRegions DEF CycleInv
<1>6. RequestsVetted'
  <2>1. \A v \in {t} : Set1(t, {})[v] = blockers[v] => Edges(v)' \subseteq Edges(v)
    BY <1>4
  <2>2. \A u \in Tasks \ {t} : Edges(u)' \subseteq Edges(u)
    BY <1>3
  <2>3. {t} \in SUBSET Tasks
    OBVIOUS
  <2> QED
    BY <1>1, <2>1, <2>2, <2>3, WriteKeepsVetted DEF CycleInv
<1>7. MissingIsBare'
  BY <1>2, <1>3 DEF CycleInv, MissingIsBare
<1> QED
  BY <1>5, <1>6, <1>7 DEF CycleInv

LEMMA NextKeepsCycleInv ==
    ASSUME TypeOK, TypeOK', CycleInv, Next
    PROVE  CycleInv'
<1>1. ASSUME NEW p \in Procs, AskDepsAdd(p)
      PROVE  CycleInv'
  <2>1. PICK t \in Tasks, new \in SUBSET Tasks :
            Acceptable(t, new) /\ Ask(p, t, None, blockers[t] \cup new, FALSE)
    BY <1>1 DEF AskDepsAdd
  <2>2. new \subseteq Clear(t)
    BY <2>1, AcceptableIsClear
  <2>3. blockers[t] \cup new \in SUBSET Tasks
    BY DEF TypeOK
  <2>4. (blockers[t] \cup new) \ blockers[t] \subseteq Clear(t)
    BY <2>2
  <2> QED
    BY <2>1, <2>3, <2>4, AskKeepsInv
<1>2. ASSUME NEW p \in Procs, AskDepsRemove(p)
      PROVE  CycleInv'
  <2>1. PICK t \in Tasks : \E old \in SUBSET blockers[t] : Ask(p, t, None, blockers[t] \ old, FALSE)
    BY <1>2 DEF AskDepsRemove
  <2>2. PICK old \in SUBSET blockers[t] : Ask(p, t, None, blockers[t] \ old, FALSE)
    BY <2>1
  <2>3. blockers[t] \ old \in SUBSET Tasks
    BY DEF TypeOK
  <2>4. (blockers[t] \ old) \ blockers[t] \subseteq Clear(t)
    OBVIOUS
  <2> QED
    BY <2>2, <2>3, <2>4, AskKeepsInv
<1>3. ASSUME NEW p \in Procs, AskUpdate(p)
      PROVE  CycleInv'
  <2>1. PICK t \in Tasks, s \in Statuses \cup {None}, B \in SUBSET Tasks :
            Acceptable(t, B) /\ Ask(p, t, s, B, TRUE)
    BY <1>3 DEF AskUpdate
  <2>2. B \subseteq Clear(t)
    BY <2>1, AcceptableIsClear
  <2> QED
    BY <2>1, <2>2, AskKeepsInv
<1>4. ASSUME NEW p \in Procs, ApplyRequest(p)
      PROVE  CycleInv'
  BY <1>4, ApplyRequestKeepsInv
<1>5. ASSUME NEW p \in Procs, Abandon(p)
      PROVE  CycleInv'
  <2>1. /\ tier' = tier /\ blockers' = blockers /\ untested' = untested
        /\ \A q \in Procs : request'[q] \in {request[q], None}
    BY <1>5 DEF Abandon, board, TypeOK
  <2> QED
    BY <2>1, ShrinkingKeepsInv DEF Hot
<1>6. ASSUME NEW t \in Tasks, SetStatus(t)
      PROVE  CycleInv'
  <2>1. PICK s \in Statuses : Update(None, t, s, blockers[t])
    BY <1>6 DEF SetStatus
  <2>2. Write(None, {t}, s, Set1(t, blockers[t])) /\ tier' = tier /\ untested' = untested
    BY <1>6, <2>1 DEF SetStatus, Update
  <2>3. {t} \in SUBSET Tasks /\ \A u \in {t} : Set1(t, blockers[t])[u] = blockers[u]
    BY DEF Set1
  <2> QED
    BY <2>2, <2>3, SameEdgesKeepInv
<1>7. ASSUME NEW t \in Tasks, ExactReplace(t)
      PROVE  CycleInv'
  <2>1. Hot(t) /\ tier' = tier
    BY <1>7 DEF ExactReplace
  <2>2. CASE \E s \in Statuses : /\ Write(None, {t}, s, Set1(t, blockers[t]))
                                 /\ UNCHANGED untested
    <3>1. PICK s \in Statuses : Write(None, {t}, s, Set1(t, blockers[t]))
      BY <2>2
    <3>2. {t} \in SUBSET Tasks /\ \A u \in {t} : Set1(t, blockers[t])[u] = blockers[u]
      BY DEF Set1
    <3> QED
      BY <2>1, <2>2, <3>1, <3>2, SameEdgesKeepInv
  <2>3. CASE \E B \in SUBSET Tasks : /\ Write(None, {t}, status[t], Set1(t, B))
                                     /\ untested' = untested \cup {t}
    BY <2>1, <2>3, MarkedWriteKeepsInv
  <2> QED
    BY <1>7, <2>2, <2>3 DEF ExactReplace
<1>8. ASSUME NEW t \in Tasks, Create(t)
      PROVE  CycleInv'
  BY <1>8, CreateKeepsInv
<1>9. ASSUME NEW t \in Tasks, ReplaceRecord(t)
      PROVE  CycleInv'
  <2>1. PICK s \in Statuses, B \in SUBSET Tasks : Update(None, t, s, B)
    BY <1>9 DEF ReplaceRecord
  <2>2. Hot(t) /\ Write(None, {t}, s, Set1(t, B)) /\ tier' = tier /\ untested' = untested \cup {t}
    BY <1>9, <2>1 DEF ReplaceRecord, Update
  <2> QED
    BY <2>2, MarkedWriteKeepsInv
<1>10. ASSUME NEW t \in Tasks, Delete(t)
       PROVE  CycleInv'
  BY <1>10, DeleteKeepsInv
<1>11. ASSUME NEW t \in Tasks, ArchiveRecord(t)
       PROVE  CycleInv'
  <2>1. /\ blockers' = blockers /\ untested' = untested /\ request' = request
        /\ \A u \in Tasks : tier'[u] = IF u = t THEN "cold" ELSE tier[u]
    BY <1>11 DEF ArchiveRecord, TypeOK
  <2> QED
    BY <1>11, <2>1, ShrinkingKeepsInv DEF ArchiveRecord, Hot
<1>12. ASSUME Admit
       PROVE  CycleInv'
  <2>1. tier' = tier /\ blockers' = blockers /\ untested' = untested /\ request' = request
    BY <1>12 DEF Admit, board
  <2> QED
    BY <2>1, ShrinkingKeepsInv DEF Hot
<1>13. ASSUME Finalize
       PROVE  CycleInv'
  <2>1. PICK S \in SUBSET Tasks : S = Batch
    BY <1>13, UmbrellasAssumption DEF Finalize, TypeOK, Receipts, Batch
  <2>2. Write(None, S, "done", blockers) /\ tier' = tier /\ untested' = untested
    BY <1>13, <2>1 DEF Finalize
  <2> QED
    BY <2>2, SameEdgesKeepInv
<1>14. ASSUME ArchivePack
       PROVE  CycleInv'
  <2>1. PICK S \in SUBSET Tasks : /\ \A t \in S : Hot(t)
                                  /\ tier' = [t \in Tasks |-> IF t \in S THEN "cold" ELSE tier[t]]
    BY <1>14 DEF ArchivePack
  <2>2. blockers' = blockers /\ untested' = untested /\ request' = request
    BY <1>14 DEF ArchivePack
  <2> QED
    BY <2>1, <2>2, ShrinkingKeepsInv DEF Hot
<1> QED
  BY <1>1, <1>2, <1>3, <1>4, <1>5, <1>6, <1>7, <1>8, <1>9, <1>10, <1>11, <1>12, <1>13, <1>14
     DEF Next

LEMMA InitHasCycleInv ==
    ASSUME Init
    PROVE  CycleInv
<1>1. \A t \in Tasks : Edges(t) = {}
  BY DEF Init, Edges
<1>2. \A t \in Tasks : Region(t, {})
  BY <1>1 DEF Region
<1>3. CyclesAreUntested
  <2>1. \A t \in Tasks : {} \in SUBSET Tasks
    OBVIOUS
  <2> QED
    BY <1>2, <2>1 DEF CyclesAreUntested, Region
<1>4. RequestsVetted /\ MissingIsBare
  BY DEF Init, RequestsVetted, MissingIsBare
<1> QED
  BY <1>3, <1>4 DEF CycleInv

\* Every cycle of hot tasks goes through one whose edges were written without
\* a cycle check, or after a check that was out of date by then: the unlocked
\* check of deps add and update is enough as long as nobody edits in between.
THEOREM OnlyUntestedCycles == Spec => []CyclesAreUntested
<1>1. Init => CycleInv
  BY InitHasCycleInv
<1>2. TypeOK /\ TypeOK' /\ CycleInv /\ [Next]_vars => CycleInv'
  <2>1. TypeOK /\ CycleInv /\ UNCHANGED vars => CycleInv'
    <3> SUFFICES ASSUME TypeOK, CycleInv, UNCHANGED vars
                 PROVE  CycleInv'
      OBVIOUS
    <3>1. tier' = tier /\ blockers' = blockers /\ untested' = untested /\ request' = request
      BY DEF vars
    <3> QED
      BY <3>1, ShrinkingKeepsInv DEF Hot
  <2> QED
    BY <2>1, NextKeepsCycleInv
<1>3. CycleInv => CyclesAreUntested
  BY DEF CycleInv
<1> QED
  BY <1>1, <1>2, <1>3, TypeCorrect, PTL DEF Spec

=============================================================================
