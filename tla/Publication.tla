----------------------------- MODULE Publication -----------------------------
(***************************************************************************)
(* Publication of a package's wiki (package_wiki.py): a manifest becomes   *)
(* one new revision of each of its Documents, one after the other, under   *)
(* the locks of all of them.  A plan pins the revisions it expects.  A     *)
(* killed publication leaves a prefix, and the same plan takes it up       *)
(* again; the project may edit or archive the Documents meanwhile.         *)
(***************************************************************************)
EXTENDS Naturals, Sequences, FiniteSets, SequencesExt, Ordering

CONSTANTS
    Publishers,  \* processes
    Manifests,   \* manifest -> its entries, numbers in the order of their keys
    LockOf,      \* entry -> its lock: IDs that differ only in case share one
    Project,     \* the author of a revision that no publication wrote
    Free,        \* nobody, no call
    MaxRevision  \* bound: revisions of a Document

Entries == UNION {Manifests[m] : m \in DOMAIN Manifests}

ASSUME PublicationAssumption ==
    /\ MaxRevision \in Nat
    /\ Entries \subseteq Nat /\ LockOf \in [Entries -> Nat]
    /\ \A m \in DOMAIN Manifests : Manifests[m] # {} /\ IsFiniteSet(Manifests[m])
    /\ Project \notin DOMAIN Manifests
    /\ Free \notin DOMAIN Manifests \cup Publishers

\* A call, and a receipt.
PlanRows == UNION {[Manifests[m] -> 0..MaxRevision] : m \in DOMAIN Manifests}
Calls == [stage : {"lock", "check", "revision", "event"}, manifest : DOMAIN Manifests,
          plan : PlanRows, next : Nat]
Receipts == [manifest : DOMAIN Manifests, plan : PlanRows,
             pins : UNION {[Manifests[m] -> 1..MaxRevision] : m \in DOMAIN Manifests}]

ASSUME FreeAssumption == Free \notin Calls /\ Free \notin Receipts

VARIABLES
    revisions,   \* entry -> the manifest, or Project, that wrote each revision
    published,   \* entry -> the revisions that have an event
    sealed,      \* entries whose Document is archived
    locks,       \* lock -> holder
    work,        \* publisher -> its call: manifest, plan, what is left to do
    printed      \* history: the receipt that was printed last

publicationVars == <<revisions, published, sealed, locks, work, printed>>

Locks == {LockOf[e] : e \in Entries}
Revision(e) == Len(revisions[e])
Owner(e, rev) == IF rev \in 1..Revision(e) THEN revisions[e][rev] ELSE Free

\* A plan names, of each Document, a revision that it has had, or none; planning
\* refuses the project's.  Nothing is locked: the rows may be of any times.  The
\* digest that a row pins as well is left out: it tells revisions apart only when
\* one was taken back and its number used again.
Plans(m) == {plan \in [Manifests[m] -> 0..MaxRevision] :
                \A e \in Manifests[m] : plan[e] <= Revision(e) /\ Owner(e, plan[e]) # Project}

\* What generation_binding derives from a plan: the revision that has been
\* published already, or the one after.
Bound(m, plan, e) == IF Owner(e, plan[e]) = m THEN plan[e] ELSE plan[e] + 1

\* read_binding, of a row of a receipt.  An archived Document has no revisions to
\* read any more.
Readable(m, e, rev) == e \notin sealed /\ Owner(e, rev) = m

\* verify_generation_binding, of what generation_binding has derived.
VerifyBinding(m, plan) == \A e \in Manifests[m] : Readable(m, e, Bound(m, plan, e))

---------------------------------------------------------------------------
(* publish                                                                 *)

\* Wrong: in the order of the entries.
LockSequenceByEntry(m) ==
    LET order == Ascending(Manifests[m])
    IN [i \in 1..Len(order) |-> LockOf[order[i]]]
\* In the order of the lock names.
LockSequence(m) == Ascending({LockOf[e] : e \in Manifests[m]})

StartPublish(p) ==
    /\ work[p] = Free
    /\ \E m \in DOMAIN Manifests : \E plan \in Plans(m) :
          work' = [work EXCEPT ![p] = [stage |-> "lock", manifest |-> m, plan |-> plan, next |-> 1]]
    /\ UNCHANGED <<revisions, published, sealed, locks, printed>>

Wanted(p) == LockSequence(work[p].manifest)[work[p].next]

\* The call, come to a stage and to the next of its locks or entries.
CallAt(p, stage, next) ==
    [stage |-> stage, manifest |-> work[p].manifest, plan |-> work[p].plan, next |-> next]

TakeLock(p) ==
    /\ work[p] # Free /\ work[p].stage = "lock" /\ locks[Wanted(p)] = Free
    /\ locks' = [locks EXCEPT ![Wanted(p)] = p]
    /\ work' = [work EXCEPT ![p] =
          IF work[p].next = Len(LockSequence(work[p].manifest))
          THEN CallAt(p, "check", 1) ELSE CallAt(p, "lock", work[p].next + 1)]
    /\ UNCHANGED <<revisions, published, sealed, printed>>

LetGo(p) ==
    /\ locks' = [l \in Locks |-> IF locks[l] = p THEN Free ELSE locks[l]]
    /\ work' = [work EXCEPT ![p] = Free]

Done(m, e) == Revision(e) > 0 /\ Owner(e, Revision(e)) = m

\* Wrong: a revision of this manifest counts whatever the plan expected.
FollowsAnyPlan(m, plan, e) == Done(m, e) \/ Revision(e) = plan[e]
\* Published by this plan or before it; or still as the plan expects.
Follows(m, plan, e) ==
    IF Done(m, e) THEN Revision(e) \in {plan[e], plan[e] + 1} ELSE Revision(e) = plan[e]

\* The latest revision has its event, and another may follow.
Complete(e) == Revision(e) = 0 \/ Revision(e) \in published[e]

CheckPlan(p) ==
    LET m == work[p].manifest IN
    /\ work[p] # Free /\ work[p].stage = "check"
    /\ IF \A e \in Manifests[m] :
             /\ Owner(e, Revision(e)) # Project /\ e \notin sealed
             /\ Follows(m, work[p].plan, e)
             /\ Done(m, e) \/ Complete(e)
       THEN work' = [work EXCEPT ![p] = CallAt(p, "revision", 1)] /\ UNCHANGED locks
       ELSE LetGo(p)
    /\ UNCHANGED <<revisions, published, sealed, printed>>

Turn(p) == Ascending(Manifests[work[p].manifest])[work[p].next]

\* To the next entry; after the last, the receipt, and the locks are let go.
Advance(p) ==
    LET m == work[p].manifest IN
    IF work[p].next < Cardinality(Manifests[m])
    THEN /\ work' = [work EXCEPT ![p] = CallAt(p, "revision", work[p].next + 1)]
         /\ UNCHANGED <<locks, printed>>
    ELSE /\ printed' = [manifest |-> m, plan |-> work[p].plan,
                        pins |-> [e \in Manifests[m] |-> Revision(e)]]
         /\ LetGo(p)

\* Nothing to do but the event, where a killed call had not come to it; or the
\* first half of _commit_publication.
WriteRevision(p) ==
    LET e == Turn(p)  m == work[p].manifest IN
    /\ work[p] # Free /\ work[p].stage = "revision"
    /\ IF Done(m, e)
       THEN /\ published' = [published EXCEPT ![e] = @ \cup {Revision(e)}]
            /\ Advance(p) /\ UNCHANGED revisions
       ELSE /\ Revision(e) < MaxRevision
            /\ revisions' = [revisions EXCEPT ![e] = Append(@, m)]
            /\ work' = [work EXCEPT ![p] = CallAt(p, "event", work[p].next)]
            /\ UNCHANGED <<published, locks, printed>>
    /\ UNCHANGED sealed

WriteEvent(p) ==
    /\ work[p] # Free /\ work[p].stage = "event"
    /\ published' = [published EXCEPT ![Turn(p)] = @ \cup {Revision(Turn(p))}]
    /\ Advance(p)
    /\ UNCHANGED <<revisions, sealed>>

\* An event that cannot be written takes the revision back.
FailEvent(p) ==
    /\ work[p] # Free /\ work[p].stage = "event"
    /\ revisions' = [revisions EXCEPT ![Turn(p)] = Front(@)]
    /\ LetGo(p)
    /\ UNCHANGED <<published, sealed, printed>>

KillPublisher(p) ==
    /\ work[p] # Free /\ LetGo(p)
    /\ UNCHANGED <<revisions, published, sealed, printed>>

---------------------------------------------------------------------------
(* The project                                                             *)

\* wiki update, of a Document like any other, and record archive
EditDocument ==
    /\ \E e \in Entries \ sealed :
          /\ locks[LockOf[e]] = Free /\ Revision(e) \in 1..(MaxRevision - 1)
          /\ revisions' = [revisions EXCEPT ![e] = Append(@, Project)]
          /\ published' = [published EXCEPT ![e] = @ \cup {Revision(e) + 1}]
    /\ UNCHANGED <<sealed, locks, work, printed>>

SealDocument ==
    /\ \E e \in Entries \ sealed :
          /\ locks[LockOf[e]] = Free /\ Revision(e) > 0
          /\ Cardinality(published[e]) = Revision(e)
          /\ sealed' = sealed \cup {e}
    /\ UNCHANGED <<revisions, published, locks, work, printed>>

PublicationInit ==
    /\ revisions = [e \in Entries |-> <<>>] /\ published = [e \in Entries |-> {}]
    /\ sealed = {}
    /\ locks = [l \in Locks |-> Free] /\ work = [p \in Publishers |-> Free]
    /\ printed = Free

PublicationNext ==
    \/ \E p \in Publishers :
          \/ StartPublish(p) \/ TakeLock(p) \/ CheckPlan(p) \/ WriteRevision(p)
          \/ WriteEvent(p) \/ FailEvent(p) \/ KillPublisher(p)
    \/ EditDocument \/ SealDocument

PublicationSpec == PublicationInit /\ [][PublicationNext]_publicationVars

---------------------------------------------------------------------------
(* Properties *)

\* A receipt stays true until one of its Documents is archived: each revision that
\* it pins can be read as its manifest's, has its event, and is the one that the
\* binding derives from the plan, which runs without the receipt's timestamps.
ReceiptStaysTrue ==
    printed # Free =>
        /\ \A e \in DOMAIN printed.pins :
              /\ e \in sealed \/ Readable(printed.manifest, e, printed.pins[e])
              /\ printed.pins[e] \in published[e]
              /\ printed.pins[e] = Bound(printed.manifest, printed.plan, e)
        /\ DOMAIN printed.pins \cap sealed = {} => VerifyBinding(printed.manifest, printed.plan)

\* No two publications wait for each other.
NoCircularWait ==
    \A p, q \in Publishers :
        ~ /\ work[p] # Free /\ work[p].stage = "lock" /\ locks[Wanted(p)] = q
          /\ work[q] # Free /\ work[q].stage = "lock" /\ locks[Wanted(q)] = p
          /\ p # q

=============================================================================
