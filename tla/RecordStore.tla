---------------------------- MODULE RecordStore -----------------------------
(***************************************************************************)
(* The stores of native Records: Documents (documents.py), Artifacts       *)
(* (artifacts.py) with their deduplicated content objects                  *)
(* (content_objects.py), and their move to the cold tier (archive.py,      *)
(* archive_record).                                                        *)
(*                                                                         *)
(* A Record is a directory of immutable numbered revisions and one of      *)
(* numbered events; every call writes a revision, then its event, and      *)
(* takes both back when it fails.  Nothing repairs what a killed call      *)
(* leaves.  A Document has a lock of its own, all Artifacts share one;     *)
(* Artifact revise reads and stores its bytes before it takes the lock.    *)
(***************************************************************************)
EXTENDS Naturals, FiniteSetsExt

CONSTANTS
    Records,       \* IDs
    Clients,       \* processes
    Contents,      \* texts and bytes
    None,
    MaxRevision,   \* bound: revisions of a Record
    Kills          \* whether processes are killed

ASSUME MaxRevisionAssumption == MaxRevision \in Nat \ {0}
ASSUME KillsAssumption == Kills \in BOOLEAN

VARIABLES
    kind,       \* Record -> "document" or "artifact": its ID says so
    revs,       \* Record -> number -> payload: the hot revision files
    events,     \* Record -> numbers of its event files
    made,       \* Records whose directory was made; none is ever removed
    objects,    \* contents in objects/sha256
    sealed,     \* Record -> the revisions in its whole cold pack, or None
    torn,       \* Records some of whose pack's three files are missing
    op,         \* client -> its call, or None
    acked,      \* history: <<Record, number>> that were acknowledged
    killed,     \* history: Records on which a call was killed
    contested   \* history: contents a second call found while their author ran

files == <<revs, events, made>>
packs == <<sealed, torn>>
history == <<acked, killed, contested>>
vars == <<kind, revs, events, made, objects, sealed, torn, op, acked, killed, contested>>

---------------------------------------------------------------------------

\* `local`: the bytes are a content object; inline bytes, external evidence
\* and links are part of the manifest.  `cold`: the tier field says so.
Payloads == [local : BOOLEAN, of : Contents, cold : BOOLEAN]

\* A call: `basis` is what the caller read, `wrote` what a rollback would take
\* back, `at` the next step.
Parts == {"object", "revision", "event"}
Steps == {"put", "wait", "object", "revision", "event", "return", "undo",
          "seal", "publish", "whole", "remove"}
Calls == [do : {"create", "revise", "import", "archive"}, rec : Records,
          rev : 1..MaxRevision, basis : Payloads \cup {None}, new : Payloads,
          wrote : SUBSET Parts, at : Steps]

ASSUME NoneAssumption ==
    /\ None \notin Calls
    /\ \A S \in SUBSET (1..MaxRevision) : None \notin [S -> Payloads]

PayloadsOf(r, isCold) ==
    {p \in Payloads : p.cold = isCold /\ (p.local => kind[r] = "artifact")}

Hot(r) == DOMAIN revs[r] # {}

\* Any cold lookup raises on an incomplete pack.
ColdReadable == torn = {}

\* get: the highest hot revision, else the cold Record.
Readable(r) == Hot(r) \/ (sealed[r] # None /\ ColdReadable)
Revisions(r) == IF Hot(r) THEN revs[r] ELSE sealed[r]
Last(r) == Max(DOMAIN Revisions(r))
Top(r) == Revisions(r)[Last(r)]
Current(r) == [Top(r) EXCEPT !.cold = @ \/ ~Hot(r)]

\* A call's next step; at "put" and "wait" it holds no lock.
Unlocked == {"put", "wait"}
Locked(c) == op[c] # None /\ op[c].at \notin Unlocked
SameLock(r) == {r} \cup {s \in Records : kind[r] = "artifact" /\ kind[s] = "artifact"}
Free(r) == \A c \in Clients : Locked(c) => op[c].rec \notin SameLock(r)

Call(do, r, n, basis, p, at) ==
    [do |-> do, rec |-> r, rev |-> n, basis |-> basis, new |-> p,
     wrote |-> {}, at |-> at]

At(c, s) == op[c] # None /\ op[c].at = s
Goto(c, s) == op' = [op EXCEPT ![c].at = s]

\* One case for every exception: roll back, or just return.
RollBack(c, things) ==
    op' = [op EXCEPT ![c] = IF things = {} THEN None
                            ELSE [@ EXCEPT !.wrote = things, !.at = "undo"]]

\* Wrong: the event is forgotten.
OwnedRevision(c) == op[c].wrote \ {"event"}

\* A Document's rollback unlinks both paths, whoever wrote them.
Owned(c) == IF kind[op[c].rec] = "document" THEN {"revision", "event"} ELSE op[c].wrote

---------------------------------------------------------------------------

Init ==
    /\ kind \in [Records -> {"document", "artifact"}]
    /\ revs = [r \in Records |-> <<>>] /\ events = [r \in Records |-> {}] /\ made = {}
    /\ objects = {}
    /\ sealed = [r \in Records |-> None] /\ torn = {}
    /\ op = [c \in Clients |-> None]
    /\ acked = {} /\ killed = {} /\ contested = {}

---------------------------------------------------------------------------
(* create and revise *)

\* create takes the lock and looks for the ID in both tiers.
Create(c) ==
    /\ op[c] = None
    /\ \E r \in Records : \E p \in PayloadsOf(r, FALSE) :
          /\ Free(r)
          /\ r \notin made /\ ColdReadable /\ sealed[r] = None
          /\ op' = [op EXCEPT ![c] =
                       Call("create", r, 1, None, p, IF p.local THEN "object" ELSE "revision")]
    /\ UNCHANGED <<kind, files, objects, packs, history>>

\* The caller of a revision reads first, without a lock: `update` and `import`
\* (wiki front matter) get the preimage here, Artifact revise reads by itself
\* and refuses a cold Record.
Read(c) ==
    /\ op[c] = None
    /\ \E r \in Records : \E do \in {"revise", "import"} :
          /\ Readable(r) /\ Last(r) < MaxRevision
          /\ IF do = "import" THEN kind[r] = "document" ELSE ~Current(r).cold
          /\ \E p \in PayloadsOf(r, Current(r).cold) : op' = [op EXCEPT ![c] =
                       Call(do, r, Last(r) + 1, Current(r), p, IF p.local THEN "put" ELSE "wait")]
    /\ UNCHANGED <<kind, files, objects, packs, history>>

\* Wrong: every object put is taken back, found or created.
PutOwning(c) ==
    /\ op[c] # None /\ op[c].at \in {"object", "put"}
    /\ objects' = objects \cup {op[c].new.of}
    /\ op' = [op EXCEPT ![c].wrote = @ \cup {"object"},
                        ![c].at = IF @ = "object" THEN "revision" ELSE "wait"]
    /\ UNCHANGED <<kind, files, packs, history>>

\* ContentObjectStore.put: an identical object is used as it is.
Put(c) ==
    /\ op[c] # None /\ op[c].at \in {"object", "put"}
    /\ LET x == op[c].new.of
           others == {k \in Clients \ {c} : op[k] # None /\ op[k].new.of = x
                                            /\ "object" \in op[k].wrote}
       IN /\ objects' = objects \cup {x}
          /\ op' = [op EXCEPT ![c].wrote = IF x \in objects THEN @ ELSE @ \cup {"object"},
                              ![c].at = IF @ = "object" THEN "revision" ELSE "wait"]
          /\ contested' = IF others # {} THEN contested \cup {x} ELSE contested
    /\ UNCHANGED <<kind, files, packs, acked, killed>>

\* Wrong: the preimage is checked, the revision is not.
FitsContent(c) ==
    LET o == op[c] r == o.rec
    IN Readable(r) /\ Current(r) = o.basis

\* The checks under the lock: revision and preimage; the tier only in
\* Document update, and through the exported text in an import.
Fits(c) ==
    LET o == op[c] r == o.rec
    IN /\ Readable(r)
       /\ Last(r) + 1 = o.rev /\ Current(r).of = o.basis.of /\ Current(r).local = o.basis.local
       /\ kind[r] = "document" => Current(r).cold = o.basis.cold

Lock(c) ==
    /\ At(c, "wait") /\ Free(op[c].rec)
    /\ IF Fits(c) THEN Goto(c, "revision") ELSE RollBack(c, op[c].wrote)
    /\ UNCHANGED <<kind, files, objects, packs, history>>

\* _atomic_create links a complete file, or finds the path taken.
WriteRevision(c) ==
    /\ At(c, "revision")
    /\ LET r == op[c].rec n == op[c].rev
       IN /\ made' = made \cup {r}
          /\ IF n \in DOMAIN revs[r] THEN RollBack(c, Owned(c)) /\ UNCHANGED revs
             ELSE /\ revs' = [revs EXCEPT ![r] =
                         [m \in DOMAIN @ \cup {n} |-> IF m = n THEN op[c].new ELSE @[m]]]
                  /\ op' = [op EXCEPT ![c].wrote = @ \cup {"revision"}, ![c].at = "event"]
    /\ UNCHANGED <<kind, events, objects, packs, history>>

\* A killed rollback of a Document can have left this event behind.
WriteEvent(c) ==
    /\ At(c, "event")
    /\ LET r == op[c].rec n == op[c].rev
       IN IF n \in events[r] THEN RollBack(c, Owned(c)) /\ UNCHANGED events
          ELSE /\ events' = [events EXCEPT ![r] = @ \cup {n}]
               /\ op' = [op EXCEPT ![c].wrote = @ \cup {"event"}, ![c].at = "return"]
    /\ UNCHANGED <<kind, revs, made, objects, packs, history>>

Return(c) ==
    /\ At(c, "return")
    /\ acked' = acked \cup {<<op[c].rec, op[c].rev>>}
    /\ op' = [op EXCEPT ![c] = None]
    /\ UNCHANGED <<kind, files, objects, packs, killed, contested>>

\* Any exception or Ctrl-C inside the try.
Fail(c) ==
    /\ op[c] # None
    /\ \/ op[c].at \in {"object", "revision", "event"}
       \/ op[c].at = "return" /\ kind[op[c].rec] = "artifact"
    /\ RollBack(c, Owned(c))
    /\ UNCHANGED <<kind, files, objects, packs, history>>

UndoOrder(r) == IF kind[r] = "document" THEN <<"revision", "event">>
                ELSE <<"event", "revision", "object">>

Undo(c) ==
    /\ At(c, "undo")
    /\ LET r == op[c].rec n == op[c].rev order == UndoOrder(r)
           next == Min({i \in DOMAIN order : order[i] \in op[c].wrote})
           x == order[next]
       IN /\ revs' = IF x # "revision" THEN revs
                     ELSE [revs EXCEPT ![r] = [m \in DOMAIN @ \ {n} |-> @[m]]]
          /\ events' = IF x = "event" THEN [events EXCEPT ![r] = @ \ {n}] ELSE events
          /\ objects' = IF x = "object" THEN objects \ {op[c].new.of} ELSE objects
          /\ RollBack(c, op[c].wrote \ {x})
    /\ UNCHANGED <<kind, made, packs, history>>

\* Killed anywhere; or Ctrl-C before revise has its lock, outside the try.
Kill(c) ==
    /\ Kills /\ op[c] # None
    /\ op' = [op EXCEPT ![c] = None]
    /\ killed' = IF Locked(c) THEN killed \cup {op[c].rec} ELSE killed
    /\ UNCHANGED <<kind, files, objects, packs, acked, contested>>

---------------------------------------------------------------------------
(* archive_record *)

Archiving(c) == op[c] # None /\ op[c].do = "archive"

\* Under record-archive.lock and the Record's lock: as many events as
\* revisions, and every owned object verified.
StartArchive(c) ==
    /\ op[c] = None /\ \A k \in Clients : ~Archiving(k)
    /\ ColdReadable
    /\ \E r \in Records :
          /\ Free(r) /\ Hot(r) /\ sealed[r] = None
          /\ Cardinality(DOMAIN revs[r]) = Cardinality(events[r])
          /\ \A n \in DOMAIN revs[r] : revs[r][n].local => revs[r][n].of \in objects
          /\ op' = [op EXCEPT ![c] =
                       Call("archive", r, Last(r), Top(r), Top(r), "seal")]
    /\ UNCHANGED <<kind, files, objects, packs, history>>

PublishSome(c) ==
    /\ At(c, "seal")
    /\ torn' = torn \cup {op[c].rec}
    /\ Goto(c, "publish")
    /\ UNCHANGED <<kind, files, objects, sealed, history>>

PublishRest(c) ==
    /\ At(c, "publish")
    /\ torn' = torn \ {op[c].rec}
    /\ sealed' = [sealed EXCEPT ![op[c].rec] = revs[op[c].rec]]
    /\ Goto(c, "whole")
    /\ UNCHANGED <<kind, files, objects, history>>

\* With the receipt the pack has authority.  One hot revision is unlinked
\* after the other, then the events; an exception ends here too.
RemoveHot(c) ==
    /\ op[c] # None /\ op[c].at \in {"whole", "remove"}
    /\ LET r == op[c].rec
       IN IF Hot(r)
          THEN /\ revs' = [revs EXCEPT ![r] =
                      [m \in DOMAIN @ \ {Min(DOMAIN @)} |-> @[m]]]
               /\ Goto(c, "remove")
               /\ UNCHANGED events
          ELSE /\ events' = [events EXCEPT ![r] = {}]
               /\ op' = [op EXCEPT ![c] = None]
               /\ UNCHANGED revs
    /\ UNCHANGED <<kind, made, objects, packs, history>>

\* Wrong: a pack that fails its verification stays.
FailArchivePublished(c) ==
    /\ op[c] # None /\ op[c].at \in {"seal", "publish", "whole"}
    /\ op' = [op EXCEPT ![c] = None]
    /\ UNCHANGED <<kind, files, objects, packs, history>>

\* Before that the published files go again, but for one that was being copied.
FailArchive(c) ==
    /\ op[c] # None /\ op[c].at \in {"seal", "publish", "whole"}
    /\ sealed' = [sealed EXCEPT ![op[c].rec] = None]
    /\ torn' \in {{}, IF op[c].at = "publish" THEN torn ELSE {}}
    /\ op' = [op EXCEPT ![c] = None]
    /\ UNCHANGED <<kind, files, objects, history>>

---------------------------------------------------------------------------

Next == \E c \in Clients :
    \/ Create(c) \/ Read(c) \/ Put(c) \/ Lock(c)
    \/ WriteRevision(c) \/ WriteEvent(c) \/ Return(c)
    \/ Fail(c) \/ Undo(c) \/ Kill(c)
    \/ StartArchive(c) \/ PublishSome(c) \/ PublishRest(c) \/ RemoveHot(c) \/ FailArchive(c)

Spec == Init /\ [][Next]_vars

---------------------------------------------------------------------------
(* Properties *)

\* The revisions of r in either tier, but for one a running call may take back.
Pending(r) == {op[c].rev : c \in {k \in Clients : /\ op[k] # None /\ op[k].rec = r
                                                  /\ "revision" \in op[k].wrote}}
Sealed(r) == IF sealed[r] = None THEN <<>> ELSE sealed[r]
Line(r) == [n \in (DOMAIN revs[r] \cup DOMAIN Sealed(r)) \ Pending(r) |->
               IF n \in DOMAIN revs[r] THEN revs[r][n] ELSE Sealed(r)[n]]

Promise == INSTANCE RevisionLines WITH line <- [r \in Records |-> Line(r)]

\* Whatever fails, is killed or races: revisions are only ever added, one by
\* one, at the end of a Record's line, and one that was acknowledged is there.
ImplementsRevisionLines == Promise!Spec

Local(l) == {l[n].of : n \in {k \in DOMAIN l : l[k].local}}
Referenced == UNION {Local(Line(r)) : r \in Records}

\* Local bytes of every revision, hot or cold, are in the object store, unless
\* two calls were storing the same bytes at once.
BytesKept == Referenced \ contested \subseteq objects

\* Between calls, a Record no call was killed on has an event for each of its
\* hot revisions and no other, so that it can be archived.
HistoryComplete ==
    \A r \in Records \ killed : Free(r) => DOMAIN revs[r] = events[r]

\* Revised after it was archived.
Reopened(r) == sealed[r] # None /\ ~(DOMAIN revs[r] \subseteq DOMAIN sealed[r])

\* Between calls, such a Record is in one tier, unless it was reopened.
TiersDisjoint ==
    \A r \in Records \ killed :
        Free(r) /\ Hot(r) /\ sealed[r] # None => Reopened(r)

\* What every call that ends, well or badly, leaves of a Record: its history
\* whole, and one tier.
RecordsSettle == HistoryComplete /\ TiersDisjoint

\* Without the excuse of BytesKept.
ReferencedBytesExist == Referenced \subseteq objects

=============================================================================
