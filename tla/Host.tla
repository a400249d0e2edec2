--------------------------------- MODULE Host ---------------------------------
(***************************************************************************)
(* The read-only HTTP host (hosting.py) in front of one Artifact that is   *)
(* revised and archived meanwhile.  A request takes no lock: it reads the  *)
(* hot tier, then the cold one, refuses what it finds twice, and reads     *)
(* again for the bytes or the history.  How an Artifact is written is      *)
(* module RecordStore; here its paths are written one by one.              *)
(***************************************************************************)
EXTENDS Naturals, FiniteSets, FiniteSetsExt

CONSTANTS
    Threads,    \* of the server: a request each
    NoReply,    \* no request
    MaxHosted   \* bound: revisions

ASSUME HostAssumption == MaxHosted \in Nat \ {0}

VARIABLES
    manifests,  \* revisions that have a hot manifest
    eventFiles, \* revisions that have a hot event
    sealedAt,   \* the latest revision of the pack, or 0: no pack
    packWhole,  \* the pack verifies
    keeper,     \* who has the store's lock: "revise", "archive", "free"
    reply       \* thread -> its request

hostVars == <<manifests, eventFiles, sealedAt, packWhole, keeper, reply>>

Newest == IF manifests = {} THEN 0 ELSE Max(manifests)
Torn == sealedAt # 0 /\ ~packWhole
Serves == IF manifests = {} THEN sealedAt ELSE Newest

\* For the properties, a request learns which revisions were the latest while it
\* ran, and whether files of the Artifact were removed.
Witness(latest, removed) ==
    reply' = [h \in Threads |->
        IF reply[h] = NoReply THEN NoReply
        ELSE [reply[h] EXCEPT !.seen = @ \cup {latest}, !.removed = @ \/ removed]]

---------------------------------------------------------------------------
(* The Artifact                                                            *)

\* The manifest first; the lock is held until the event is there.
WriteManifest ==
    /\ keeper = "free" /\ sealedAt = 0 /\ Newest < MaxHosted
    /\ manifests' = manifests \cup {Newest + 1} /\ keeper' = "revise"
    /\ Witness(Newest + 1, FALSE)
    /\ UNCHANGED <<eventFiles, sealedAt, packWhole>>

\* The event, or its failure, which takes the manifest back.
EndRevise ==
    /\ keeper = "revise" /\ keeper' = "free"
    /\ \/ eventFiles' = eventFiles \cup {Newest} /\ UNCHANGED <<manifests, reply>>
       \/ /\ manifests' = manifests \ {Newest} /\ UNCHANGED eventFiles
          /\ Witness(Newest - 1, TRUE)
    /\ UNCHANGED <<sealedAt, packWhole>>

\* archive_record: the first of three files,
BeginPack ==
    /\ keeper = "free" /\ sealedAt = 0
    /\ keeper' = "archive" /\ sealedAt' = Newest
    /\ UNCHANGED <<manifests, eventFiles, packWhole, reply>>

\* the others, or a failure, which takes them back,
EndPack ==
    /\ keeper = "archive" /\ Torn
    /\ \/ packWhole' = TRUE /\ UNCHANGED <<sealedAt, keeper>>
       \/ sealedAt' = 0 /\ keeper' = "free" /\ UNCHANGED packWhole
    /\ UNCHANGED <<manifests, eventFiles, reply>>

\* then the hot files go: the manifests in the order of the revisions, the events.
\* Nothing puts them back.
Unlink ==
    /\ keeper = "archive" /\ packWhole
    /\ IF manifests # {}
       THEN manifests' = manifests \ {Min(manifests)} /\ UNCHANGED eventFiles
       ELSE eventFiles # {} /\ eventFiles' = eventFiles \ {Min(eventFiles)} /\ UNCHANGED manifests
    /\ Witness(IF manifests' = {} THEN sealedAt ELSE Newest, TRUE)
    /\ UNCHANGED <<sealedAt, packWhole, keeper>>

---------------------------------------------------------------------------
(* A request                                                               *)

\* Wrong: a pack that is published between the two reads is in neither.
ColdFirst == <<"cold", "hot">>
TierOrder == <<"hot", "cold">>

StartRequest(h) ==
    /\ reply[h] = NoReply
    /\ \E wants \in {"record", "content", "history"} :
          reply' = [reply EXCEPT ![h] =
             [stage |-> "tiers", wants |-> wants, read |-> {}, hot |-> 0, cold |-> 0,
              tag |-> 0, body |-> {}, seen |-> {Serves}, removed |-> FALSE]]
    /\ UNCHANGED <<manifests, eventFiles, sealedAt, packWhole, keeper>>

Doing(h, stage) == reply[h] # NoReply /\ reply[h].stage = stage
Quiet == UNCHANGED <<manifests, eventFiles, sealedAt, packWhole, keeper>>

\* records: one tier after the other; an incomplete pack is refused.
ReadTier(h) ==
    /\ Doing(h, "tiers") /\ Cardinality(reply[h].read) < 2
    /\ LET r == reply[h]  tier == TierOrder[Cardinality(r.read) + 1] IN
       reply' = [reply EXCEPT ![h] =
          IF tier = "hot" THEN [r EXCEPT !.read = @ \cup {tier}, !.hot = Newest]
          ELSE IF Torn THEN NoReply
          ELSE [r EXCEPT !.read = @ \cup {tier}, !.cold = sealedAt]]
    /\ Quiet

\* resolve: in both tiers is a conflict, in neither is "not found" (tag 0).  The
\* Record is sent as it was read, and its ETag is its digest.
Resolve(h) ==
    LET r == reply[h]  value == IF r.hot # 0 THEN r.hot ELSE r.cold IN
    /\ Doing(h, "tiers") /\ Cardinality(r.read) = 2
    /\ reply' = [reply EXCEPT ![h] =
          IF r.hot # 0 /\ r.cold # 0 THEN NoReply
          ELSE IF r.wants = "record" \/ value = 0
          THEN [@ EXCEPT !.stage = "sent", !.tag = value, !.body = {value}]
          ELSE [@ EXCEPT !.stage = "body", !.tag = value]]
    /\ Quiet

\* The ETag is of the Record in hand; the bytes are of the latest revision, which
\* is looked up again.
ReadContent(h) ==
    /\ Doing(h, "body") /\ reply[h].wants = "content"
    /\ reply' = [reply EXCEPT ![h] =
          IF manifests = {} /\ Torn THEN NoReply
          ELSE [@ EXCEPT !.stage = "sent", !.body = {Serves}]]
    /\ Quiet

\* Of a Record found cold, the pack's; of one found hot, the events that are left.
ReadHistory(h) ==
    /\ Doing(h, "body") /\ reply[h].wants = "history"
    /\ reply' = [reply EXCEPT ![h].stage = "sent",
                              ![h].body = IF reply[h].cold # 0 THEN 1..reply[h].cold ELSE eventFiles]
    /\ Quiet

EndRequest(h) ==
    /\ reply[h] # NoReply /\ reply' = [reply EXCEPT ![h] = NoReply]
    /\ Quiet

HostInit ==
    /\ manifests = {1} /\ eventFiles = {1} /\ sealedAt = 0 /\ packWhole = FALSE
    /\ keeper = "free" /\ reply = [h \in Threads |-> NoReply]

HostNext ==
    \/ WriteManifest \/ EndRevise \/ BeginPack \/ EndPack \/ Unlink
    \/ \E h \in Threads :
          \/ StartRequest(h) \/ ReadTier(h) \/ Resolve(h)
          \/ ReadContent(h) \/ ReadHistory(h) \/ EndRequest(h)

HostSpec == HostInit /\ [][HostNext]_hostVars

---------------------------------------------------------------------------
(* Properties *)

\* An Artifact that exists is never reported missing, whatever is archived during
\* the request, and Record and bytes are what they were at some time of it.  The
\* ETag is of the bytes unless it was revised meanwhile; the history is that of the
\* Record, up to an event still to be written, unless it was archived meanwhile.
HostTellsTheTruth ==
    \A h \in Threads :
        Doing(h, "sent") =>
            LET r == reply[h] IN
            /\ r.tag \in r.seen
            /\ r.wants = "content" => /\ r.body \subseteq r.seen
                                      /\ Cardinality(r.seen) = 1 => r.body = {r.tag}
            /\ r.wants = "history" /\ ~r.removed =>
                  1..r.tag - 1 \subseteq r.body /\ \A n \in r.body : \E latest \in r.seen : n <= latest

=============================================================================
