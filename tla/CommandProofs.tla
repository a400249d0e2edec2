---------------------------- MODULE CommandProofs ----------------------------
(***************************************************************************)
(* Proofs about commands that hold no lock from the read that they decide  *)
(* on to the write: the project registry, edits of a task, the end of the  *)
(* compatibility window, and the installation of skills; about one that    *)
(* holds several, the publication of a package wiki; and about one that    *)
(* holds none at all, the search for Records through an index.             *)
(***************************************************************************)
EXTENDS Registry, Sessions, Window, Publication, SkillInstall, RecordIndex, NumberLemmas

---------------------------------------------------------------------------
(* Registry                                                                *)

RegistryTypeOK ==
    /\ registry \in RegistryContents /\ confirmed \in RegistryContents
    /\ gate \in Callers \cup {Nowhere}
    /\ request \in [Callers -> ChangeRequests \cup {Nowhere}]
    /\ unsure \subseteq Aliases

\* The registry and the confirmed calls differ at most at S.
AgreeBut(S) == \A a \in Aliases \ S : registry[a] = confirmed[a]

\* What holds of a call at the lock: it has the registry in hand, or its own
\* change is the one that is not confirmed.
Holds(c) ==
    /\ request[c] # Nowhere
    /\ \/ request[c].stage = "look" /\ request[c].read = registry /\ AgreeBut(unsure)
       \/ /\ request[c].stage = "saved" /\ registry[request[c].alias] = request[c].to
          /\ AgreeBut(unsure \cup {request[c].alias})

RegistryInv ==
    /\ RegistryTypeOK
    /\ ConfirmedChangesStay
    /\ \A c \in Callers : gate = c => Holds(c)
    /\ \A c \in Callers : request[c] # Nowhere /\ gate # c => request[c].stage = "wait"

\* The registry starts empty, with nobody at the lock.
LEMMA RegistryStarts == RegistryInit => RegistryInv
BY RegistryAssumption DEF RegistryInit, RegistryInv, RegistryTypeOK, RegistryContents,
   ConfirmedChangesStay

\* Each step of a call keeps the invariant.
LEMMA RegistryKeeps == RegistryInv /\ [RegistryNext]_registryVars => RegistryInv'
<1> USE RegistryAssumption
<1> SUFFICES ASSUME RegistryInv, [RegistryNext]_registryVars PROVE RegistryInv'
    OBVIOUS
<1>1. CASE UNCHANGED registryVars
    BY <1>1 DEF registryVars, RegistryInv, RegistryTypeOK, ConfirmedChangesStay, Holds, AgreeBut
<1>2. ASSUME NEW c \in Callers, AskChange(c) PROVE RegistryInv'
  <2>1. PICK alias \in Aliases, to \in Projects \cup {Nowhere}, replace \in BOOLEAN :
          request' = [request EXCEPT ![c] =
             [stage |-> "wait", alias |-> alias, to |-> to, replace |-> replace, read |-> registry]]
      BY <1>2 DEF AskChange
  <2> DEFINE r == [stage |-> "wait", alias |-> alias, to |-> to, replace |-> replace,
                   read |-> registry]
  <2>3. r \in ChangeRequests /\ r.stage = "wait" /\ request' = [request EXCEPT ![c] = r]
      BY <2>1 DEF RegistryInv, RegistryTypeOK, ChangeRequests
  <2> HIDE DEF r
  <2>2. request[c] = Nowhere /\ gate # c
      BY <1>2 DEF AskChange, RegistryInv, Holds
  <2> QED BY <1>2, <2>2, <2>3
          DEF AskChange, RegistryInv, RegistryTypeOK, ConfirmedChangesStay, Holds, AgreeBut
<1>3. ASSUME NEW c \in Callers, TakeGate(c) PROVE RegistryInv'
  <2>1. request[c] \in ChangeRequests /\ gate = Nowhere /\ AgreeBut(unsure)
      BY <1>3 DEF TakeGate, RegistryInv, RegistryTypeOK, ConfirmedChangesStay, AgreeBut
  <2>2. [request[c] EXCEPT !.stage = "look", !.read = registry] \in ChangeRequests
      BY <2>1 DEF RegistryInv, RegistryTypeOK, ChangeRequests
  <2> DEFINE r == [request[c] EXCEPT !.stage = "look", !.read = registry]
  <2>3. request' = [request EXCEPT ![c] = r] /\ r.stage = "look" /\ r.read = registry
      BY <1>3, <2>1 DEF TakeGate, ChangeRequests, RegistryInv, RegistryTypeOK
  <2>4. RegistryTypeOK' /\ ConfirmedChangesStay'
      BY <1>3, <2>2, <2>3 DEF TakeGate, RegistryInv, RegistryTypeOK, ConfirmedChangesStay
  <2>5. gate' = c /\ request'[c] # Nowhere => Holds(c)'
      BY <1>3, <2>1, <2>3 DEF TakeGate, RegistryInv, RegistryTypeOK, Holds, AgreeBut
  <2>6. request'[c] # Nowhere
      BY <2>2, <2>3 DEF RegistryInv, RegistryTypeOK
  <2>7. \A d \in Callers \ {c} : request'[d] = request[d] /\ gate # d
      BY <2>1, <2>3 DEF RegistryInv, RegistryTypeOK
  <2> QED BY <1>3, <2>4, <2>5, <2>6, <2>7 DEF TakeGate, RegistryInv
<1>4. ASSUME NEW c \in Callers, StopRequest(c) PROVE RegistryInv'
  <2>1. request[c] \in ChangeRequests
      BY <1>4 DEF StopRequest, RegistryInv, RegistryTypeOK
  <2>2. CASE gate = c
    <3>1. CASE request[c].stage = "look"
        BY <1>4, <2>1, <2>2, <3>1
        DEF StopRequest, RegistryInv, RegistryTypeOK, ConfirmedChangesStay, Holds, AgreeBut, ChangeRequests
    <3>2. CASE request[c].stage = "saved"
        BY <1>4, <2>1, <2>2, <3>2
        DEF StopRequest, RegistryInv, RegistryTypeOK, ConfirmedChangesStay, Holds, AgreeBut, ChangeRequests
    <3> QED BY <2>2, <3>1, <3>2 DEF RegistryInv, Holds
  <2>3. CASE gate # c
      BY <1>4, <2>1, <2>3
      DEF StopRequest, RegistryInv, RegistryTypeOK, ConfirmedChangesStay, Holds, AgreeBut, ChangeRequests
  <2> QED BY <2>2, <2>3
<1>5. ASSUME NEW c \in Callers, SaveRegistry(c) PROVE RegistryInv'
  <2>1. request[c] \in ChangeRequests /\ gate = c /\ request[c].stage = "look"
      BY <1>5 DEF SaveRegistry, RegistryInv, RegistryTypeOK
  <2>2. registry' = [registry EXCEPT ![request[c].alias] = request[c].to] /\ registry' \in RegistryContents
      BY <1>5, <2>1 DEF SaveRegistry, RegistryInv, RegistryTypeOK, Holds, ChangeRequests, RegistryContents
  <2>3. request' \in [Callers -> ChangeRequests \cup {Nowhere}]
      BY <1>5, <2>1 DEF SaveRegistry, RegistryInv, RegistryTypeOK, ChangeRequests
  <2>4. RegistryTypeOK' /\ ConfirmedChangesStay'
      BY <1>5, <2>1, <2>2, <2>3 DEF SaveRegistry, RegistryInv, RegistryTypeOK, ConfirmedChangesStay
  <2> DEFINE r == [request[c] EXCEPT !.stage = "saved"]
  <2>5. /\ r \in ChangeRequests
        /\ r.stage = "saved" /\ r.alias = request[c].alias /\ r.to = request[c].to
        /\ request'[c] = r
      BY <1>5, <2>1 DEF SaveRegistry, RegistryInv, RegistryTypeOK, ChangeRequests
  <2>6. registry'[request[c].alias] = request[c].to /\ AgreeBut(unsure \cup {request[c].alias})'
      BY <1>5, <2>1, <2>2
      DEF SaveRegistry, RegistryInv, RegistryTypeOK, Holds, AgreeBut, ChangeRequests, RegistryContents
  <2>7. Holds(c)'
    <3>1. request'[c] # Nowhere
        BY <2>5
    <3>2. request'[c].stage = "saved" /\ request'[c].alias = request[c].alias
          /\ request'[c].to = request[c].to
        BY <2>5
    <3> HIDE DEF r
    <3> QED BY <1>5, <2>6, <3>1, <3>2 DEF SaveRegistry, Holds, AgreeBut
  <2>8. \A d \in Callers \ {c} : request'[d] = request[d] /\ gate # d
      BY <1>5, <2>1 DEF SaveRegistry, RegistryInv, RegistryTypeOK
  <2> QED BY <1>5, <2>1, <2>4, <2>7, <2>8 DEF SaveRegistry, RegistryInv
<1>6. ASSUME NEW c \in Callers, ConfirmChange(c) PROVE RegistryInv'
  <2>1. request[c] \in ChangeRequests /\ gate = c /\ request[c].stage = "saved"
      BY <1>6 DEF ConfirmChange, RegistryInv, RegistryTypeOK
  <2> QED BY <1>6, <2>1
          DEF ConfirmChange, RegistryInv, RegistryTypeOK, ConfirmedChangesStay, Holds, AgreeBut,
              ChangeRequests, RegistryContents
<1> QED BY <1>1, <1>2, <1>3, <1>4, <1>5, <1>6 DEF RegistryNext

\* A confirmed change of the registry stays until another confirmed call takes it
\* back, for any number of callers and projects.
THEOREM RegistrySafe == RegistrySpec => []ConfirmedChangesStay
<1>1. RegistryInv => ConfirmedChangesStay
    BY DEF RegistryInv
<1> QED BY <1>1, RegistryStarts, RegistryKeeps, PTL DEF RegistrySpec

---------------------------------------------------------------------------
(* Sessions                                                                *)

FieldValues == [FieldNames -> BOOLEAN]
DepsCalls == [call : {"deps"}, id : BlockerIds, add : BOOLEAN, read : Nat, named : {0},
              whole : SUBSET BlockerIds]
FieldCalls == [call : {"field"}, id : FieldNames, add : BOOLEAN, read : Nat, named : Nat,
               whole : FieldValues]
CreateCalls == [call : {"create"}, seen : SUBSET Nat]

SessionsTypeOK ==
    /\ entry \in [blockers : SUBSET BlockerIds, fields : FieldValues, rev : Nat]
    /\ asked \in [blockers : SUBSET BlockerIds, fields : FieldValues]
    /\ session \in [Clients -> DepsCalls \cup FieldCalls \cup CreateCalls \cup {Idle}]
    /\ drafts \in Seq({"open", "done"})

\* What a call has computed is its edit of the task, while nobody has written
\* since it read; and it names no revision that it has not read.
DepsFresh(call) ==
    /\ call.read <= entry.rev
    /\ call.read = entry.rev =>
          call.whole = IF call.add THEN WithBlocker(call.id) ELSE WithoutBlocker(call.id)
FieldFresh(call) ==
    /\ call.named <= call.read /\ call.read <= entry.rev
    /\ call.read = entry.rev => call.whole = [entry.fields EXCEPT ![call.id] = call.add]

SessionsInv ==
    /\ SessionsTypeOK
    /\ EditsAddUp
    /\ \A p \in Clients : session[p] # Idle /\ session[p] \in DepsCalls => DepsFresh(session[p])
    /\ \A p \in Clients : session[p] # Idle /\ session[p] \in FieldCalls => FieldFresh(session[p])

LEMMA SessionsStart == SessionsInit => SessionsInv
BY DEF SessionsInit, SessionsInv, SessionsTypeOK, EditsAddUp, Blank, FieldValues

\* A write raises the revision, so that whatever the others have computed is of
\* an older one.
LEMMA WriteOvertakes ==
    ASSUME SessionsInv,
           entry' \in [blockers : SUBSET BlockerIds, fields : FieldValues, rev : Nat],
           asked' \in [blockers : SUBSET BlockerIds, fields : FieldValues],
           entry'.rev = entry.rev + 1,
           session' = session \/ \E p \in Clients : session' = [session EXCEPT ![p] = Idle],
           drafts' = drafts,
           EditsAddUp'
    PROVE  SessionsInv'
<1>1. SessionsTypeOK'
    BY DEF SessionsInv, SessionsTypeOK
<1>2. \A q \in Clients : session'[q] # Idle => session'[q] = session[q]
    BY DEF SessionsInv, SessionsTypeOK
<1>3. ASSUME NEW q \in Clients, session'[q] # Idle, session'[q] \in DepsCalls
      PROVE  DepsFresh(session[q])'
  <2>1. DepsFresh(session[q]) /\ session'[q] = session[q] /\ session[q].read \in Nat
      BY <1>2, <1>3 DEF SessionsInv, DepsCalls
  <2>2. session[q].read <= entry.rev /\ entry.rev \in Nat
      BY <2>1 DEF DepsFresh, SessionsInv, SessionsTypeOK
  <2> QED BY <2>1, <2>2 DEF DepsFresh
<1>4. ASSUME NEW q \in Clients, session'[q] # Idle, session'[q] \in FieldCalls
      PROVE  FieldFresh(session[q])'
  <2>1. /\ FieldFresh(session[q]) /\ session'[q] = session[q]
        /\ session[q].read \in Nat /\ session[q].named \in Nat
      BY <1>2, <1>4 DEF SessionsInv, FieldCalls
  <2>2. session[q].read <= entry.rev /\ session[q].named <= session[q].read /\ entry.rev \in Nat
      BY <2>1 DEF FieldFresh, SessionsInv, SessionsTypeOK
  <2> QED BY <2>1, <2>2 DEF FieldFresh
<1> QED BY <1>1, <1>3, <1>4 DEF SessionsInv

\* A read, a refusal or a new task changes no field and no blocker.
LEMMA ReadKeeps ==
    ASSUME SessionsInv, NEW p \in Clients,
           NEW call \in DepsCalls \cup FieldCalls \cup CreateCalls \cup {Idle},
           session' = [session EXCEPT ![p] = call],
           call # Idle /\ call \in DepsCalls => DepsFresh(call),
           call # Idle /\ call \in FieldCalls => FieldFresh(call),
           UNCHANGED <<entry, asked, overtaken>>,
           drafts' \in Seq({"open", "done"})
    PROVE  SessionsInv'
<1>1. SessionsTypeOK' /\ EditsAddUp'
    BY DEF SessionsInv, SessionsTypeOK, EditsAddUp
<1>2. \A q \in Clients : session'[q] = IF q = p THEN call ELSE session[q]
    BY DEF SessionsInv, SessionsTypeOK
<1>3. \A c : (DepsFresh(c) => DepsFresh(c)') /\ (FieldFresh(c) => FieldFresh(c)')
    BY DEF DepsFresh, FieldFresh, WithBlocker, WithoutBlocker
<1>4. \A q \in Clients : session'[q] # Idle /\ session'[q] \in DepsCalls => DepsFresh(session[q])'
    BY <1>2, <1>3 DEF SessionsInv
<1>5. \A q \in Clients : session'[q] # Idle /\ session'[q] \in FieldCalls => FieldFresh(session[q])'
    BY <1>2, <1>3 DEF SessionsInv
<1> QED BY <1>1, <1>4, <1>5 DEF SessionsInv

\* What a write of the blockers, or of the fields, makes of the task.
LEMMA EntryWritten ==
    ASSUME SessionsTypeOK, NEW B \in SUBSET BlockerIds, NEW F \in FieldValues,
           \/ F = entry.fields /\ entry' = [entry EXCEPT !.blockers = B, !.rev = @ + 1]
           \/ B = entry.blockers /\ entry' = [entry EXCEPT !.fields = F, !.rev = @ + 1]
    PROVE  /\ entry' \in [blockers : SUBSET BlockerIds, fields : FieldValues, rev : Nat]
           /\ entry'.rev = entry.rev + 1 /\ entry'.blockers = B /\ entry'.fields = F
<1>1. entry.rev + 1 \in Nat
    BY DEF SessionsTypeOK
<1>2. entry' = [blockers |-> B, fields |-> F, rev |-> entry.rev + 1]
    BY DEF SessionsTypeOK
<1> QED BY <1>1, <1>2

LEMMA SessionsKeep == SessionsInv /\ [SessionsNext]_sessionVars => SessionsInv'
<1> SUFFICES ASSUME SessionsInv, [SessionsNext]_sessionVars PROVE SessionsInv'
    OBVIOUS
<1>1. CASE UNCHANGED sessionVars
    BY <1>1 DEF sessionVars, SessionsInv, SessionsTypeOK, EditsAddUp, DepsFresh, FieldFresh,
       WithBlocker, WithoutBlocker
<1>2. ASSUME NEW p \in Clients, ReadDeps(p) PROVE SessionsInv'
  <2>1. PICK id \in BlockerIds, add \in BOOLEAN :
           session' = [session EXCEPT ![p] =
              [call |-> "deps", id |-> id, add |-> add, read |-> entry.rev, named |-> 0,
               whole |-> IF add THEN WithBlocker(id) ELSE WithoutBlocker(id)]]
      BY <1>2 DEF ReadDeps
  <2> DEFINE call == [call |-> "deps", id |-> id, add |-> add, read |-> entry.rev, named |-> 0,
                      whole |-> IF add THEN WithBlocker(id) ELSE WithoutBlocker(id)]
  <2>2. WithBlocker(id) \in SUBSET BlockerIds /\ WithoutBlocker(id) \in SUBSET BlockerIds
      BY DEF WithBlocker, WithoutBlocker, SessionsInv, SessionsTypeOK
  <2>3. call \in DepsCalls /\ call \notin FieldCalls /\ DepsFresh(call)
      BY <2>2 DEF DepsCalls, FieldCalls, DepsFresh, SessionsInv, SessionsTypeOK
  <2>4. drafts' \in Seq({"open", "done"}) /\ UNCHANGED <<entry, asked, overtaken>>
      BY <1>2 DEF ReadDeps, SessionsInv, SessionsTypeOK
  <2> HIDE DEF call
  <2> QED BY <2>1, <2>3, <2>4, ReadKeeps DEF call
<1>3. ASSUME NEW p \in Clients, ReadFields(p) PROVE SessionsInv'
  <2>1. PICK key \in FieldNames, set \in BOOLEAN, named \in Named :
           session' = [session EXCEPT ![p] =
              [call |-> "field", id |-> key, add |-> set, read |-> entry.rev, named |-> named,
               whole |-> [entry.fields EXCEPT ![key] = set]]]
      BY <1>3 DEF ReadFields
  <2> DEFINE call == [call |-> "field", id |-> key, add |-> set, read |-> entry.rev,
                      named |-> named, whole |-> [entry.fields EXCEPT ![key] = set]]
  <2>2. named \in Nat /\ entry.rev \in Nat /\ named <= entry.rev
      BY DEF Named, SessionsInv, SessionsTypeOK
  <2>3. [entry.fields EXCEPT ![key] = set] \in FieldValues
      BY DEF SessionsInv, SessionsTypeOK, FieldValues
  <2>4. call \in FieldCalls /\ call \notin DepsCalls /\ FieldFresh(call)
      BY <2>2, <2>3 DEF DepsCalls, FieldCalls, FieldFresh
  <2>5. drafts' \in Seq({"open", "done"}) /\ UNCHANGED <<entry, asked, overtaken>>
      BY <1>3 DEF ReadFields, SessionsInv, SessionsTypeOK
  <2> QED BY <2>1, <2>4, <2>5, ReadKeeps
<1>4. ASSUME NEW p \in Clients, ReadDrafts(p) PROVE SessionsInv'
  <2> DEFINE call == [call |-> "create", seen |-> DOMAIN drafts]
  <2>1. call \in CreateCalls /\ call \notin DepsCalls /\ call \notin FieldCalls
      BY DEF CreateCalls, DepsCalls, FieldCalls, SessionsInv, SessionsTypeOK
  <2> QED BY <1>4, <2>1, ReadKeeps DEF ReadDrafts, SessionsInv, SessionsTypeOK
<1>5. ASSUME NEW p \in Clients, GiveUp(p) PROVE SessionsInv'
    BY <1>5, ReadKeeps DEF GiveUp, SessionsInv, SessionsTypeOK
<1>6. ASSUME NEW p \in Clients, WriteDeps(p) PROVE SessionsInv'
  <2> DEFINE call == session[p]
  <2>1. call \in DepsCalls /\ DepsFresh(call) /\ call.named = 0
      BY <1>6 DEF WriteDeps, SessionsInv, SessionsTypeOK, DepsCalls, FieldCalls, CreateCalls
  <2>2. /\ entry' \in [blockers : SUBSET BlockerIds, fields : FieldValues, rev : Nat]
        /\ entry'.rev = entry.rev + 1 /\ entry'.blockers = call.whole
        /\ entry'.fields = entry.fields
    <3>1. call.whole \in SUBSET BlockerIds /\ entry.fields \in FieldValues
        BY <2>1 DEF DepsCalls, SessionsInv, SessionsTypeOK
    <3> QED BY <1>6, <3>1, EntryWritten DEF WriteDeps, SessionsInv
  <2>3. /\ asked' \in [blockers : SUBSET BlockerIds, fields : FieldValues]
        /\ asked'.fields = asked.fields
        /\ asked'.blockers = IF call.add THEN asked.blockers \cup {call.id}
                             ELSE asked.blockers \ {call.id}
    <3> DEFINE edited == IF call.add THEN asked.blockers \cup {call.id}
                         ELSE asked.blockers \ {call.id}
    <3>1. edited \in SUBSET BlockerIds
        BY <2>1 DEF DepsCalls, SessionsInv, SessionsTypeOK
    <3>2. asked' = [asked EXCEPT !.blockers = edited]
        BY <1>6 DEF WriteDeps, SessionsInv, SessionsTypeOK
    <3> HIDE DEF edited
    <3>3. /\ asked' \in [blockers : SUBSET BlockerIds, fields : FieldValues]
          /\ asked'.fields = asked.fields /\ asked'.blockers = edited
        BY <3>1, <3>2 DEF SessionsInv, SessionsTypeOK
    <3> QED BY <3>3 DEF edited
  <2>4. /\ overtaken \subseteq overtaken'
        /\ call.read = entry.rev \/ "blockers" \in overtaken'
      BY <1>6, <2>1 DEF WriteDeps, Outdated
  <2>5. EditsAddUp'
      BY <2>1, <2>2, <2>3, <2>4
      DEF EditsAddUp, DepsFresh, WithBlocker, WithoutBlocker, SessionsInv
  <2> QED BY <1>6, <2>2, <2>3, <2>5, WriteOvertakes DEF WriteDeps
<1>7. ASSUME NEW p \in Clients, WriteFields(p) PROVE SessionsInv'
  <2> DEFINE call == session[p]
  <2>1. call \in FieldCalls /\ FieldFresh(call)
      BY <1>7 DEF WriteFields, SessionsInv, SessionsTypeOK, DepsCalls, FieldCalls, CreateCalls
  <2>2. /\ entry' \in [blockers : SUBSET BlockerIds, fields : FieldValues, rev : Nat]
        /\ entry'.rev = entry.rev + 1 /\ entry'.fields = call.whole
        /\ entry'.blockers = entry.blockers
    <3>1. call.whole \in FieldValues /\ entry.blockers \in SUBSET BlockerIds
        BY <2>1 DEF FieldCalls, SessionsInv, SessionsTypeOK
    <3> QED BY <1>7, <3>1, EntryWritten DEF WriteFields, SessionsInv
  <2>3. /\ asked' \in [blockers : SUBSET BlockerIds, fields : FieldValues]
        /\ asked'.blockers = asked.blockers
        /\ asked'.fields = [asked.fields EXCEPT ![call.id] = call.add]
    <3>1. asked' = [asked EXCEPT !.fields = [asked.fields EXCEPT ![call.id] = call.add]]
        BY <1>7 DEF WriteFields, SessionsInv, SessionsTypeOK
    <3>2. [asked.fields EXCEPT ![call.id] = call.add] \in FieldValues
        BY <2>1 DEF FieldValues, FieldCalls, SessionsInv, SessionsTypeOK
    <3> DEFINE edited == [asked.fields EXCEPT ![call.id] = call.add]
    <3> HIDE DEF edited
    <3>3. /\ asked' \in [blockers : SUBSET BlockerIds, fields : FieldValues]
          /\ asked'.blockers = asked.blockers /\ asked'.fields = edited
        BY <3>1, <3>2 DEF SessionsInv, SessionsTypeOK, edited
    <3> QED BY <3>3 DEF edited
  <2>4. /\ overtaken \subseteq overtaken'
        /\ call.read = entry.rev \/ "fields" \in overtaken'
    <3>1. overtaken' = overtaken \cup Outdated(call, "fields")
        BY <1>7 DEF WriteFields
    <3>2. call.named \in {0, entry.rev}
        BY <1>7 DEF WriteFields, UnchangedRevision
    <3>3. call.named = 0 \/ call.read = entry.rev
        BY <2>1, <3>2 DEF FieldFresh, FieldCalls, SessionsInv, SessionsTypeOK
    <3> QED BY <3>1, <3>3 DEF Outdated
  <2>5. EditsAddUp'
      BY <2>1, <2>2, <2>3, <2>4 DEF EditsAddUp, FieldFresh, SessionsInv
  <2> QED BY <1>7, <2>2, <2>3, <2>5, WriteOvertakes DEF WriteFields
<1>8. CASE WriteOther
  <2>1. /\ entry' \in [blockers : SUBSET BlockerIds, fields : FieldValues, rev : Nat]
        /\ entry'.rev = entry.rev + 1 /\ entry'.fields = entry.fields
        /\ entry'.blockers = entry.blockers
      BY <1>8 DEF WriteOther, SessionsInv, SessionsTypeOK
  <2>2. EditsAddUp'
      BY <1>8, <2>1 DEF WriteOther, EditsAddUp, SessionsInv
  <2> QED BY <1>8, <2>1, <2>2, WriteOvertakes DEF WriteOther, SessionsInv, SessionsTypeOK
<1>9. CASE WriteBlockers
  <2>1. PICK B \in SUBSET BlockerIds :
           /\ entry' = [entry EXCEPT !.blockers = B, !.rev = @ + 1]
           /\ asked' = [asked EXCEPT !.blockers = B]
      BY <1>9 DEF WriteBlockers
  <2>2. /\ entry' \in [blockers : SUBSET BlockerIds, fields : FieldValues, rev : Nat]
        /\ entry'.rev = entry.rev + 1 /\ entry'.fields = entry.fields /\ entry'.blockers = B
    <3>1. entry.fields \in FieldValues
        BY DEF SessionsInv, SessionsTypeOK
    <3> QED BY <2>1, <3>1, EntryWritten DEF SessionsInv
  <2>3. /\ asked' \in [blockers : SUBSET BlockerIds, fields : FieldValues]
        /\ asked'.fields = asked.fields /\ asked'.blockers = B
      BY <2>1 DEF SessionsInv, SessionsTypeOK
  <2>4. EditsAddUp'
      BY <1>9, <2>2, <2>3 DEF WriteBlockers, EditsAddUp, SessionsInv
  <2> QED BY <1>9, <2>2, <2>3, <2>4, WriteOvertakes DEF WriteBlockers
<1>10. ASSUME NEW p \in Clients, WriteDraft(p) PROVE SessionsInv'
  <2>1. drafts' \in Seq({"open", "done"})
      BY <1>10 DEF WriteDraft, SessionsInv, SessionsTypeOK
  <2> QED BY <1>10, <2>1, ReadKeeps DEF WriteDraft
<1>11. CASE MarkDraft
  <2>1. drafts' \in Seq({"open", "done"})
      BY <1>11 DEF MarkDraft, OpenDrafts, SessionsInv, SessionsTypeOK
  <2> QED BY <1>11, <2>1
          DEF MarkDraft, SessionsInv, SessionsTypeOK, EditsAddUp, DepsFresh, FieldFresh,
              WithBlocker, WithoutBlocker
<1> QED BY <1>1, <1>2, <1>3, <1>4, <1>5, <1>6, <1>7, <1>8, <1>9, <1>10, <1>11 DEF SessionsNext

\* Whatever the clients read and write, and in whatever order: edits add up unless a
\* call without a revision wrote what another's write had outdated.
THEOREM SessionsSafe == SessionsSpec => []EditsAddUp
<1>1. SessionsInv => EditsAddUp
    BY DEF SessionsInv
<1> QED BY <1>1, SessionsStart, SessionsKeep, PTL DEF SessionsSpec

\* A create that read the tasks of its body, open or not, read no open one; and a
\* task that is finished is never open again.
DraftsInv ==
    /\ drafts \in Seq({"open", "done"}) /\ blind \in Seq(SUBSET Nat)
    /\ Len(blind) = Len(drafts)
    /\ session = [p \in Clients |-> session[p]]
    /\ DuplicatesOverlap
    /\ \A p \in Clients : session[p] # Idle /\ session[p].call = "create" =>
          session[p].seen \subseteq DOMAIN drafts \ OpenDrafts(drafts)

LEMMA DraftsStart == SessionsInit => DraftsInv
<1> SUFFICES ASSUME SessionsInit PROVE DraftsInv
    OBVIOUS
<1>1. drafts = <<>> /\ blind = <<>> /\ session = [p \in Clients |-> Idle]
    BY DEF SessionsInit
<1>2. drafts \in Seq({"open", "done"}) /\ blind \in Seq(SUBSET Nat) /\ OpenDrafts(drafts) = {}
    BY <1>1 DEF OpenDrafts
<1> QED BY <1>1, <1>2 DEF DraftsInv, DuplicatesOverlap

\* A step that leaves the tasks alone lets a call begin, if it saw no open task,
\* or end.
LEMMA DraftsStay ==
    ASSUME DraftsInv, UNCHANGED <<drafts, blind>>, NEW p \in Clients, NEW call,
           session' = [session EXCEPT ![p] = call],
           call # Idle /\ call.call = "create" =>
              call.seen \subseteq DOMAIN drafts \ OpenDrafts(drafts)
    PROVE  DraftsInv'
<1>1. session' = [q \in Clients |-> session'[q]]
    BY DEF DraftsInv
<1>2. \A q \in Clients : session'[q] = IF q = p THEN call ELSE session[q]
    BY DEF DraftsInv
<1>3. OpenDrafts(drafts)' = OpenDrafts(drafts) /\ DuplicatesOverlap'
    BY DEF OpenDrafts, DraftsInv, DuplicatesOverlap
<1>4. \A q \in Clients : session'[q] # Idle /\ session'[q].call = "create" =>
         session'[q].seen \subseteq DOMAIN drafts \ OpenDrafts(drafts)
    BY <1>2 DEF DraftsInv
<1> QED BY <1>1, <1>3, <1>4 DEF DraftsInv

LEMMA DraftsKeep == DraftsInv /\ [SessionsNext]_sessionVars => DraftsInv'
<1> SUFFICES ASSUME DraftsInv, [SessionsNext]_sessionVars PROVE DraftsInv'
    OBVIOUS
<1>1. CASE UNCHANGED <<drafts, blind, session>>
    BY <1>1 DEF DraftsInv, DuplicatesOverlap, OpenDrafts
<1>2. ASSUME NEW p \in Clients, ReadDeps(p) PROVE DraftsInv'
    BY <1>2, DraftsStay DEF ReadDeps
<1>3. ASSUME NEW p \in Clients, ReadFields(p) PROVE DraftsInv'
    BY <1>3, DraftsStay DEF ReadFields
<1>4. ASSUME NEW p \in Clients, ReadDrafts(p) PROVE DraftsInv'
  <2> DEFINE call == [call |-> "create", seen |-> DOMAIN drafts]
  <2>1. call.seen \subseteq DOMAIN drafts \ OpenDrafts(drafts)
      BY <1>4 DEF ReadDrafts, Duplicate
  <2>2. session' = [session EXCEPT ![p] = call] /\ UNCHANGED <<drafts, blind>>
      BY <1>4 DEF ReadDrafts
  <2> HIDE DEF call
  <2> QED BY <2>1, <2>2, DraftsStay
<1>5. ASSUME NEW p \in Clients, GiveUp(p) \/ WriteDeps(p) \/ WriteFields(p) PROVE DraftsInv'
  <2>1. session' = [session EXCEPT ![p] = Idle] /\ UNCHANGED <<drafts, blind>>
      BY <1>5 DEF GiveUp, WriteDeps, WriteFields
  <2> QED BY <2>1, DraftsStay
<1>6. ASSUME NEW p \in Clients, WriteDraft(p) PROVE DraftsInv'
  <2> DEFINE n == Len(drafts)
  <2>1. /\ drafts' = Append(drafts, "open")
        /\ blind' = Append(blind, OpenDrafts(drafts) \ session[p].seen)
        /\ session' = [session EXCEPT ![p] = Idle]
        /\ session[p] # Idle /\ session[p].call = "create"
      BY <1>6 DEF WriteDraft
  <2>2. n \in Nat /\ DOMAIN drafts = 1..n /\ DOMAIN blind = 1..n
      BY DEF DraftsInv
  <2>3. OpenDrafts(drafts) \in SUBSET Nat
      BY <2>2 DEF OpenDrafts
  <2>4. /\ drafts' \in Seq({"open", "done"}) /\ blind' \in Seq(SUBSET Nat)
        /\ Len(drafts') = n + 1 /\ Len(blind') = n + 1 /\ DOMAIN drafts' = 1..n + 1
      BY <2>1, <2>2, <2>3 DEF DraftsInv
  <2>5. \A i \in 1..n : drafts'[i] = drafts[i] /\ blind'[i] = blind[i]
      BY <2>1, <2>2 DEF DraftsInv
  <2>6. blind'[n + 1] = OpenDrafts(drafts) \ session[p].seen
      BY <2>1, <2>2 DEF DraftsInv
  <2>7. OpenDrafts(drafts)' = OpenDrafts(drafts) \cup {n + 1}
    <3>1. drafts'[n + 1] = "open"
        BY <2>1, <2>2 DEF DraftsInv
    <3> QED BY <3>1, <2>2, <2>4, <2>5 DEF OpenDrafts
  <2>8. OpenDrafts(drafts) \ session[p].seen = OpenDrafts(drafts)
      BY <2>1 DEF DraftsInv
  <2>9. DuplicatesOverlap'
    <3> SUFFICES ASSUME NEW i \in OpenDrafts(drafts)', NEW j \in OpenDrafts(drafts)', i < j
                 PROVE  i \in blind'[j]
        BY DEF DuplicatesOverlap
    <3>1. OpenDrafts(drafts) \subseteq 1..n
        BY <2>2 DEF OpenDrafts
    <3>2. CASE j = n + 1
        BY <3>1, <3>2, <2>2, <2>6, <2>7, <2>8
    <3>3. CASE j \in OpenDrafts(drafts)
      <4>1. i \in OpenDrafts(drafts)
          BY <3>1, <3>3, <2>2, <2>7
      <4> QED BY <4>1, <3>1, <3>3, <2>5 DEF DraftsInv, DuplicatesOverlap
    <3> QED BY <3>2, <3>3, <2>7
  <2>10. \A q \in Clients : session'[q] = IF q = p THEN Idle ELSE session[q]
      BY <2>1 DEF DraftsInv
  <2>11. DOMAIN drafts \ OpenDrafts(drafts) \subseteq DOMAIN drafts' \ OpenDrafts(drafts)'
      BY <2>2, <2>4, <2>7
  <2>12. \A q \in Clients : session'[q] # Idle /\ session'[q].call = "create" =>
           session'[q].seen \subseteq DOMAIN drafts' \ OpenDrafts(drafts)'
      BY <2>10, <2>11 DEF DraftsInv
  <2>13. session' = [q \in Clients |-> session'[q]]
      BY <2>1 DEF DraftsInv
  <2> QED BY <2>4, <2>9, <2>12, <2>13 DEF DraftsInv
<1>7. CASE MarkDraft
  <2>1. PICK i \in OpenDrafts(drafts) : drafts' = [drafts EXCEPT ![i] = "done"]
      BY <1>7 DEF MarkDraft
  <2>2. UNCHANGED <<session, blind>>
      BY <1>7 DEF MarkDraft
  <2>3. /\ drafts' \in Seq({"open", "done"})
        /\ Len(drafts') = Len(drafts) /\ DOMAIN drafts' = DOMAIN drafts
      BY <2>1 DEF DraftsInv, OpenDrafts
  <2>4. OpenDrafts(drafts)' \subseteq OpenDrafts(drafts)
      BY <2>1, <2>3 DEF OpenDrafts, DraftsInv
  <2> QED BY <2>2, <2>3, <2>4 DEF DraftsInv, DuplicatesOverlap
<1> QED BY <1>1, <1>2, <1>3, <1>4, <1>5, <1>6, <1>7
        DEF SessionsNext, sessionVars, WriteOther, WriteBlockers

\* create --reject-duplicates lets two open tasks of one body in only if the two
\* calls overlapped, however many clients create and finish tasks.
THEOREM DuplicatesSafe == SessionsSpec => []DuplicatesOverlap
<1>1. DraftsInv => DuplicatesOverlap
    BY DEF DraftsInv
<1> QED BY <1>1, DraftsStart, DraftsKeep, PTL DEF SessionsSpec

---------------------------------------------------------------------------
(* Window                                                                  *)

\* A receipt binds evidence of the truth it was accepted for, and so does a lift.
\* A saved configuration or a later gate changes neither.
Earned(paper) == paper # Unset => \A g \in Gates : paper.bound[g] = paper.truth

WindowInv == Earned(receipt) /\ Earned(lift)

LEMMA WindowStarts == WindowInit => WindowInv
BY DEF WindowInit, WindowInv, Earned

LEMMA WindowKeeps == WindowInv /\ [WindowNext]_windowVars => WindowInv'
<1> SUFFICES ASSUME WindowInv, [WindowNext]_windowVars PROVE WindowInv'
    OBVIOUS
<1>1. CASE EditFields \/ ReplaceFields \/ Environment \/ RunGate \/ UNCHANGED windowVars
  <2>1. UNCHANGED <<receipt, lift>>
      BY <1>1 DEF EditFields, ReplaceFields, Environment, RunGate, windowVars
  <2> QED BY <2>1 DEF WindowInv, Earned
<1>2. CASE AcceptGates
  <2>1. receipt' = [bound |-> evidence, truth |-> Truth] /\ lift' = lift
      BY <1>2 DEF AcceptGates
  <2>2. \A g \in Gates : receipt'.bound[g] = receipt'.truth
      BY <1>2, <2>1 DEF AcceptGates
  <2> QED BY <2>1, <2>2 DEF WindowInv, Earned
<1>3. CASE LiftCompare
  <2>1. /\ receipt # Unset /\ receipt' = receipt
        /\ receipt.truth = Truth /\ receipt.bound = evidence
      BY <1>3 DEF LiftCompare, StillAccepted
  <2>2. lift' = [bound |-> evidence, truth |-> Truth]
      BY <1>3 DEF LiftCompare
  <2>3. \A g \in Gates : evidence[g] = Truth
      BY <2>1 DEF WindowInv, Earned
  <2>4. \A g \in Gates : lift'.bound[g] = lift'.truth
      BY <2>2, <2>3
  <2> QED BY <2>1, <2>4 DEF WindowInv, Earned
<1>4. CASE LiftSave
    BY <1>4 DEF LiftSave, WindowInv, Earned
<1> QED BY <1>1, <1>2, <1>3, <1>4 DEF WindowNext

\* However mutations, gates and acceptances interleave with it, a lift compares its
\* way to a board that every gate has seen.
THEOREM WindowSafe == WindowSpec => []LiftIsEarned
<1>1. WindowInv => LiftIsEarned
    BY DEF WindowInv, Earned, LiftIsEarned
<1> QED BY <1>1, WindowStarts, WindowKeeps, PTL DEF WindowSpec

---------------------------------------------------------------------------
(* Publication                                                             *)

Order(m) == Ascending(Manifests[m])

PublicationTypes ==
    /\ revisions \in [Entries -> Seq(DOMAIN Manifests \cup {Project})]
    /\ published \in [Entries -> SUBSET Nat]
    /\ sealed \subseteq Entries
    /\ locks \in [Locks -> Publishers \cup {Free}]
    /\ work \in [Publishers -> Calls \cup {Free}]
    /\ printed \in Receipts \cup {Free}
    /\ \A p \in Publishers : work[p] # Free =>
          work[p].plan \in [Manifests[work[p].manifest] -> 0..MaxRevision]

\* An event is of a revision; no manifest follows upon itself.
Sound ==
    /\ \A e \in Entries : published[e] \subseteq 1..Revision(e) /\ Revision(e) <= MaxRevision
    /\ \A e \in Entries : \A i \in 1..Revision(e) - 1 :
          revisions[e][i] = revisions[e][i + 1] => revisions[e][i] = Project

\* The locks of a call are the first ones of its sequence, or all of them.
Taken(w) == IF w.stage = "lock" THEN 1..w.next - 1 ELSE 1..Len(LockSequence(w.manifest))
Locked ==
    /\ \A p \in Publishers : work[p] # Free =>
          /\ work[p].stage = "lock" => work[p].next \in 1..Len(LockSequence(work[p].manifest))
          /\ work[p].stage = "check" => work[p].next = 1
          /\ \A k \in Taken(work[p]) : locks[LockSequence(work[p].manifest)[k]] = p
    /\ \A p \in Publishers, l \in Locks : locks[l] = p =>
          /\ work[p] # Free
          /\ \E k \in Taken(work[p]) : l = LockSequence(work[p].manifest)[k]

\* An entry that is published as the plan binds it, one that its turn has come to
\* and one that it has not.
Finished(m, plan, e) ==
    Done(m, e) /\ Revision(e) = Bound(m, plan, e) /\ Revision(e) \in published[e]
Begun(m, plan, e) ==
    Done(m, e) /\ Revision(e) = Bound(m, plan, e) /\ Revision(e) \notin published[e]

Publishing(w) ==
    w.stage \in {"revision", "event"} =>
        /\ w.next \in 1..Cardinality(Manifests[w.manifest])
        /\ \A i \in 1..Cardinality(Manifests[w.manifest]) :
              LET e == Order(w.manifest)[i] IN
              /\ i < w.next => Finished(w.manifest, w.plan, e)
              /\ i > w.next => Follows(w.manifest, w.plan, e)
              /\ i = w.next => IF w.stage = "event" THEN Begun(w.manifest, w.plan, e)
                               ELSE Follows(w.manifest, w.plan, e)

\* What a receipt pins was published and is what its plan binds.
Pinned ==
    printed # Free =>
        /\ DOMAIN printed.pins = Manifests[printed.manifest]
        /\ printed.plan \in [Manifests[printed.manifest] -> 0..MaxRevision]
        /\ \A e \in DOMAIN printed.pins :
              /\ Owner(e, printed.pins[e]) = printed.manifest
              /\ printed.pins[e] \in published[e]
              /\ printed.pins[e] = Bound(printed.manifest, printed.plan, e)

PublicationInv ==
    /\ PublicationTypes /\ Sound /\ Locked /\ Pinned
    /\ \A p \in Publishers : \A w \in {work[p]} \ {Free} : Publishing(w)
---------------------------------------------------------------------------
(* Publication: orders and locks *)

LEMMA ManifestIs ==
    ASSUME NEW m \in DOMAIN Manifests
    PROVE  /\ Manifests[m] \subseteq Entries /\ Manifests[m] \in SUBSET Nat
           /\ Manifests[m] # {} /\ IsFiniteSet(Manifests[m])
BY PublicationAssumption DEF Entries

LEMMA OrderIs ==
    ASSUME NEW m \in DOMAIN Manifests
    PROVE  /\ Cardinality(Manifests[m]) \in Nat \ {0}
           /\ \A i \in 1..Cardinality(Manifests[m]) : Order(m)[i] \in Manifests[m]
           /\ \A e \in Manifests[m] : \E i \in 1..Cardinality(Manifests[m]) : Order(m)[i] = e
           /\ \A i, j \in 1..Cardinality(Manifests[m]) : Order(m)[i] = Order(m)[j] => i = j
<1>1. Cardinality(Manifests[m]) \in Nat \ {0}
  BY ManifestIs, FS_CardinalityType, FS_EmptySet
<1>2. Enumerates(Order(m), Manifests[m])
  BY ManifestIs, AscendingIs DEF Order
<1>3. ASSUME NEW i \in 1..Cardinality(Manifests[m]), NEW j \in 1..Cardinality(Manifests[m]),
             Order(m)[i] = Order(m)[j]
      PROVE  i = j
  <2>1. Order(m)[i] \in Nat
    BY <1>2, ManifestIs DEF Enumerates
  <2>2. ~ (i < j) /\ ~ (j < i)
    BY <1>2, <1>3, <2>1 DEF Enumerates
  <2> QED
    BY <1>1, <2>2
<1> QED
  BY <1>1, <1>2, <1>3 DEF Enumerates

LEMMA SequenceIs ==
    ASSUME NEW m \in DOMAIN Manifests
    PROVE  /\ Len(LockSequence(m)) \in Nat \ {0}
           /\ \A k \in 1..Len(LockSequence(m)) : LockSequence(m)[k] \in Locks
           /\ \A e \in Manifests[m] : \E k \in 1..Len(LockSequence(m)) :
                 LockSequence(m)[k] = LockOf[e]
           /\ \A i, j \in 1..Len(LockSequence(m)) :
                 i < j => LockSequence(m)[i] < LockSequence(m)[j]
           /\ \A k \in 1..Len(LockSequence(m)) : LockSequence(m)[k] \in Nat
<1> DEFINE S == {LockOf[e] : e \in Manifests[m]}
           f == [e \in Manifests[m] |-> LockOf[e]]
<1>1. S \in SUBSET Nat /\ S \subseteq Locks /\ S # {}
  BY ManifestIs, PublicationAssumption DEF Locks
<1>2. f \in Surjection(Manifests[m], S)
  BY DEF Surjection
<1>3. IsFiniteSet(S)
  <2> HIDE DEF S, f
  <2> QED
    BY <1>2, ManifestIs, FS_Surjection
<1>4. LockSequence(m) = Ascending(S)
  BY DEF LockSequence
<1>5. \A e \in Manifests[m] : LockOf[e] \in S
  OBVIOUS
<1> HIDE DEF S
<1>6. Enumerates(LockSequence(m), S) /\ Len(LockSequence(m)) = Cardinality(S)
  BY <1>1, <1>3, <1>4, AscendingIs
<1>7. Cardinality(S) \in Nat \ {0}
  BY <1>1, <1>3, FS_CardinalityType, FS_EmptySet
<1> QED
  BY <1>1, <1>5, <1>6, <1>7 DEF Enumerates

\* A call that has all its locks has that of each entry.
LEMMA Owns ==
    ASSUME PublicationInv, NEW q \in Publishers, work[q] # Free, work[q].stage # "lock",
           NEW e \in Manifests[work[q].manifest]
    PROVE  locks[LockOf[e]] = q
<1>1. work[q].manifest \in DOMAIN Manifests
  BY DEF PublicationInv, PublicationTypes, Calls
<1>2. PICK k \in 1..Len(LockSequence(work[q].manifest)) :
          LockSequence(work[q].manifest)[k] = LockOf[e]
  BY <1>1, SequenceIs
<1> QED
  BY <1>2 DEF PublicationInv, Locked, Taken

---------------------------------------------------------------------------
(* Publication: what a step leaves alone *)

LEMMA SameEntry ==
    ASSUME NEW m, NEW rows, NEW e, revisions'[e] = revisions[e], published'[e] = published[e]
    PROVE  /\ Finished(m, rows, e)' <=> Finished(m, rows, e)
           /\ Begun(m, rows, e)' <=> Begun(m, rows, e)
           /\ Follows(m, rows, e)' <=> Follows(m, rows, e)
BY DEF Finished, Begun, Follows, Done, Bound, Owner, Revision

LEMMA OtherPublishing ==
    ASSUME NEW w \in Calls, Publishing(w),
           \A e \in Manifests[w.manifest] :
               revisions'[e] = revisions[e] /\ published'[e] = published[e]
    PROVE  Publishing(w)'
<1> SUFFICES ASSUME w.stage \in {"revision", "event"}
             PROVE  Publishing(w)'
  BY DEF Publishing
<1>1. w.manifest \in DOMAIN Manifests
  BY DEF Calls
<1>2. \A i \in 1..Cardinality(Manifests[w.manifest]) :
          Order(w.manifest)[i] \in Manifests[w.manifest]
  BY <1>1, OrderIs
<1>3. ASSUME NEW i \in 1..Cardinality(Manifests[w.manifest])
      PROVE  LET e == Order(w.manifest)[i] IN
             /\ i < w.next => Finished(w.manifest, w.plan, e)'
             /\ i > w.next => Follows(w.manifest, w.plan, e)'
             /\ i = w.next => IF w.stage = "event" THEN Begun(w.manifest, w.plan, e)'
                              ELSE Follows(w.manifest, w.plan, e)'
  <2>1. PICK e : e = Order(w.manifest)[i]
    OBVIOUS
  <2>2. revisions'[e] = revisions[e] /\ published'[e] = published[e]
    BY <1>2, <2>1
  <2>3. /\ Finished(w.manifest, w.plan, e)' <=> Finished(w.manifest, w.plan, e)
        /\ Begun(w.manifest, w.plan, e)' <=> Begun(w.manifest, w.plan, e)
        /\ Follows(w.manifest, w.plan, e)' <=> Follows(w.manifest, w.plan, e)
    BY <2>2, SameEntry
  <2> QED
    BY <2>1, <2>3 DEF Publishing
<1> QED
  BY <1>3 DEF Publishing

LEMMA PinStays ==
    ASSUME Pinned, PublicationTypes, UNCHANGED printed,
           \A e \in Entries : /\ published[e] \subseteq published'[e]
                              /\ \A i \in published[e] : \A j \in 0..i : Owner(e, j)' = Owner(e, j)
    PROVE  Pinned'
<1> SUFFICES ASSUME printed # Free, NEW e \in DOMAIN printed.pins
             PROVE  /\ Owner(e, printed.pins[e])' = printed.manifest
                    /\ printed.pins[e] \in published'[e]
                    /\ printed.pins[e] = Bound(printed.manifest, printed.plan, e)'
  BY DEF Pinned, Bound, Owner, Revision
<1>1. /\ printed.manifest \in DOMAIN Manifests /\ e \in Manifests[printed.manifest]
      /\ e \in Entries
  BY ManifestIs DEF Pinned, PublicationTypes, Receipts
<1>2. PICK i : i = printed.pins[e]
  OBVIOUS
<1>3. PICK k : k = printed.plan[e]
  OBVIOUS
<1>4. /\ Owner(e, i) = printed.manifest /\ i \in published[e]
      /\ i = IF Owner(e, k) = printed.manifest THEN k ELSE k + 1
  BY <1>2, <1>3 DEF Pinned, Bound
<1>5. k \in Nat /\ i \in Nat
  BY <1>1, <1>3, <1>4, PublicationAssumption DEF Pinned, PublicationTypes
<1>6. i \in 0..i /\ k \in 0..i
  BY <1>4, <1>5
<1>7. Owner(e, i)' = Owner(e, i) /\ Owner(e, k)' = Owner(e, k) /\ i \in published'[e]
  BY <1>1, <1>4, <1>6
<1> QED
  BY <1>2, <1>3, <1>4, <1>7 DEF Bound, Owner, Revision

\* What an added revision changes.
LEMMA Added ==
    ASSUME PublicationTypes, NEW e \in Entries, NEW m \in DOMAIN Manifests \cup {Project},
           revisions' = [revisions EXCEPT ![e] = Append(@, m)]
    PROVE  /\ revisions' \in [Entries -> Seq(DOMAIN Manifests \cup {Project})]
           /\ Revision(e) \in Nat /\ Revision(e)' = Revision(e) + 1
           /\ revisions'[e][Revision(e) + 1] = m
           /\ \A i \in 1..Revision(e) : revisions'[e][i] = revisions[e][i]
           /\ \A f \in Entries \ {e} : revisions'[f] = revisions[f]
           /\ \A f \in Entries : \A j \in 0..Revision(f) : Owner(f, j)' = Owner(f, j)
<1>1. /\ revisions[e] \in Seq(DOMAIN Manifests \cup {Project})
      /\ revisions'[e] = Append(revisions[e], m)
      /\ \A f \in Entries \ {e} : revisions'[f] = revisions[f]
      /\ revisions' \in [Entries -> Seq(DOMAIN Manifests \cup {Project})]
  BY DEF PublicationTypes
<1>2. /\ Revision(e) \in Nat /\ Revision(e)' = Revision(e) + 1
      /\ revisions'[e][Revision(e) + 1] = m
      /\ \A i \in 1..Revision(e) : revisions'[e][i] = revisions[e][i]
  BY <1>1 DEF Revision
<1>3. ASSUME NEW j \in 0..Revision(e)
      PROVE  Owner(e, j)' = Owner(e, j)
  <2>1. PICK n : n = Revision(e)
    OBVIOUS
  <2>2. CASE j = 0
    BY <1>2, <2>1, <2>2 DEF Owner
  <2>3. CASE j \in 1..n
    <3>1. revisions'[e][j] = revisions[e][j] /\ j \in 1..Revision(e)
      BY <1>2, <2>1, <2>3
    <3>2. PICK k : k = Revision(e)'
      OBVIOUS
    <3>3. j \in 1..k
      BY <1>2, <2>1, <2>3, <3>2
    <3> QED
      BY <3>1, <3>2, <3>3 DEF Owner
  <2> QED
    BY <1>2, <2>1, <2>2, <2>3
<1>4. \A f \in Entries \ {e} : \A j : Owner(f, j)' = Owner(f, j)
  BY <1>1 DEF Owner, Revision
<1> QED
  BY <1>1, <1>2, <1>3, <1>4

---------------------------------------------------------------------------
(* Publication: what a call's step leaves of the others *)

\* A call that has its locks is alone on its entries.
LEMMA OthersKeep ==
    ASSUME PublicationInv, NEW p \in Publishers, work[p] # Free, work[p].stage # "lock",
           \A e \in Entries \ Manifests[work[p].manifest] :
               revisions'[e] = revisions[e] /\ published'[e] = published[e],
           \A q \in Publishers \ {p} : work'[q] = work[q],
           NEW q \in Publishers \ {p}, NEW w \in {work'[q]} \ {Free}
    PROVE  Publishing(w)'
<1>1. w = work[q] /\ w \in Calls /\ Publishing(w)
  BY DEF PublicationInv, PublicationTypes
<1>2. w.manifest \in DOMAIN Manifests /\ Manifests[w.manifest] \subseteq Entries
  BY <1>1, ManifestIs DEF Calls
<1>3. CASE w.stage \in {"revision", "event"}
  <2>1. ASSUME NEW e \in Manifests[w.manifest]
        PROVE  e \notin Manifests[work[p].manifest]
    <3>1. locks[LockOf[e]] = q
      BY <1>1, <1>3, <2>1, Owns
    <3> QED
      BY <3>1, Owns
  <2> QED
    BY <1>1, <1>2, <2>1, OtherPublishing
<1>4. CASE w.stage \notin {"revision", "event"}
  BY <1>4 DEF Publishing
<1> QED
  BY <1>3, <1>4

\* A step that touches no entry that is being published.
LEMMA AllKeep ==
    ASSUME PublicationInv,
           \A p \in Publishers : \A e \in Entries :
               /\ work[p] # Free /\ work[p].stage # "lock" /\ e \in Manifests[work[p].manifest]
               => revisions'[e] = revisions[e] /\ published'[e] = published[e],
           NEW q \in Publishers, work'[q] = work[q], NEW w \in {work'[q]} \ {Free}
    PROVE  Publishing(w)'
<1>1. w = work[q] /\ w \in Calls /\ Publishing(w)
  BY DEF PublicationInv, PublicationTypes
<1>2. w.manifest \in DOMAIN Manifests /\ Manifests[w.manifest] \subseteq Entries
  BY <1>1, ManifestIs DEF Calls
<1>3. CASE w.stage \in {"revision", "event"}
  BY <1>1, <1>2, <1>3, OtherPublishing
<1>4. CASE w.stage \notin {"revision", "event"}
  BY <1>4 DEF Publishing
<1> QED
  BY <1>3, <1>4

\* A call that goes on with its locks.
LEMMA Moves ==
    ASSUME PublicationInv, NEW p \in Publishers, work[p] # Free, work[p].stage # "lock",
           NEW w \in Calls, w.stage \in {"revision", "event"},
           w.manifest = work[p].manifest, w.plan = work[p].plan,
           work' = [work EXCEPT ![p] = w], UNCHANGED locks
    PROVE  /\ Locked' /\ work' \in [Publishers -> Calls \cup {Free}]
           /\ \A q \in Publishers : work'[q] # Free =>
                 work'[q].plan \in [Manifests[work'[q].manifest] -> 0..MaxRevision]
           /\ work'[p] = w /\ \A q \in Publishers \ {p} : work'[q] = work[q]
<1>1. /\ work'[p] = w /\ \A q \in Publishers \ {p} : work'[q] = work[q]
      /\ work' \in [Publishers -> Calls \cup {Free}]
      /\ w # Free
  BY FreeAssumption DEF PublicationInv, PublicationTypes
<1>2. Taken(w) = Taken(work[p])
  BY DEF Taken
<1>3. ASSUME NEW q \in Publishers, work'[q] # Free
      PROVE  /\ work'[q].stage = "lock" =>
                    work'[q].next \in 1..Len(LockSequence(work'[q].manifest))
             /\ work'[q].stage = "check" => work'[q].next = 1
             /\ \A k \in Taken(work'[q]) : locks[LockSequence(work'[q].manifest)[k]] = q
  <2>1. CASE q = p
    BY <1>1, <1>2, <1>3, <2>1 DEF PublicationInv, Locked
  <2>2. CASE q # p
    BY <1>1, <1>3, <2>2 DEF PublicationInv, Locked
  <2> QED
    BY <2>1, <2>2
<1>4. ASSUME NEW q \in Publishers, NEW l \in Locks, locks[l] = q
      PROVE  /\ work'[q] # Free
             /\ \E k \in Taken(work'[q]) : l = LockSequence(work'[q].manifest)[k]
  <2>1. CASE q = p
    BY <1>1, <1>2, <1>4, <2>1 DEF PublicationInv, Locked
  <2>2. CASE q # p
    BY <1>1, <1>4, <2>2 DEF PublicationInv, Locked
  <2> QED
    BY <2>1, <2>2
<1>5. Locked'
  BY <1>3, <1>4 DEF Locked, Taken
<1>6. \A q \in Publishers : work'[q] # Free =>
          work'[q].plan \in [Manifests[work'[q].manifest] -> 0..MaxRevision]
  BY <1>1 DEF PublicationInv, PublicationTypes
<1> QED
  BY <1>1, <1>5, <1>6

\* A call that ends.
LEMMA CallEnds ==
    ASSUME PublicationInv, NEW p \in Publishers, work[p] # Free, LetGo(p)
    PROVE  /\ Locked' /\ work' \in [Publishers -> Calls \cup {Free}]
           /\ locks' \in [Locks -> Publishers \cup {Free}]
           /\ \A q \in Publishers : work'[q] # Free =>
                 work'[q].plan \in [Manifests[work'[q].manifest] -> 0..MaxRevision]
           /\ work'[p] = Free /\ \A q \in Publishers \ {p} : work'[q] = work[q]
<1>1. /\ work'[p] = Free /\ \A q \in Publishers \ {p} : work'[q] = work[q]
      /\ work' \in [Publishers -> Calls \cup {Free}]
      /\ locks' \in [Locks -> Publishers \cup {Free}]
      /\ \A l \in Locks : locks'[l] = IF locks[l] = p THEN Free ELSE locks[l]
      /\ Free \notin Publishers
  BY PublicationAssumption DEF LetGo, PublicationInv, PublicationTypes
<1>2. ASSUME NEW q \in Publishers, work'[q] # Free
      PROVE  /\ work'[q].stage = "lock" =>
                    work'[q].next \in 1..Len(LockSequence(work'[q].manifest))
             /\ work'[q].stage = "check" => work'[q].next = 1
             /\ \A k \in Taken(work'[q]) : locks'[LockSequence(work'[q].manifest)[k]] = q
  <2>1. q # p /\ work'[q] = work[q] /\ work[q] # Free
    BY <1>1, <1>2
  <2>2. work[q].manifest \in DOMAIN Manifests
    BY <2>1 DEF PublicationInv, PublicationTypes, Calls
  <2>3. /\ work[q].stage = "lock" =>
               work[q].next \in 1..Len(LockSequence(work[q].manifest))
        /\ work[q].stage = "check" => work[q].next = 1
        /\ \A k \in Taken(work[q]) : locks[LockSequence(work[q].manifest)[k]] = q
    BY <2>1 DEF PublicationInv, Locked
  <2>4. Taken(work[q]) \subseteq 1..Len(LockSequence(work[q].manifest))
    BY <2>2, <2>3, SequenceIs DEF Taken
  <2>5. \A k \in Taken(work[q]) : LockSequence(work[q].manifest)[k] \in Locks
    BY <2>2, <2>4, SequenceIs
  <2> QED
    BY <1>1, <2>1, <2>3, <2>5
<1>3. ASSUME NEW q \in Publishers, NEW l \in Locks, locks'[l] = q
      PROVE  /\ work'[q] # Free
             /\ \E k \in Taken(work'[q]) : l = LockSequence(work'[q].manifest)[k]
  <2>1. locks[l] = q /\ q # p
    BY <1>1, <1>3
  <2> QED
    BY <1>1, <1>3, <2>1 DEF PublicationInv, Locked
<1>4. Locked'
  BY <1>2, <1>3 DEF Locked, Taken
<1>5. \A q \in Publishers : work'[q] # Free =>
          work'[q].plan \in [Manifests[work'[q].manifest] -> 0..MaxRevision]
  BY <1>1 DEF PublicationInv, PublicationTypes
<1> QED
  BY <1>1, <1>4, <1>5
---------------------------------------------------------------------------
(* Publication: the plan and its revisions *)

\* A revision of this manifest that follows the plan is the one that it binds.
LEMMA DoneIsBound ==
    ASSUME PublicationTypes, Sound, NEW m \in DOMAIN Manifests, NEW e \in Manifests[m],
           NEW rows \in [Manifests[m] -> 0..MaxRevision], Follows(m, rows, e), Done(m, e)
    PROVE  Revision(e) = Bound(m, rows, e) /\ Revision(e) \in 1..MaxRevision
<1>1. PICK n, k : n = Revision(e) /\ k = rows[e]
  OBVIOUS
<1>2. e \in Entries /\ m # Free /\ m # Project /\ MaxRevision \in Nat
  BY ManifestIs, PublicationAssumption
<1>3. n \in Nat /\ k \in Nat /\ n > 0 /\ n <= MaxRevision /\ n \in {k, k + 1}
  BY <1>1, <1>2 DEF PublicationTypes, Sound, Follows, Done, Revision
<1>4. Owner(e, n) = m /\ revisions[e][n] = m
  BY <1>1, <1>3 DEF Done, Owner
<1>5. CASE n = k
  BY <1>1, <1>3, <1>4, <1>5 DEF Bound
<1>6. CASE n = k + 1
  <2>1. ASSUME Owner(e, k) = m
        PROVE  FALSE
    <3>1. k \in 1..n - 1 /\ revisions[e][k] = m
      BY <1>1, <1>2, <1>3, <1>6, <2>1 DEF Owner
    <3> QED
      BY <1>1, <1>2, <1>4, <1>6, <3>1 DEF Sound
  <2> QED
    BY <1>1, <1>3, <1>6, <2>1 DEF Bound
<1> QED
  BY <1>1, <1>3, <1>5, <1>6

\* An event that is written finishes the entry.
LEMMA EventFinishes ==
    ASSUME PublicationTypes, NEW m, NEW rows, NEW e \in Entries,
           Done(m, e), Revision(e) = Bound(m, rows, e), UNCHANGED revisions,
           published' = [published EXCEPT ![e] = @ \cup {Revision(e)}]
    PROVE  Finished(m, rows, e)'
<1>1. Revision(e) \in published'[e]
  BY DEF PublicationTypes
<1> QED
  BY <1>1 DEF Finished, Done, Bound, Owner, Revision

\* What an event changes: nothing of Sound and Pinned.
LEMMA EventIsSafe ==
    ASSUME PublicationTypes, Sound, NEW e \in Entries, Revision(e) > 0, UNCHANGED revisions,
           published' = [published EXCEPT ![e] = @ \cup {Revision(e)}]
    PROVE  /\ Sound' /\ published' \in [Entries -> SUBSET Nat]
           /\ \A f \in Entries : published[f] \subseteq published'[f]
           /\ \A f \in Entries \ {e} : published'[f] = published[f]
           /\ \A f \in Entries : \A j : Owner(f, j)' = Owner(f, j)
<1>1. PICK n : n = Revision(e)
  OBVIOUS
<1>2. n \in Nat /\ n \in 1..n
  BY <1>1 DEF PublicationTypes, Revision
<1>3. /\ published' \in [Entries -> SUBSET Nat]
      /\ \A f \in Entries \ {e} : published'[f] = published[f]
      /\ published'[e] = published[e] \cup {n}
  BY <1>1, <1>2 DEF PublicationTypes
<1>4. \A f \in Entries : Revision(f)' = Revision(f)
  BY DEF Revision
<1>5. \A f \in Entries : \A j : Owner(f, j)' = Owner(f, j)
  BY DEF Owner, Revision
<1>6. \A f \in Entries : published'[f] \subseteq 1..Revision(f) /\ Revision(f) <= MaxRevision
  BY <1>1, <1>2, <1>3 DEF Sound
<1>7. Sound'
  BY <1>4, <1>6 DEF Sound, Revision
<1> QED
  BY <1>3, <1>5, <1>7

---------------------------------------------------------------------------
(* Publication: steps *)

LEMMA StepStart ==
    ASSUME PublicationInv, NEW p \in Publishers, StartPublish(p)
    PROVE  PublicationInv'
<1>1. PICK m \in DOMAIN Manifests : \E plan \in Plans(m) :
          work' = [work EXCEPT ![p] = [stage |-> "lock", manifest |-> m, plan |-> plan, next |-> 1]]
  BY DEF StartPublish
<1>2. PICK plan \in Plans(m) :
          work' = [work EXCEPT ![p] = [stage |-> "lock", manifest |-> m, plan |-> plan, next |-> 1]]
  BY <1>1
<1>3. PICK w : w = [stage |-> "lock", manifest |-> m, plan |-> plan, next |-> 1]
  OBVIOUS
<1>4. /\ plan \in [Manifests[m] -> 0..MaxRevision] /\ plan \in PlanRows /\ w \in Calls
      /\ w # Free
  BY <1>3, FreeAssumption DEF Plans, PlanRows, Calls
<1>5. /\ work'[p] = w /\ \A q \in Publishers \ {p} : work'[q] = work[q]
      /\ work' \in [Publishers -> Calls \cup {Free}] /\ work[p] = Free
      /\ UNCHANGED <<revisions, published, sealed, locks, printed>>
  BY <1>2, <1>3, <1>4 DEF StartPublish, PublicationInv, PublicationTypes
<1>6. PublicationTypes'
  BY <1>3, <1>4, <1>5 DEF PublicationInv, PublicationTypes
<1>7. Sound' /\ Pinned'
  BY <1>5 DEF PublicationInv, Sound, Pinned, Owner, Bound, Revision
<1>8. ASSUME NEW q \in Publishers, work'[q] # Free
      PROVE  /\ work'[q].stage = "lock" =>
                    work'[q].next \in 1..Len(LockSequence(work'[q].manifest))
             /\ work'[q].stage = "check" => work'[q].next = 1
             /\ \A k \in Taken(work'[q]) : locks[LockSequence(work'[q].manifest)[k]] = q
  <2>1. CASE q = p
    BY <1>3, <1>5, <2>1, SequenceIs DEF Taken
  <2>2. CASE q # p
    BY <1>5, <1>8, <2>2 DEF PublicationInv, Locked
  <2> QED
    BY <2>1, <2>2
<1>9. ASSUME NEW q \in Publishers, NEW l \in Locks, locks[l] = q
      PROVE  /\ work'[q] # Free
             /\ \E k \in Taken(work'[q]) : l = LockSequence(work'[q].manifest)[k]
  BY <1>5, <1>9 DEF PublicationInv, Locked
<1>10. Locked'
  BY <1>5, <1>8, <1>9 DEF Locked, Taken
<1>11. ASSUME NEW q \in Publishers, NEW v \in {work'[q]} \ {Free}
       PROVE  Publishing(v)'
  <2>1. CASE q = p
    BY <1>3, <1>5, <2>1 DEF Publishing
  <2>2. CASE q # p
    BY <1>5, <2>2, AllKeep
  <2> QED
    BY <2>1, <2>2
<1> QED
  BY <1>6, <1>7, <1>10, <1>11 DEF PublicationInv

LEMMA StepLock ==
    ASSUME PublicationInv, NEW p \in Publishers, TakeLock(p)
    PROVE  PublicationInv'
<1>1. PICK m, n, last :
          m = work[p].manifest /\ n = work[p].next /\ last = Len(LockSequence(work[p].manifest))
  OBVIOUS
<1>2. PICK l, w :
          /\ l = LockSequence(m)[n]
          /\ w = IF n = last THEN CallAt(p, "check", 1) ELSE CallAt(p, "lock", n + 1)
  OBVIOUS
<1>3. /\ work[p] \in Calls /\ work[p] # Free /\ work[p].stage = "lock"
      /\ m \in DOMAIN Manifests /\ n \in 1..last /\ last \in Nat \ {0} /\ l \in Locks
      /\ last = Len(LockSequence(m))
  BY <1>1, <1>2, SequenceIs DEF TakeLock, PublicationInv, PublicationTypes, Locked, Calls
<1>4. /\ w \in Calls /\ w # Free /\ w.manifest = m /\ w.plan = work[p].plan
      /\ w.stage \in {"lock", "check"}
      /\ w.stage = "lock" => w.next = n + 1 /\ n < last
      /\ w.stage = "check" => w.next = 1 /\ n = last
  BY <1>1, <1>2, <1>3, FreeAssumption DEF CallAt, Calls
<1>5. /\ locks[l] = Free /\ locks' = [locks EXCEPT ![l] = p]
      /\ work' = [work EXCEPT ![p] = w]
      /\ UNCHANGED <<revisions, published, sealed, printed>>
  BY <1>1, <1>2, <1>3 DEF TakeLock, Wanted
<1>6. /\ work'[p] = w /\ \A q \in Publishers \ {p} : work'[q] = work[q]
      /\ work' \in [Publishers -> Calls \cup {Free}]
      /\ locks' \in [Locks -> Publishers \cup {Free}]
      /\ locks'[l] = p /\ \A k \in Locks \ {l} : locks'[k] = locks[k]
  BY <1>3, <1>4, <1>5 DEF PublicationInv, PublicationTypes
<1>7. PublicationTypes'
  BY <1>1, <1>3, <1>4, <1>5, <1>6 DEF PublicationInv, PublicationTypes
<1>8. Sound' /\ Pinned'
  BY <1>5 DEF PublicationInv, Sound, Pinned, Owner, Bound, Revision
<1>9. Taken(work[p]) = 1..n - 1 /\ Taken(w) = 1..n
  BY <1>1, <1>3, <1>4 DEF Taken
<1>10. ASSUME NEW q \in Publishers, work'[q] # Free
       PROVE  /\ work'[q].stage = "lock" =>
                     work'[q].next \in 1..Len(LockSequence(work'[q].manifest))
              /\ work'[q].stage = "check" => work'[q].next = 1
              /\ \A k \in Taken(work'[q]) : locks'[LockSequence(work'[q].manifest)[k]] = q
  <2>1. CASE q = p
    <3>1. ASSUME NEW k \in 1..n
          PROVE  locks'[LockSequence(m)[k]] = p
      <4>1. CASE k = n
        BY <1>2, <1>6, <4>1
      <4>2. CASE k \in 1..n - 1
        <5>1. locks[LockSequence(m)[k]] = p
          BY <1>1, <1>3, <1>9, <4>2 DEF PublicationInv, Locked
        <5>2. LockSequence(m)[k] \in Locks
          BY <1>3, <4>2, SequenceIs
        <5> QED
          BY <1>6, <5>1, <5>2
      <4> QED
        BY <1>3, <4>1, <4>2
    <3> QED
      BY <1>3, <1>4, <1>6, <1>9, <2>1, <3>1
  <2>2. CASE q # p
    <3>1. work'[q] = work[q] /\ work[q] # Free /\ work[q].manifest \in DOMAIN Manifests
      BY <1>6, <1>10, <2>2 DEF PublicationInv, PublicationTypes, Calls
    <3>2. /\ work[q].stage = "lock" =>
                 work[q].next \in 1..Len(LockSequence(work[q].manifest))
          /\ work[q].stage = "check" => work[q].next = 1
          /\ \A k \in Taken(work[q]) : locks[LockSequence(work[q].manifest)[k]] = q
      BY <3>1 DEF PublicationInv, Locked
    <3>3. \A k \in Taken(work[q]) : LockSequence(work[q].manifest)[k] \in Locks
      <4>1. Taken(work[q]) \subseteq 1..Len(LockSequence(work[q].manifest))
        BY <3>1, <3>2, SequenceIs DEF Taken
      <4> QED
        BY <3>1, <4>1, SequenceIs
    <3>4. Free # q
      BY PublicationAssumption
    <3> QED
      BY <1>5, <1>6, <3>1, <3>2, <3>3, <3>4
  <2> QED
    BY <2>1, <2>2
<1>11. ASSUME NEW q \in Publishers, NEW k \in Locks, locks'[k] = q
       PROVE  /\ work'[q] # Free
              /\ \E i \in Taken(work'[q]) : k = LockSequence(work'[q].manifest)[i]
  <2>1. CASE k = l
    <3>1. q = p /\ n \in 1..n
      BY <1>3, <1>6, <1>11, <2>1
    <3> QED
      BY <1>2, <1>4, <1>6, <1>9, <2>1, <3>1
  <2>2. CASE k # l
    <3>1. locks[k] = q
      BY <1>6, <1>11, <2>2
    <3>2. /\ work[q] # Free
          /\ \E i \in Taken(work[q]) : k = LockSequence(work[q].manifest)[i]
      BY <3>1 DEF PublicationInv, Locked
    <3>3. CASE q = p
      <4>1. 1..n - 1 \subseteq 1..n
        BY <1>3
      <4>2. PICK i \in 1..n - 1 : k = LockSequence(m)[i]
        BY <1>1, <1>9, <3>2, <3>3
      <4> QED
        BY <1>4, <1>6, <1>9, <3>3, <4>1, <4>2
    <3>4. CASE q # p
      BY <1>6, <3>2, <3>4
    <3> QED
      BY <3>3, <3>4
  <2> QED
    BY <2>1, <2>2
<1>12. Locked'
  BY <1>10, <1>11 DEF Locked, Taken
<1>13. ASSUME NEW q \in Publishers, NEW v \in {work'[q]} \ {Free}
       PROVE  Publishing(v)'
  <2>1. CASE q = p
    BY <1>4, <1>6, <2>1 DEF Publishing
  <2>2. CASE q # p
    BY <1>5, <1>6, <2>2, AllKeep
  <2> QED
    BY <2>1, <2>2
<1> QED
  BY <1>7, <1>8, <1>12, <1>13 DEF PublicationInv

LEMMA StepCheck ==
    ASSUME PublicationInv, NEW p \in Publishers, CheckPlan(p)
    PROVE  PublicationInv'
<1>1. PICK m, rows : m = work[p].manifest /\ rows = work[p].plan
  OBVIOUS
<1>2. /\ work[p] \in Calls /\ work[p] # Free /\ work[p].stage = "check" /\ work[p].next = 1
      /\ m \in DOMAIN Manifests /\ rows \in [Manifests[m] -> 0..MaxRevision]
      /\ UNCHANGED <<revisions, published, sealed, printed>>
  BY <1>1 DEF CheckPlan, PublicationInv, PublicationTypes, Locked, Calls
<1>3. Sound' /\ Pinned'
  BY <1>2 DEF PublicationInv, Sound, Pinned, Owner, Bound, Revision
<1>4. CASE /\ \A e \in Manifests[m] : Follows(m, rows, e)
           /\ work' = [work EXCEPT ![p] = CallAt(p, "revision", 1)] /\ UNCHANGED locks
  <2>1. PICK w : w = CallAt(p, "revision", 1)
    OBVIOUS
  <2>2. /\ w \in Calls /\ w.stage = "revision" /\ w.next = 1 /\ w.manifest = m
        /\ w.plan = rows /\ work' = [work EXCEPT ![p] = w]
    BY <1>1, <1>2, <1>4, <2>1 DEF CallAt, Calls
  <2>3. /\ Locked' /\ work' \in [Publishers -> Calls \cup {Free}]
        /\ \A q \in Publishers : work'[q] # Free =>
              work'[q].plan \in [Manifests[work'[q].manifest] -> 0..MaxRevision]
        /\ work'[p] = w /\ \A q \in Publishers \ {p} : work'[q] = work[q]
    BY <1>1, <1>2, <1>4, <2>2, Moves
  <2>4. PublicationTypes'
    BY <1>2, <1>4, <2>3 DEF PublicationInv, PublicationTypes
  <2>5. /\ Cardinality(Manifests[m]) \in Nat \ {0}
        /\ \A i \in 1..Cardinality(Manifests[m]) : Order(m)[i] \in Manifests[m]
    BY <1>2, OrderIs
  <2>6. \A e \in Manifests[m] : Follows(m, rows, e)'
    BY <1>2, <1>4, SameEntry
  <2>7. Publishing(w)'
    BY <2>2, <2>5, <2>6 DEF Publishing
  <2>8. ASSUME NEW q \in Publishers, NEW v \in {work'[q]} \ {Free}
        PROVE  Publishing(v)'
    <3>1. CASE q = p
      BY <2>3, <2>7, <3>1
    <3>2. CASE q # p
      BY <1>2, <2>3, <3>2, AllKeep
    <3> QED
      BY <3>1, <3>2
  <2> QED
    BY <1>3, <2>3, <2>4, <2>8 DEF PublicationInv
<1>5. CASE LetGo(p)
  <2>1. /\ Locked' /\ work' \in [Publishers -> Calls \cup {Free}]
        /\ locks' \in [Locks -> Publishers \cup {Free}]
        /\ \A q \in Publishers : work'[q] # Free =>
              work'[q].plan \in [Manifests[work'[q].manifest] -> 0..MaxRevision]
        /\ work'[p] = Free /\ \A q \in Publishers \ {p} : work'[q] = work[q]
    BY <1>2, <1>5, CallEnds
  <2>2. PublicationTypes'
    BY <1>2, <2>1 DEF PublicationInv, PublicationTypes
  <2>3. ASSUME NEW q \in Publishers, NEW v \in {work'[q]} \ {Free}
        PROVE  Publishing(v)'
    BY <1>2, <2>1, AllKeep
  <2> QED
    BY <1>3, <2>1, <2>2, <2>3 DEF PublicationInv
<1> QED
  BY <1>1, <1>4, <1>5 DEF CheckPlan

LEMMA StepKill ==
    ASSUME PublicationInv, NEW p \in Publishers, KillPublisher(p)
    PROVE  PublicationInv'
<1>1. /\ work[p] # Free /\ LetGo(p) /\ UNCHANGED <<revisions, published, sealed, printed>>
  BY DEF KillPublisher
<1>2. Sound' /\ Pinned'
  BY <1>1 DEF PublicationInv, Sound, Pinned, Owner, Bound, Revision
<1>3. /\ Locked' /\ work' \in [Publishers -> Calls \cup {Free}]
      /\ locks' \in [Locks -> Publishers \cup {Free}]
      /\ \A q \in Publishers : work'[q] # Free =>
            work'[q].plan \in [Manifests[work'[q].manifest] -> 0..MaxRevision]
      /\ work'[p] = Free /\ \A q \in Publishers \ {p} : work'[q] = work[q]
  BY <1>1, CallEnds
<1>4. PublicationTypes'
  BY <1>1, <1>3 DEF PublicationInv, PublicationTypes
<1>5. ASSUME NEW q \in Publishers, NEW v \in {work'[q]} \ {Free}
      PROVE  Publishing(v)'
  BY <1>1, <1>3, AllKeep
<1> QED
  BY <1>2, <1>3, <1>4, <1>5 DEF PublicationInv

LEMMA LocksStay ==
    ASSUME Locked, locks' = locks, work' = work
    PROVE  Locked'
<1>1. ASSUME NEW p \in Publishers, work'[p] # Free
      PROVE  /\ work'[p].stage = "lock" =>
                    work'[p].next \in 1..Len(LockSequence(work'[p].manifest))
             /\ work'[p].stage = "check" => work'[p].next = 1
             /\ \A k \in Taken(work'[p]) : locks'[LockSequence(work'[p].manifest)[k]] = p
  BY <1>1 DEF Locked
<1>2. ASSUME NEW p \in Publishers, NEW l \in Locks, locks'[l] = p
      PROVE  /\ work'[p] # Free
             /\ \E k \in Taken(work'[p]) : l = LockSequence(work'[p].manifest)[k]
  BY <1>2 DEF Locked
<1> QED
  BY <1>1, <1>2 DEF Locked, Taken

LEMMA StepEdit ==
    ASSUME PublicationInv, EditDocument
    PROVE  PublicationInv'
<1>1. PICK e \in Entries \ sealed :
          /\ locks[LockOf[e]] = Free /\ Revision(e) \in 1..(MaxRevision - 1)
          /\ revisions' = [revisions EXCEPT ![e] = Append(@, Project)]
          /\ published' = [published EXCEPT ![e] = @ \cup {Revision(e) + 1}]
  BY DEF EditDocument
<1>2. PICK n : n = Revision(e)
  OBVIOUS
<1>3. /\ UNCHANGED <<sealed, locks, work, printed>> /\ e \in Entries
      /\ Project \in DOMAIN Manifests \cup {Project} /\ MaxRevision \in Nat
      /\ PublicationTypes /\ Sound /\ Locked /\ Pinned
  BY <1>1, PublicationAssumption DEF EditDocument, PublicationInv
<1>4. /\ revisions' \in [Entries -> Seq(DOMAIN Manifests \cup {Project})]
      /\ n \in Nat /\ Revision(e)' = n + 1
      /\ revisions'[e][n + 1] = Project
      /\ \A i \in 1..n : revisions'[e][i] = revisions[e][i]
      /\ \A f \in Entries \ {e} : revisions'[f] = revisions[f]
      /\ \A f \in Entries : \A j \in 0..Revision(f) : Owner(f, j)' = Owner(f, j)
  <2> HIDE DEF Owner, Revision
  <2>1. revisions' = [revisions EXCEPT ![e] = Append(@, Project)]
    BY <1>1
  <2> QED
    BY <1>2, <1>3, <2>1, Added
<1>5. /\ published' \in [Entries -> SUBSET Nat] /\ published'[e] = published[e] \cup {n + 1}
      /\ \A f \in Entries \ {e} : published'[f] = published[f]
  BY <1>1, <1>2, <1>3, <1>4 DEF PublicationTypes
<1>6. PublicationTypes'
  BY <1>3, <1>4, <1>5 DEF PublicationTypes
<1>7. Sound'
  <2>1. ASSUME NEW f \in Entries
        PROVE  /\ published'[f] \subseteq 1..Revision(f)' /\ Revision(f)' <= MaxRevision
               /\ \A i \in 1..Revision(f)' - 1 :
                     revisions'[f][i] = revisions'[f][i + 1] => revisions'[f][i] = Project
    <3>1. CASE f = e
      <4>1. published'[e] \subseteq 1..n + 1 /\ n + 1 <= MaxRevision
        BY <1>1, <1>2, <1>3, <1>4, <1>5 DEF Sound
      <4>2. ASSUME NEW i \in 1..n, revisions'[e][i] = revisions'[e][i + 1]
            PROVE  revisions'[e][i] = Project
        <5>1. CASE i = n
          BY <1>4, <4>2, <5>1
        <5>2. CASE i \in 1..n - 1
          <6>1. /\ i \in 1..n /\ i + 1 \in 1..n
                /\ revisions[e][i] = revisions[e][i + 1]
            BY <1>4, <4>2, <5>2
          <6> QED
            BY <1>2, <1>3, <1>4, <5>2, <6>1 DEF Sound
        <5> QED
          BY <1>4, <5>1, <5>2
      <4> QED
        BY <1>4, <3>1, <4>1, <4>2
    <3>2. CASE f # e
      <4>1. Revision(f)' = Revision(f)
        BY <1>4, <3>2 DEF Revision
      <4>2. /\ published[f] \subseteq 1..Revision(f) /\ Revision(f) <= MaxRevision
            /\ \A i \in 1..Revision(f) - 1 :
                  revisions[f][i] = revisions[f][i + 1] => revisions[f][i] = Project
        BY <1>3 DEF Sound
      <4>3. revisions'[f] = revisions[f] /\ published'[f] = published[f]
        BY <1>4, <1>5, <3>2
      <4> QED
        BY <4>1, <4>2, <4>3
    <3> QED
      BY <3>1, <3>2
  <2> QED
    BY <2>1 DEF Sound
<1>8. Pinned'
  <2>1. ASSUME NEW f \in Entries
        PROVE  /\ published[f] \subseteq published'[f]
               /\ \A i \in published[f] : \A j \in 0..i : Owner(f, j)' = Owner(f, j)
    <3>1. published[f] \subseteq published'[f]
      BY <1>5
    <3>2. ASSUME NEW i \in published[f], NEW j \in 0..i
          PROVE  j \in 0..Revision(f)
      <4>1. i \in 1..Revision(f) /\ Revision(f) \in Nat
        BY <1>3, <3>2 DEF Sound, PublicationTypes, Revision
      <4> QED
        BY <3>2, <4>1
    <3> QED
      BY <1>4, <3>1, <3>2
  <2> QED
    BY <1>3, <2>1, PinStays
<1>9. Locked'
  <2>1. Locked /\ locks' = locks /\ work' = work
    BY <1>3
  <2> QED
    BY <2>1, LocksStay
<1>10. ASSUME NEW q \in Publishers, NEW v \in {work'[q]} \ {Free}
       PROVE  Publishing(v)'
  <2>1. ASSUME NEW p \in Publishers, NEW f \in Entries,
               work[p] # Free, work[p].stage # "lock", f \in Manifests[work[p].manifest]
        PROVE  revisions'[f] = revisions[f] /\ published'[f] = published[f]
    <3>1. locks[LockOf[f]] = p /\ Free \notin Publishers
      BY <2>1, Owns, PublicationAssumption
    <3> QED
      BY <1>1, <1>4, <1>5, <3>1
  <2> QED
    BY <1>3, <2>1, AllKeep
<1> QED
  BY <1>6, <1>7, <1>8, <1>9, <1>10 DEF PublicationInv

LEMMA StepSeal ==
    ASSUME PublicationInv, SealDocument \/ UNCHANGED publicationVars
    PROVE  PublicationInv'
<1>1. UNCHANGED <<revisions, published, locks, work, printed>> /\ sealed' \subseteq Entries
  BY DEF SealDocument, publicationVars, PublicationInv, PublicationTypes
<1>2. PublicationTypes'
  BY <1>1 DEF PublicationInv, PublicationTypes
<1>3. Sound' /\ Pinned'
  BY <1>1 DEF PublicationInv, Sound, Pinned, Owner, Bound, Revision
<1>4. Locked'
  BY <1>1 DEF PublicationInv, Locked, Taken
<1>5. ASSUME NEW q \in Publishers, NEW v \in {work'[q]} \ {Free}
      PROVE  Publishing(v)'
  BY <1>1, AllKeep
<1> QED
  BY <1>2, <1>3, <1>4, <1>5 DEF PublicationInv

\* The state of the entry whose turn it is.
LEMMA TurnIs ==
    ASSUME PublicationInv, NEW p \in Publishers, work[p] # Free,
           work[p].stage \in {"revision", "event"}
    PROVE  /\ work[p] \in Calls /\ work[p].manifest \in DOMAIN Manifests
           /\ work[p].plan \in [Manifests[work[p].manifest] -> 0..MaxRevision]
           /\ work[p].next \in 1..Cardinality(Manifests[work[p].manifest])
           /\ Turn(p) = Order(work[p].manifest)[work[p].next]
           /\ Turn(p) \in Manifests[work[p].manifest] /\ Turn(p) \in Entries
           /\ Publishing(work[p])
           /\ IF work[p].stage = "event"
              THEN Begun(work[p].manifest, work[p].plan, Turn(p))
              ELSE Follows(work[p].manifest, work[p].plan, Turn(p))
<1>1. /\ work[p] \in Calls /\ work[p].manifest \in DOMAIN Manifests
      /\ work[p].plan \in [Manifests[work[p].manifest] -> 0..MaxRevision]
      /\ Publishing(work[p])
  BY DEF PublicationInv, PublicationTypes, Calls
<1>2. /\ work[p].next \in 1..Cardinality(Manifests[work[p].manifest])
      /\ Turn(p) = Order(work[p].manifest)[work[p].next]
  BY <1>1 DEF Publishing, Turn, Order
<1>3. Turn(p) \in Manifests[work[p].manifest] /\ Turn(p) \in Entries
  BY <1>1, <1>2, OrderIs, ManifestIs
<1>4. IF work[p].stage = "event"
      THEN Begun(work[p].manifest, work[p].plan, Turn(p))
      ELSE Follows(work[p].manifest, work[p].plan, Turn(p))
  <2>1. work[p].next = work[p].next /\ ~ (work[p].next < work[p].next)
    BY <1>1 DEF Calls
  <2> QED
    BY <1>1, <1>2, <2>1 DEF Publishing
<1> QED
  BY <1>1, <1>2, <1>3, <1>4

\* The event of an entry whose revision is there, and what comes next.
LEMMA EventStep ==
    ASSUME PublicationInv, NEW p \in Publishers, work[p] # Free,
           work[p].stage \in {"revision", "event"}, NEW e, e = Turn(p),
           Done(work[p].manifest, e),
           Revision(e) = Bound(work[p].manifest, work[p].plan, e),
           published' = [published EXCEPT ![e] = @ \cup {Revision(e)}],
           UNCHANGED <<revisions, sealed>>, Advance(p)
    PROVE  PublicationInv'
<1>1. PICK m, rows, n :
          m = work[p].manifest /\ rows = work[p].plan /\ n = work[p].next
  OBVIOUS
<1>2. /\ work[p] \in Calls /\ m \in DOMAIN Manifests
      /\ rows \in [Manifests[m] -> 0..MaxRevision] /\ n \in 1..Cardinality(Manifests[m])
      /\ e = Order(m)[n] /\ e \in Manifests[m] /\ e \in Entries
      /\ Done(m, e) /\ Revision(e) = Bound(m, rows, e) /\ Publishing(work[p])
      /\ m # Free /\ Manifests[m] \subseteq Entries
      /\ PublicationTypes /\ Sound /\ Locked /\ Pinned
  BY <1>1, TurnIs, ManifestIs, PublicationAssumption DEF PublicationInv
<1>3. Revision(e) > 0
  BY <1>2 DEF Done
<1>4. /\ Sound' /\ published' \in [Entries -> SUBSET Nat]
      /\ \A f \in Entries : published[f] \subseteq published'[f]
      /\ \A f \in Entries \ {e} : published'[f] = published[f]
      /\ \A f \in Entries : \A j : Owner(f, j)' = Owner(f, j)
  BY <1>2, <1>3, EventIsSafe
<1>5. Finished(m, rows, e)'
  BY <1>2, EventFinishes
<1>6. \A f \in Manifests[m] \ {e} :
          /\ Finished(m, rows, f)' <=> Finished(m, rows, f)
          /\ Follows(m, rows, f)' <=> Follows(m, rows, f)
  BY <1>2, <1>4, SameEntry
<1>7. PICK N : N = Cardinality(Manifests[m])
  OBVIOUS
<1>8. /\ N \in Nat \ {0} /\ \A i \in 1..N : Order(m)[i] \in Manifests[m]
      /\ \A f \in Manifests[m] : \E i \in 1..N : Order(m)[i] = f
      /\ \A i, j \in 1..N : Order(m)[i] = Order(m)[j] => i = j
      /\ n \in 1..N
  BY <1>2, <1>7, OrderIs
<1>9. \A i \in 1..N : Order(m)[i] = e <=> i = n
  BY <1>2, <1>8
<1>10. /\ \A i \in 1..N : i < n => Finished(m, rows, Order(m)[i])
       /\ \A i \in 1..N : i > n => Follows(m, rows, Order(m)[i])
  BY <1>1, <1>2, <1>7 DEF Publishing
<1>11. /\ \A i \in 1..N : i <= n => Finished(m, rows, Order(m)[i])'
       /\ \A i \in 1..N : i > n => Follows(m, rows, Order(m)[i])'
  <2>1. ASSUME NEW i \in 1..N
        PROVE  /\ i <= n => Finished(m, rows, Order(m)[i])'
               /\ i > n => Follows(m, rows, Order(m)[i])'
    <3>1. PICK f : f = Order(m)[i]
      OBVIOUS
    <3>2. CASE i = n
      BY <1>2, <1>5, <1>8, <3>2
    <3>3. CASE i # n
      <4>1. f \in Manifests[m] \ {e}
        BY <1>8, <1>9, <3>1, <3>3
      <4>2. /\ i <= n => Finished(m, rows, f)
            /\ i > n => Follows(m, rows, f)
        BY <1>8, <1>10, <3>1, <3>3
      <4> QED
        BY <1>6, <3>1, <4>1, <4>2
    <3> QED
      BY <3>2, <3>3
  <2> QED
    BY <2>1
<1>12. \A e1 \in Entries \ Manifests[m] :
          revisions'[e1] = revisions[e1] /\ published'[e1] = published[e1]
  BY <1>2, <1>4
<1>13. CASE n < N
  <2>1. PICK w : w = CallAt(p, "revision", n + 1)
    OBVIOUS
  <2>2. /\ work' = [work EXCEPT ![p] = w] /\ UNCHANGED <<locks, printed>>
        /\ w \in Calls /\ w.stage = "revision" /\ w.manifest = m /\ w.plan = rows
        /\ w.next = n + 1 /\ n + 1 \in 1..N
    BY <1>1, <1>2, <1>7, <1>8, <1>13, <2>1 DEF Advance, CallAt, Calls
  <2>3. /\ Locked' /\ work' \in [Publishers -> Calls \cup {Free}]
        /\ \A q \in Publishers : work'[q] # Free =>
              work'[q].plan \in [Manifests[work'[q].manifest] -> 0..MaxRevision]
        /\ work'[p] = w /\ \A q \in Publishers \ {p} : work'[q] = work[q]
    <3>1. work[p].stage # "lock"
      OBVIOUS
    <3> QED
      BY <1>1, <2>2, <3>1, Moves
  <2>4. PublicationTypes'
    BY <1>2, <1>4, <2>2, <2>3 DEF PublicationTypes
  <2>5. Pinned'
    BY <1>2, <1>4, <2>2, PinStays
  <2>6. Publishing(w)'
    <3>1. ASSUME NEW i \in 1..N
          PROVE  /\ i < n + 1 => Finished(m, rows, Order(m)[i])'
                 /\ i > n + 1 => Follows(m, rows, Order(m)[i])'
                 /\ i = n + 1 => Follows(m, rows, Order(m)[i])'
      <4>1. (i < n + 1 => i <= n) /\ (i > n + 1 => i > n) /\ (i = n + 1 => i > n)
        BY <1>8
      <4> QED
        BY <1>11, <4>1
    <3> QED
      BY <1>7, <2>2, <3>1 DEF Publishing
  <2>7. ASSUME NEW q \in Publishers, NEW v \in {work'[q]} \ {Free}
        PROVE  Publishing(v)'
    <3>1. CASE q = p
      BY <2>3, <2>6, <3>1
    <3>2. CASE q # p
      BY <1>1, <1>12, <2>3, <3>2, OthersKeep
    <3> QED
      BY <3>1, <3>2
  <2> QED
    BY <1>4, <2>3, <2>4, <2>5, <2>7 DEF PublicationInv
<1>14. CASE ~ (n < N)
  <2>1. PICK r : r = [manifest |-> m, plan |-> rows, pins |-> [f \in Manifests[m] |-> Revision(f)]]
    OBVIOUS
  <2>2. printed' = r /\ LetGo(p)
    BY <1>1, <1>7, <1>14, <2>1 DEF Advance
  <2>3. /\ Locked' /\ work' \in [Publishers -> Calls \cup {Free}]
        /\ locks' \in [Locks -> Publishers \cup {Free}]
        /\ \A q \in Publishers : work'[q] # Free =>
              work'[q].plan \in [Manifests[work'[q].manifest] -> 0..MaxRevision]
        /\ work'[p] = Free /\ \A q \in Publishers \ {p} : work'[q] = work[q]
    BY <2>2, CallEnds
  <2>4. \A f \in Manifests[m] : Finished(m, rows, f)'
    <3>1. ASSUME NEW f \in Manifests[m]
          PROVE  Finished(m, rows, f)'
      <4>1. PICK i \in 1..N : Order(m)[i] = f
        BY <1>8
      <4>2. i <= n
        BY <1>8, <1>14
      <4> QED
        BY <1>11, <4>1, <4>2
    <3> QED
      BY <3>1
  <2>5. \A f \in Manifests[m] :
           /\ Revision(f) \in 1..MaxRevision /\ Owner(f, Revision(f)) = m
           /\ Revision(f) \in published'[f] /\ Revision(f) = Bound(m, rows, f)
    <3>1. ASSUME NEW f \in Manifests[m]
          PROVE  /\ Revision(f) > 0 /\ Owner(f, Revision(f)) = m
                 /\ Revision(f) \in published'[f] /\ Revision(f) = Bound(m, rows, f)
      BY <2>4, <3>1 DEF Finished, Done, Bound, Owner, Revision
    <3>2. ASSUME NEW f \in Manifests[m]
          PROVE  Revision(f) \in 1..MaxRevision
      <4>1. Revision(f) \in Nat /\ Revision(f) <= MaxRevision /\ MaxRevision \in Nat
        BY <1>2, <3>2, PublicationAssumption DEF PublicationTypes, Sound, Revision
      <4> QED
        BY <3>1, <4>1
    <3> QED
      BY <3>1, <3>2
  <2>6. r \in Receipts
    <3>1. [f \in Manifests[m] |-> Revision(f)] \in [Manifests[m] -> 1..MaxRevision]
      BY <2>5
    <3> QED
      BY <1>2, <2>1, <3>1 DEF Receipts, PlanRows
  <2>7. PublicationTypes'
    BY <1>2, <1>4, <2>2, <2>3, <2>6 DEF PublicationTypes
  <2>8. Pinned'
    <3>1. /\ DOMAIN r.pins = Manifests[r.manifest]
          /\ r.plan \in [Manifests[r.manifest] -> 0..MaxRevision]
      BY <1>2, <2>1
    <3>2. ASSUME NEW f \in Manifests[m]
          PROVE  /\ Owner(f, r.pins[f])' = r.manifest
                 /\ r.pins[f] \in published'[f]
                 /\ r.pins[f] = Bound(r.manifest, r.plan, f)'
      <4>1. r.pins[f] = Revision(f) /\ r.manifest = m /\ r.plan = rows
        BY <2>1
      <4>2. PICK k : k = Revision(f)
        OBVIOUS
      <4>3. Owner(f, k)' = Owner(f, k) /\ Bound(m, rows, f)' = Bound(m, rows, f)
        BY DEF Owner, Bound, Revision
      <4> QED
        BY <2>5, <4>1, <4>2, <4>3
    <3>3. DOMAIN r.pins = Manifests[m]
      BY <2>1
    <3> QED
      BY <2>2, <3>1, <3>2, <3>3 DEF Pinned, Owner, Bound, Revision
  <2>9. ASSUME NEW q \in Publishers, NEW v \in {work'[q]} \ {Free}
        PROVE  Publishing(v)'
    <3>1. q # p
      BY <2>3, <2>9
    <3> QED
      BY <1>1, <1>12, <2>3, <3>1, OthersKeep
  <2> QED
    BY <1>4, <2>3, <2>7, <2>8, <2>9 DEF PublicationInv
<1> QED
  BY <1>13, <1>14

LEMMA StepRevision ==
    ASSUME PublicationInv, NEW p \in Publishers, WriteRevision(p)
    PROVE  PublicationInv'
<1>1. PICK m, rows, n, e :
          m = work[p].manifest /\ rows = work[p].plan /\ n = work[p].next /\ e = Turn(p)
  OBVIOUS
<1>2. work[p] # Free /\ work[p].stage = "revision" /\ UNCHANGED sealed
  BY DEF WriteRevision
<1>3. /\ work[p] \in Calls /\ m \in DOMAIN Manifests
      /\ rows \in [Manifests[m] -> 0..MaxRevision] /\ n \in 1..Cardinality(Manifests[m])
      /\ e = Order(m)[n] /\ e \in Manifests[m] /\ e \in Entries
      /\ Follows(m, rows, e) /\ Publishing(work[p])
      /\ m # Free /\ m # Project /\ Manifests[m] \subseteq Entries /\ MaxRevision \in Nat
      /\ PublicationTypes /\ Sound /\ Locked /\ Pinned
  BY <1>1, <1>2, TurnIs, ManifestIs, PublicationAssumption DEF PublicationInv
<1>4. CASE Done(m, e)
  <2>1. /\ published' = [published EXCEPT ![e] = @ \cup {Revision(e)}]
        /\ Advance(p) /\ UNCHANGED revisions
    BY <1>1, <1>4 DEF WriteRevision
  <2>2. Revision(e) = Bound(m, rows, e)
    BY <1>3, <1>4, DoneIsBound
  <2> QED
    BY <1>1, <1>2, <1>4, <2>1, <2>2, EventStep
<1>5. CASE ~ Done(m, e)
  <2>1. PICK w : w = CallAt(p, "event", n)
    OBVIOUS
  <2>2. /\ Revision(e) < MaxRevision /\ revisions' = [revisions EXCEPT ![e] = Append(@, m)]
        /\ work' = [work EXCEPT ![p] = w]
        /\ UNCHANGED <<published, locks, printed>>
        /\ w \in Calls /\ w.stage = "event" /\ w.manifest = m /\ w.plan = rows /\ w.next = n
    BY <1>1, <1>3, <1>5, <2>1 DEF WriteRevision, CallAt, Calls
  <2>3. PICK k : k = Revision(e)
    OBVIOUS
  <2>4. /\ revisions' \in [Entries -> Seq(DOMAIN Manifests \cup {Project})]
        /\ k \in Nat /\ Revision(e)' = k + 1
        /\ revisions'[e][k + 1] = m
        /\ \A i \in 1..k : revisions'[e][i] = revisions[e][i]
        /\ \A f \in Entries \ {e} : revisions'[f] = revisions[f]
        /\ \A f \in Entries : \A j \in 0..Revision(f) : Owner(f, j)' = Owner(f, j)
    <3>1. m \in DOMAIN Manifests \cup {Project} /\ e \in Entries /\ PublicationTypes
      BY <1>3
    <3>2. revisions' = [revisions EXCEPT ![e] = Append(@, m)]
      BY <2>2
    <3> QED
      BY <2>3, <3>1, <3>2, Added
  <2>5. /\ Locked' /\ work' \in [Publishers -> Calls \cup {Free}]
        /\ \A q \in Publishers : work'[q] # Free =>
              work'[q].plan \in [Manifests[work'[q].manifest] -> 0..MaxRevision]
        /\ work'[p] = w /\ \A q \in Publishers \ {p} : work'[q] = work[q]
    <3>1. work[p].stage # "lock"
      BY <1>2
    <3> QED
      BY <1>1, <1>2, <2>2, <3>1, Moves
  <2>6. PublicationTypes'
    BY <1>2, <1>3, <2>2, <2>4, <2>5 DEF PublicationTypes
  <2>7. Sound'
    <3>1. ASSUME NEW f \in Entries
          PROVE  /\ published[f] \subseteq 1..Revision(f)' /\ Revision(f)' <= MaxRevision
                 /\ \A i \in 1..Revision(f)' - 1 :
                       revisions'[f][i] = revisions'[f][i + 1] => revisions'[f][i] = Project
      <4>1. CASE f = e
        <5>1. published[e] \subseteq 1..k + 1 /\ k + 1 <= MaxRevision
          BY <1>3, <2>2, <2>3, <2>4 DEF Sound
        <5>2. ASSUME NEW i \in 1..k, revisions'[e][i] = revisions'[e][i + 1]
              PROVE  revisions'[e][i] = Project
          <6>1. CASE i = k
            <7>1. k > 0 /\ revisions[e][k] = m /\ k \in 1..k
              BY <2>4, <5>2, <6>1
            <7>2. Done(m, e)
              BY <2>3, <7>1 DEF Done, Owner
            <7> QED
              BY <1>5, <7>2
          <6>2. CASE i \in 1..k - 1
            <7>1. /\ i \in 1..k /\ i + 1 \in 1..k
                  /\ revisions[e][i] = revisions[e][i + 1]
              BY <2>4, <5>2, <6>2
            <7> QED
              BY <1>3, <2>3, <2>4, <6>2, <7>1 DEF Sound
          <6> QED
            BY <2>4, <6>1, <6>2
        <5> QED
          BY <2>4, <4>1, <5>1, <5>2
      <4>2. CASE f # e
        <5>1. Revision(f)' = Revision(f)
          BY <2>4, <4>2 DEF Revision
        <5>2. /\ published[f] \subseteq 1..Revision(f) /\ Revision(f) <= MaxRevision
              /\ \A i \in 1..Revision(f) - 1 :
                    revisions[f][i] = revisions[f][i + 1] => revisions[f][i] = Project
          BY <1>3 DEF Sound
        <5>3. revisions'[f] = revisions[f]
          BY <2>4, <4>2
        <5> QED
          BY <5>1, <5>2, <5>3
      <4> QED
        BY <4>1, <4>2
    <3> QED
      BY <2>2, <3>1 DEF Sound
  <2>8. Pinned'
    <3>1. ASSUME NEW f \in Entries
          PROVE  \A i \in published[f] : \A j \in 0..i : Owner(f, j)' = Owner(f, j)
      <4>1. ASSUME NEW i \in published[f], NEW j \in 0..i
            PROVE  j \in 0..Revision(f)
        <5>1. i \in 1..Revision(f) /\ Revision(f) \in Nat
          BY <1>3, <4>1 DEF Sound, PublicationTypes, Revision
        <5> QED
          BY <4>1, <5>1
      <4> QED
        BY <2>4, <4>1
    <3> QED
      BY <1>3, <2>2, <3>1, PinStays
  <2>9. Begun(m, rows, e)'
    <3>1. PICK j : j = rows[e]
      OBVIOUS
    <3>2. j = k /\ j \in 0..Revision(e)
      BY <1>3, <1>5, <2>3, <2>4, <3>1 DEF Follows
    <3>3. Owner(e, j) # m
      <4>1. CASE k = 0
        BY <1>3, <3>2, <4>1 DEF Owner
      <4>2. CASE k > 0
        BY <1>5, <2>3, <3>2, <4>2 DEF Done
      <4> QED
        BY <2>4, <4>1, <4>2
    <3>4. Owner(e, j)' # m
      BY <1>3, <2>4, <3>2, <3>3
    <3>5. Owner(e, k + 1)' = m
      <4>1. PICK i : i = k + 1
        OBVIOUS
      <4>2. i \in 1..i /\ Revision(e)' = i /\ revisions'[e][i] = m
        BY <2>4, <4>1
      <4>3. Owner(e, i)' = m
        BY <4>2 DEF Owner
      <4> QED
        BY <4>1, <4>3
    <3>6. k + 1 > 0 /\ k + 1 \notin published'[e]
      BY <1>3, <2>2, <2>3, <2>4 DEF Sound
    <3>7. Done(m, e)'
      BY <2>4, <3>5, <3>6 DEF Done
    <3>8. Bound(m, rows, e)' = k + 1
      BY <3>1, <3>2, <3>4 DEF Bound
    <3> QED
      BY <2>4, <3>6, <3>7, <3>8 DEF Begun
  <2>10. \A f \in Manifests[m] \ {e} :
            /\ Finished(m, rows, f)' <=> Finished(m, rows, f)
            /\ Follows(m, rows, f)' <=> Follows(m, rows, f)
    BY <1>3, <2>2, <2>4, SameEntry
  <2>11. Publishing(w)'
    <3>1. /\ \A i \in 1..Cardinality(Manifests[m]) : Order(m)[i] \in Manifests[m]
          /\ \A i, j \in 1..Cardinality(Manifests[m]) : Order(m)[i] = Order(m)[j] => i = j
      BY <1>3, OrderIs
    <3>2. ASSUME NEW i \in 1..Cardinality(Manifests[m])
          PROVE  /\ i < n => Finished(m, rows, Order(m)[i])'
                 /\ i > n => Follows(m, rows, Order(m)[i])'
                 /\ i = n => Begun(m, rows, Order(m)[i])'
      <4>1. PICK f : f = Order(m)[i]
        OBVIOUS
      <4>2. CASE i = n
        BY <1>3, <2>9, <4>2
      <4>3. CASE i # n
        <5>1. f \in Manifests[m] \ {e}
          BY <1>3, <3>1, <4>1, <4>3
        <5>2. /\ i < n => Finished(m, rows, f)
              /\ i > n => Follows(m, rows, f)
          BY <1>1, <1>2, <1>3, <4>1 DEF Publishing
        <5> QED
          BY <2>10, <4>1, <4>3, <5>1, <5>2
      <4> QED
        BY <4>2, <4>3
    <3> QED
      BY <1>3, <2>2, <3>2 DEF Publishing
  <2>12. \A f \in Entries \ Manifests[m] :
            revisions'[f] = revisions[f] /\ published'[f] = published[f]
    BY <1>3, <2>2, <2>4
  <2>13. ASSUME NEW q \in Publishers, NEW v \in {work'[q]} \ {Free}
         PROVE  Publishing(v)'
    <3>1. CASE q = p
      BY <2>5, <2>11, <3>1
    <3>2. CASE q # p
      <4>1. work[p].stage # "lock"
        BY <1>2
      <4> QED
        BY <1>1, <1>2, <2>5, <2>12, <3>2, <4>1, OthersKeep
    <3> QED
      BY <3>1, <3>2
  <2> QED
    BY <2>5, <2>6, <2>7, <2>8, <2>13 DEF PublicationInv
<1> QED
  BY <1>4, <1>5

LEMMA StepEvent ==
    ASSUME PublicationInv, NEW p \in Publishers, WriteEvent(p)
    PROVE  PublicationInv'
<1>1. /\ work[p] # Free /\ work[p].stage = "event" /\ UNCHANGED <<revisions, sealed>>
      /\ published' = [published EXCEPT ![Turn(p)] = @ \cup {Revision(Turn(p))}]
      /\ Advance(p)
  BY DEF WriteEvent
<1>2. Begun(work[p].manifest, work[p].plan, Turn(p))
  BY <1>1, TurnIs
<1>3. PICK e : e = Turn(p)
  OBVIOUS
<1>4. /\ Done(work[p].manifest, e)
      /\ Revision(e) = Bound(work[p].manifest, work[p].plan, e)
  BY <1>2, <1>3 DEF Begun
<1> QED
  BY <1>1, <1>3, <1>4, EventStep

LEMMA StepFail ==
    ASSUME PublicationInv, NEW p \in Publishers, FailEvent(p)
    PROVE  PublicationInv'
<1>1. PICK m, rows, e : m = work[p].manifest /\ rows = work[p].plan /\ e = Turn(p)
  OBVIOUS
<1>2. /\ work[p] # Free /\ work[p].stage = "event" /\ work[p].stage # "lock"
      /\ UNCHANGED <<published, sealed, printed>>
      /\ LetGo(p) /\ revisions' = [revisions EXCEPT ![e] = Front(@)]
  BY <1>1 DEF FailEvent
<1>3. /\ m \in DOMAIN Manifests /\ e \in Manifests[m] /\ e \in Entries
      /\ Begun(m, rows, e)
      /\ PublicationTypes /\ Sound /\ Locked /\ Pinned
  BY <1>1, <1>2, TurnIs DEF PublicationInv
<1>4. PICK k : k = Revision(e)
  OBVIOUS
<1>5. k \in Nat /\ k > 0 /\ k \notin published[e] /\ k <= MaxRevision /\ MaxRevision \in Nat
  BY <1>3, <1>4, PublicationAssumption
     DEF Begun, Done, PublicationTypes, Sound, Revision
<1>6. /\ revisions' \in [Entries -> Seq(DOMAIN Manifests \cup {Project})]
      /\ Revision(e)' = k - 1
      /\ \A i \in 1..k - 1 : revisions'[e][i] = revisions[e][i]
      /\ \A f \in Entries \ {e} : revisions'[f] = revisions[f]
  <2>1. /\ revisions[e] \in Seq(DOMAIN Manifests \cup {Project}) /\ Len(revisions[e]) = k
        /\ revisions'[e] = SubSeq(revisions[e], 1, k - 1)
        /\ \A f \in Entries \ {e} : revisions'[f] = revisions[f]
    BY <1>2, <1>3, <1>4 DEF PublicationTypes, Revision, Front
  <2>2. /\ SubSeq(revisions[e], 1, k - 1) \in Seq(DOMAIN Manifests \cup {Project})
        /\ Len(SubSeq(revisions[e], 1, k - 1)) = k - 1
        /\ \A i \in 1..k - 1 : SubSeq(revisions[e], 1, k - 1)[i] = revisions[e][i]
    <3>1. PICK q, S : q = revisions[e] /\ S = DOMAIN Manifests \cup {Project}
      OBVIOUS
    <3>2. q \in Seq(S) /\ k - 1 \in 0..Len(q) /\ k - 1 \in Nat
      BY <1>5, <2>1, <3>1
    <3>3. /\ SubSeq(q, 1, k - 1) \in Seq(S) /\ Len(SubSeq(q, 1, k - 1)) = k - 1
          /\ \A i \in 1..k - 1 : SubSeq(q, 1, k - 1)[i] = q[i]
      BY <3>2
    <3> QED
      BY <3>1, <3>3
  <2>3. revisions' \in [Entries -> Seq(DOMAIN Manifests \cup {Project})]
    BY <1>2, <1>3, <2>1, <2>2 DEF PublicationTypes
  <2> QED
    BY <2>1, <2>2, <2>3 DEF Revision
<1>7. /\ Locked' /\ work' \in [Publishers -> Calls \cup {Free}]
      /\ locks' \in [Locks -> Publishers \cup {Free}]
      /\ \A q \in Publishers : work'[q] # Free =>
            work'[q].plan \in [Manifests[work'[q].manifest] -> 0..MaxRevision]
      /\ work'[p] = Free /\ \A q \in Publishers \ {p} : work'[q] = work[q]
  BY <1>2, CallEnds
<1>8. PublicationTypes'
  BY <1>2, <1>3, <1>6, <1>7 DEF PublicationTypes
<1>9. published[e] \subseteq 1..k - 1
  BY <1>3, <1>4, <1>5 DEF Sound
<1>10. Sound'
  <2>1. ASSUME NEW f \in Entries
        PROVE  /\ published[f] \subseteq 1..Revision(f)' /\ Revision(f)' <= MaxRevision
               /\ \A i \in 1..Revision(f)' - 1 :
                     revisions'[f][i] = revisions'[f][i + 1] => revisions'[f][i] = Project
    <3>1. CASE f = e
      <4>1. ASSUME NEW i \in 1..(k - 1) - 1, revisions'[e][i] = revisions'[e][i + 1]
            PROVE  revisions'[e][i] = Project
        <5>1. i \in 1..k - 1 /\ i + 1 \in 1..k - 1
          BY <1>5, <4>1
        <5>2. revisions[e][i] = revisions[e][i + 1]
          BY <1>6, <4>1, <5>1
        <5> QED
          BY <1>3, <1>4, <1>6, <5>1, <5>2 DEF Sound
      <4> QED
        BY <1>5, <1>6, <1>9, <3>1, <4>1
    <3>2. CASE f # e
      <4>1. /\ published[f] \subseteq 1..Revision(f) /\ Revision(f) <= MaxRevision
            /\ \A i \in 1..Revision(f) - 1 :
                  revisions[f][i] = revisions[f][i + 1] => revisions[f][i] = Project
        BY <1>3 DEF Sound
      <4>2. revisions'[f] = revisions[f] /\ Revision(f)' = Revision(f)
        BY <1>6, <3>2 DEF Revision
      <4> QED
        BY <4>1, <4>2
    <3> QED
      BY <3>1, <3>2
  <2> QED
    BY <1>2, <2>1 DEF Sound
<1>11. Pinned'
  <2>1. ASSUME NEW f \in Entries, NEW i \in published[f], NEW j \in 0..i
        PROVE  Owner(f, j)' = Owner(f, j)
    <3>1. CASE f = e
      <4>1. i \in 1..k - 1
        BY <1>9, <2>1, <3>1
      <4>2. CASE j = 0
        BY <1>4, <1>5, <1>6, <3>1, <4>2 DEF Owner
      <4>3. CASE j \in 1..k - 1
        <5>1. revisions'[e][j] = revisions[e][j] /\ j \in 1..Revision(e)
          BY <1>4, <1>5, <1>6, <4>3
        <5>2. PICK l : l = Revision(e)'
          OBVIOUS
        <5>3. j \in 1..l
          BY <1>6, <4>3, <5>2
        <5> QED
          BY <3>1, <5>1, <5>2, <5>3 DEF Owner
      <4> QED
        BY <1>5, <2>1, <4>1, <4>2, <4>3
    <3>2. CASE f # e
      BY <1>6, <3>2 DEF Owner, Revision
    <3> QED
      BY <3>1, <3>2
  <2> QED
    BY <1>2, <1>3, <2>1, PinStays
<1>12. ASSUME NEW q \in Publishers, NEW v \in {work'[q]} \ {Free}
       PROVE  Publishing(v)'
  <2>1. q # p
    BY <1>7, <1>12
  <2>2. \A f \in Entries \ Manifests[m] :
            revisions'[f] = revisions[f] /\ published'[f] = published[f]
    BY <1>2, <1>3, <1>6
  <2> QED
    BY <1>1, <1>2, <1>7, <2>1, <2>2, OthersKeep
<1> QED
  BY <1>7, <1>8, <1>10, <1>11, <1>12 DEF PublicationInv

---------------------------------------------------------------------------
(* Publication: the theorems *)

LEMMA PublicationStarts == PublicationInit => PublicationInv
<1> SUFFICES ASSUME PublicationInit PROVE PublicationInv
  OBVIOUS
<1>1. Free \notin Publishers
  BY PublicationAssumption
<1>2. PublicationTypes
  BY DEF PublicationInit, PublicationTypes
<1>3. \A e \in Entries : Revision(e) = 0
  BY DEF PublicationInit, Revision
<1>4. Sound
  BY <1>3, PublicationAssumption DEF PublicationInit, Sound
<1>5. Locked /\ Pinned
  BY <1>1 DEF PublicationInit, Locked, Pinned
<1>6. \A p \in Publishers : \A w \in {work[p]} \ {Free} : Publishing(w)
  BY DEF PublicationInit
<1> QED
  BY <1>2, <1>4, <1>5, <1>6 DEF PublicationInv

LEMMA PublicationSteps ==
    PublicationInv /\ [PublicationNext]_publicationVars => PublicationInv'
<1> SUFFICES ASSUME PublicationInv, [PublicationNext]_publicationVars
             PROVE  PublicationInv'
  OBVIOUS
<1>1. CASE UNCHANGED publicationVars
  BY <1>1, StepSeal
<1>2. ASSUME NEW p \in Publishers,
             \/ StartPublish(p) \/ TakeLock(p) \/ CheckPlan(p) \/ WriteRevision(p)
             \/ WriteEvent(p) \/ FailEvent(p) \/ KillPublisher(p)
      PROVE  PublicationInv'
  BY <1>2, StepStart, StepLock, StepCheck, StepRevision, StepEvent, StepFail, StepKill
<1>3. CASE EditDocument \/ SealDocument
  BY <1>3, StepEdit, StepSeal
<1> QED
  BY <1>1, <1>2, <1>3 DEF PublicationNext

\* A printed receipt stays true (package_wiki.py, publish and
\* verify_generation_binding): whatever other calls, edits, failures and kills
\* come after it, each revision that it pins is its manifest's, has its event and
\* is the one that its plan binds.
THEOREM ReceiptHolds == PublicationSpec => []ReceiptStaysTrue
<1>1. PublicationInv => ReceiptStaysTrue
  <2> SUFFICES ASSUME PublicationInv, printed # Free PROVE ReceiptStaysTrue
    BY DEF ReceiptStaysTrue
  <2>1. /\ DOMAIN printed.pins = Manifests[printed.manifest]
        /\ \A e \in DOMAIN printed.pins :
              /\ Owner(e, printed.pins[e]) = printed.manifest
              /\ printed.pins[e] \in published[e]
              /\ printed.pins[e] = Bound(printed.manifest, printed.plan, e)
    BY DEF PublicationInv, Pinned
  <2> QED
    BY <2>1 DEF ReceiptStaysTrue, Readable, VerifyBinding
<1> QED
  BY <1>1, PublicationStarts, PublicationSteps, PTL DEF PublicationSpec

\* Two publications whose manifests share Documents never wait for each other:
\* both take the locks in the order of the lock names (package_wiki.py, publish).
THEOREM PublicationsDoNotWaitInACircle == PublicationSpec => []NoCircularWait
<1>1. PublicationInv => NoCircularWait
  <2>1. ASSUME PublicationInv, NEW p \in Publishers, NEW q \in Publishers,
               work[p] # Free, work[p].stage = "lock", locks[Wanted(p)] = q,
               work[q] # Free, work[q].stage = "lock"
        PROVE  /\ Wanted(p) \in Nat /\ Wanted(q) \in Nat /\ Wanted(p) < Wanted(q)
    <3>1. PICK mp, mq, np, nq :
              /\ mp = work[p].manifest /\ np = work[p].next
              /\ mq = work[q].manifest /\ nq = work[q].next
      OBVIOUS
    <3>2. /\ mp \in DOMAIN Manifests /\ mq \in DOMAIN Manifests
          /\ np \in 1..Len(LockSequence(mp)) /\ nq \in 1..Len(LockSequence(mq))
      BY <2>1, <3>1 DEF PublicationInv, PublicationTypes, Locked, Calls
    <3>3. /\ Wanted(p) = LockSequence(mp)[np] /\ Wanted(q) = LockSequence(mq)[nq]
          /\ Wanted(p) \in Locks /\ Wanted(p) \in Nat /\ Wanted(q) \in Nat
      BY <3>1, <3>2, SequenceIs DEF Wanted
    <3>4. PICK k \in 1..nq - 1 : Wanted(p) = LockSequence(mq)[k]
      BY <2>1, <3>1, <3>3 DEF PublicationInv, Locked, Taken
    <3>5. k \in 1..Len(LockSequence(mq)) /\ k < nq
      BY <3>2, <3>4, SequenceIs
    <3> QED
      BY <3>2, <3>3, <3>4, <3>5, SequenceIs
  <2>2. ASSUME PublicationInv, NEW p \in Publishers, NEW q \in Publishers,
               work[p] # Free, work[p].stage = "lock", locks[Wanted(p)] = q,
               work[q] # Free, work[q].stage = "lock", locks[Wanted(q)] = p
        PROVE  FALSE
    <3>1. PICK a, b : a = Wanted(p) /\ b = Wanted(q)
      OBVIOUS
    <3>2. a \in Nat /\ b \in Nat /\ a < b /\ b < a
      BY <2>1, <2>2, <3>1
    <3> QED
      BY <3>2
  <2> QED
    BY <2>2 DEF NoCircularWait
<1> QED
  BY <1>1, PublicationStarts, PublicationSteps, PTL DEF PublicationSpec

---------------------------------------------------------------------------
(* SkillInstall                                                            *)

SkillTypes ==
    /\ found \in [Spots -> Contents]
    /\ recorded \in Contents
    /\ install \in [Installers -> Installations \cup {Nothing}]

\* The places of which a call has set something aside.
Moved(c) == {c.aside[k].spot : k \in 1..Len(c.aside)}
Injective(q) == \A j, k \in 1..Len(q) : q[j] = q[k] => j = k
Among(q, S) == \A k \in 1..Len(q) : q[k] \in S

\* A directory is set aside once, and what was set aside of it is what the call
\* had found, unless somebody had written it by then.
SetAsideOnce(c) ==
    /\ \A j, k \in 1..Len(c.aside) : c.aside[j].spot = c.aside[k].spot => j = k
    /\ \A k \in 1..Len(c.aside) :
          /\ c.aside[k].spot \notin c.disturbed => c.aside[k].was = c.before[c.aside[k].spot]
          /\ ~c.force => c.before[c.aside[k].spot] # Edited

\* What is still to be done is not done yet, and none of it is the user's.
ToDo(c) ==
    /\ Injective(c.planned) /\ Injective(c.retired)
    /\ \A k \in 1..Len(c.planned) : ~c.force => c.before[c.planned[k]] # Edited
    /\ \A k \in 1..Len(c.retired) : ~c.force => c.before[c.retired[k]] # Edited
    /\ c.stage \in {"swap", "put"} =>
          /\ \A k \in 1..Len(c.retired) : c.retired[k] \notin Moved(c)
          /\ \A k \in 1..Len(c.planned) :
                (c.planned[k] \in Moved(c) <=> c.stage = "put" /\ k = 1)
    /\ c.stage = "put" => c.planned # <<>>

\* What the call has not touched is as it found it; what it has set aside is
\* empty or new.
Undoable(c) ==
    /\ c.stage \in {"swap", "put", "undo"} =>
          \A s \in Spots \ c.disturbed :
             IF s \in Moved(c) THEN found[s] \in {Nothing, c.release}
             ELSE found[s] = c.before[s]
    /\ c.stage = "undone" =>
          /\ \A s \in Spots \ c.disturbed : found[s] = c.before[s]
          /\ TheRecord \notin c.disturbed => recorded = c.record

Sane(c) == SetAsideOnce(c) /\ ToDo(c) /\ Undoable(c)

SkillInv ==
    /\ SkillTypes /\ destroyed = {}
    /\ \A i \in Installers : \A c \in {install[i]} \ {Nothing} : Sane(c)
---------------------------------------------------------------------------
(* SkillInstall: calls *)

LEMMA SpotsAre ==
    /\ Spots \in SUBSET Nat /\ IsFiniteSet(Spots) /\ TheRecord \notin Spots
    /\ SkillSpots \subseteq Spots /\ LegacySpots \subseteq Spots
    /\ SkillSpots \cap LegacySpots = {}
    /\ Edited \notin Releases /\ Edited # Nothing /\ Edited # OldRelease
    /\ OldRelease # Nothing /\ Nothing \notin Releases
    /\ Nothing \notin Installers
BY SkillInstallAssumption DEF Spots, TheRecord

LEMMA ListIs ==
    ASSUME NEW S \in SUBSET Spots
    PROVE  Ascending(S) \in Seq(S) /\ Injective(Ascending(S)) /\ Among(Ascending(S), S)
<1>1. S \in SUBSET Nat /\ IsFiniteSet(S)
  BY SpotsAre, FS_Subset
<1>2. PICK q : q = Ascending(S)
  OBVIOUS
<1>3. q \in Seq(S) /\ Len(q) = Cardinality(S) /\ Enumerates(q, S)
  BY <1>1, <1>2, AscendingIs
<1>4. ASSUME NEW j \in 1..Len(q), NEW k \in 1..Len(q), q[j] = q[k]
      PROVE  j = k
  <2>1. q[j] \in Nat
    <3>1. q[j] \in S
      BY <1>3
    <3> QED
      BY <1>1, <3>1
  <2>2. ~ (j < k) /\ ~ (k < j)
    BY <1>3, <1>4, <2>1 DEF Enumerates
  <2> QED
    BY <1>3, <2>2
<1> QED
  BY <1>2, <1>3, <1>4 DEF Injective, Among

\* A step of one call, as it and the others see it.
CallNow(c, stage, planned, retired, aside) ==
    [stage |-> stage, planned |-> planned, retired |-> retired, aside |-> aside,
     release |-> c.release, force |-> c.force,
     before |-> c.before, record |-> c.record, disturbed |-> c.disturbed]

LEMMA GoesOnIs ==
    ASSUME SkillTypes, NEW i \in Installers, NEW c, c = install[i], c # Nothing,
           NEW stage \in {"swap", "put", "clean", "undo", "undone"},
           NEW planned \in Seq(SkillSpots), NEW retired \in Seq(LegacySpots),
           NEW aside \in Seq(SetAsides),
           NEW nextCalls, nextCalls = GoesOn(i, stage, planned, retired, aside),
           NEW d, d = CallNow(c, stage, planned, retired, aside)
    PROVE  /\ d \in Installations /\ d # Nothing
           /\ nextCalls \in [Installers -> Installations \cup {Nothing}]
           /\ nextCalls[i] = d /\ \A j \in Installers \ {i} : nextCalls[j] = install[j]
           /\ d.stage = stage /\ d.planned = planned /\ d.retired = retired
           /\ d.aside = aside /\ d.release = c.release /\ d.force = c.force
           /\ d.before = c.before /\ d.record = c.record /\ d.disturbed = c.disturbed
<1>1. c \in Installations
  BY DEF SkillTypes
<1>2. d \in Installations /\ d # Nothing
  BY <1>1, NothingAssumption DEF Installations, CallNow
<1>3. nextCalls = [install EXCEPT ![i] = d]
  BY DEF GoesOn, CallNow
<1>4. /\ d.stage = stage /\ d.planned = planned /\ d.retired = retired
      /\ d.aside = aside /\ d.release = c.release /\ d.force = c.force
      /\ d.before = c.before /\ d.record = c.record /\ d.disturbed = c.disturbed
  BY DEF CallNow
<1>5. /\ nextCalls \in [Installers -> Installations \cup {Nothing}]
      /\ nextCalls[i] = d /\ \A j \in Installers \ {i} : nextCalls[j] = install[j]
  BY <1>2, <1>3 DEF SkillTypes
<1> QED
  BY <1>2, <1>4, <1>5

LEMMA HeadIs ==
    ASSUME NEW S, NEW q \in Seq(S), q # <<>>
    PROVE  /\ 1 \in 1..Len(q) /\ Head(q) = q[1] /\ q[1] \in S
           /\ Tail(q) \in Seq(S) /\ Len(Tail(q)) = Len(q) - 1
           /\ \A k \in 1..Len(q) - 1 : Tail(q)[k] = q[k + 1] /\ k + 1 \in 1..Len(q)
OBVIOUS

\* What somebody else's step makes of a call.
Seen(c, s) ==
    [stage |-> c.stage, planned |-> c.planned, retired |-> c.retired, aside |-> c.aside,
     release |-> c.release, force |-> c.force,
     before |-> c.before, record |-> c.record, disturbed |-> c.disturbed \cup {s}]

LEMMA DisturbingIs ==
    ASSUME NEW nextCalls \in [Installers -> Installations \cup {Nothing}],
           NEW i, NEW s \in Spots \cup {TheRecord}
    PROVE  /\ Disturbing(i, s, nextCalls) \in [Installers -> Installations \cup {Nothing}]
           /\ i \in Installers => Disturbing(i, s, nextCalls)[i] = nextCalls[i]
           /\ \A j \in Installers \ {i} :
                 Disturbing(i, s, nextCalls)[j] = IF nextCalls[j] = Nothing THEN Nothing
                                              ELSE Seen(nextCalls[j], s)
<1>1. ASSUME NEW c \in Installations
      PROVE  [c EXCEPT !.disturbed = @ \cup {s}] = Seen(c, s) /\ Seen(c, s) \in Installations
  <2>1. Seen(c, s) \in Installations
    BY DEF Seen, Installations
  <2>2. PICK d : d = [c EXCEPT !.disturbed = c.disturbed \cup {s}]
    OBVIOUS
  <2>3. d \in Installations
    BY <2>2 DEF Installations
  <2>4. d = Seen(c, s)
    BY <2>2, <2>3 DEF Seen, Installations
  <2> QED
    BY <2>1, <2>2, <2>4
<1>2. \A j \in Installers : Disturbing(i, s, nextCalls)[j] =
          IF j = i \/ nextCalls[j] = Nothing THEN nextCalls[j] ELSE Seen(nextCalls[j], s)
  <2>1. ASSUME NEW j \in Installers
        PROVE  (IF j = i \/ nextCalls[j] = Nothing THEN nextCalls[j]
                ELSE [nextCalls[j] EXCEPT !.disturbed = @ \cup {s}]) =
               IF j = i \/ nextCalls[j] = Nothing THEN nextCalls[j] ELSE Seen(nextCalls[j], s)
    <3>1. CASE j = i \/ nextCalls[j] = Nothing
      BY <3>1
    <3>2. CASE ~ (j = i \/ nextCalls[j] = Nothing)
      <4>1. nextCalls[j] \in Installations
        BY <3>2
      <4>2. [nextCalls[j] EXCEPT !.disturbed = @ \cup {s}] = Seen(nextCalls[j], s)
        BY <1>1, <4>1
      <4> QED
        BY <3>2, <4>2
    <3> QED
      BY <3>1, <3>2
  <2> QED
    BY <2>1 DEF Disturbing
<1>3. \A j \in Installers : Disturbing(i, s, nextCalls)[j] \in Installations \cup {Nothing}
  BY <1>1, <1>2
<1> QED
  BY <1>2, <1>3 DEF Disturbing

\* Whoever is told that a place has changed still tells the truth of the others.
LEMMA SeenIsSane ==
    ASSUME NEW c \in Installations, NEW s \in Spots \cup {TheRecord}, Sane(c),
           \A x \in Spots \ {s} : found'[x] = found[x],
           s # TheRecord => recorded' = recorded
    PROVE  Sane(Seen(c, s))'
<1>1. PICK d : d = Seen(c, s)
  OBVIOUS
<1>2. /\ d.stage = c.stage /\ d.planned = c.planned /\ d.retired = c.retired
      /\ d.aside = c.aside /\ d.release = c.release /\ d.force = c.force
      /\ d.before = c.before /\ d.record = c.record /\ d.disturbed = c.disturbed \cup {s}
  BY <1>1 DEF Seen
<1>3. Moved(d) = Moved(c)
  BY <1>2 DEF Moved
<1>4. SetAsideOnce(d) /\ ToDo(d)
  BY <1>2, <1>3 DEF Sane, SetAsideOnce, ToDo
<1>5. Undoable(d)'
  <2>1. ASSUME NEW x \in Spots \ d.disturbed
        PROVE  x \in Spots \ c.disturbed /\ found'[x] = found[x]
    BY <1>2
  <2> QED
    BY <1>2, <1>3, <2>1 DEF Sane, Undoable
<1> QED
  BY <1>1, <1>4, <1>5 DEF Sane

\* One call goes on, or ends; the others see it.
LEMMA StepOfOne ==
    ASSUME SkillInv, NEW i, NEW s \in Spots \cup {TheRecord},
           NEW nextCalls \in [Installers -> Installations \cup {Nothing}],
           \A j \in Installers \ {i} : nextCalls[j] = install[j],
           install' = Disturbing(i, s, nextCalls),
           i \in Installers => \A d \in {nextCalls[i]} \ {Nothing} : Sane(d)',
           found' \in [Spots -> Contents], \A x \in Spots \ {s} : found'[x] = found[x],
           recorded' \in Contents, s # TheRecord => recorded' = recorded,
           destroyed' = {}
    PROVE  SkillInv'
<1>1. /\ install' \in [Installers -> Installations \cup {Nothing}]
      /\ i \in Installers => install'[i] = nextCalls[i]
      /\ \A j \in Installers \ {i} :
            install'[j] = IF install[j] = Nothing THEN Nothing ELSE Seen(install[j], s)
  BY DisturbingIs
<1>2. ASSUME NEW j \in Installers, NEW d \in {install'[j]} \ {Nothing}
      PROVE  Sane(d)'
  <2>1. CASE j = i
    BY <1>1, <1>2, <2>1
  <2>2. CASE j # i
    <3>1. PICK c : c = install[j]
      OBVIOUS
    <3>2. c # Nothing /\ c \in Installations /\ d = Seen(c, s) /\ Sane(c)
      BY <1>1, <1>2, <2>2, <3>1 DEF SkillInv, SkillTypes
    <3> QED
      BY <3>2, SeenIsSane
  <2> QED
    BY <2>1, <2>2
<1> QED
  BY <1>1, <1>2 DEF SkillInv, SkillTypes

\* One call changes what only it knows.
LEMMA QuietStep ==
    ASSUME SkillInv, NEW i \in Installers,
           NEW nextCalls \in [Installers -> Installations \cup {Nothing}],
           \A j \in Installers \ {i} : nextCalls[j] = install[j], install' = nextCalls,
           \A d \in {nextCalls[i]} \ {Nothing} : Sane(d),
           UNCHANGED <<found, recorded>>, destroyed' = {}
    PROVE  SkillInv'
<1>1. ASSUME NEW j \in Installers, NEW d \in {install'[j]} \ {Nothing}
      PROVE  Sane(d)'
  <2>1. Sane(d)
    BY <1>1 DEF SkillInv
  <2> QED
    BY <2>1 DEF Sane, Undoable
<1> QED
  BY <1>1 DEF SkillInv, SkillTypes
---------------------------------------------------------------------------
(* SkillInstall: steps *)

LEMMA StepStartInstall ==
    ASSUME SkillInv, NEW i \in Installers, StartInstall(i)
    PROVE  SkillInv'
<1>1. PICK release \in Releases : \E force \in BOOLEAN :
          LET planned == {s \in SkillSpots : found[s] # release} IN
          /\ force \/ \A s \in planned : found[s] = Nothing
          /\ install' = [install EXCEPT ![i] =
                [stage |-> "swap", release |-> release, force |-> force,
                 planned |-> Ascending(planned), retired |-> Ascending(Retirable),
                 aside |-> <<>>, before |-> found, record |-> recorded, disturbed |-> {}]]
  BY DEF StartInstall
<1>2. PICK force \in BOOLEAN :
          LET planned == {s \in SkillSpots : found[s] # release} IN
          /\ force \/ \A s \in planned : found[s] = Nothing
          /\ install' = [install EXCEPT ![i] =
                [stage |-> "swap", release |-> release, force |-> force,
                 planned |-> Ascending(planned), retired |-> Ascending(Retirable),
                 aside |-> <<>>, before |-> found, record |-> recorded, disturbed |-> {}]]
  BY <1>1
<1>3. PICK P, R : P = {s \in SkillSpots : found[s] # release} /\ R = Retirable
  OBVIOUS
<1>4. /\ P \in SUBSET Spots /\ R \in SUBSET Spots /\ P \subseteq SkillSpots
      /\ R \subseteq LegacySpots /\ \A s \in R : found[s] = OldRelease
      /\ force \/ \A s \in P : found[s] = Nothing
  BY <1>2, <1>3, SpotsAre DEF Retirable
<1>5. PICK p, r : p = Ascending(P) /\ r = Ascending(R)
  OBVIOUS
<1>6. /\ p \in Seq(P) /\ Injective(p) /\ Among(p, P)
      /\ r \in Seq(R) /\ Injective(r) /\ Among(r, R)
  BY <1>4, <1>5, ListIs
<1>7. PICK d : d = [stage |-> "swap", release |-> release, force |-> force,
                    planned |-> p, retired |-> r, aside |-> <<>>,
                    before |-> found, record |-> recorded, disturbed |-> {}]
  OBVIOUS
<1>8. /\ p \in Seq(SkillSpots) /\ r \in Seq(LegacySpots) /\ <<>> \in Seq(SetAsides)
      /\ found \in [Spots -> Contents] /\ recorded \in Contents
  BY <1>4, <1>6 DEF SkillInv, SkillTypes
<1>9. d \in Installations
  BY <1>7, <1>8 DEF Installations
<1>10. install' = [install EXCEPT ![i] = d]
  BY <1>2, <1>3, <1>5, <1>7
<1>11. /\ install' \in [Installers -> Installations \cup {Nothing}]
       /\ install'[i] = d /\ \A j \in Installers \ {i} : install'[j] = install[j]
       /\ UNCHANGED <<found, recorded, destroyed>>
  BY <1>9, <1>10 DEF SkillInv, SkillTypes, StartInstall
<1>12. /\ d.stage = "swap" /\ d.planned = p /\ d.retired = r /\ d.aside = <<>>
       /\ d.force = force /\ d.before = found
  BY <1>7
<1>13. SetAsideOnce(d) /\ Moved(d) = {}
  BY <1>12 DEF SetAsideOnce, Moved
<1>14. ASSUME ~force
       PROVE  /\ \A k \in 1..Len(p) : found[p[k]] # Edited
              /\ \A k \in 1..Len(r) : found[r[k]] # Edited
  BY <1>4, <1>6, <1>14, SpotsAre DEF Among
<1>15. ToDo(d)
  BY <1>6, <1>12, <1>13, <1>14 DEF ToDo
<1>16. Undoable(d)
  BY <1>12, <1>13 DEF Undoable
<1> QED
  BY <1>11, <1>13, <1>15, <1>16, QuietStep DEF Sane, SkillInv

\* A call on its way: its fields, and what it has set aside.
LEMMA CallIs ==
    ASSUME SkillInv, NEW i \in Installers, install[i] # Nothing
    PROVE  /\ install[i] \in Installations /\ Sane(install[i])
           /\ install[i].planned \in Seq(SkillSpots) /\ install[i].retired \in Seq(LegacySpots)
           /\ install[i].aside \in Seq(SetAsides) /\ Moved(install[i]) \subseteq Spots
<1>1. install[i] \in Installations /\ Sane(install[i])
  BY DEF SkillInv, SkillTypes
<1>2. install[i].aside \in Seq(SetAsides)
  BY <1>1 DEF Installations
<1>3. \A k \in 1..Len(install[i].aside) : install[i].aside[k] \in SetAsides
  BY <1>2
<1> QED
  BY <1>1, <1>3 DEF Installations, Moved, SetAsides

\* One more is set aside.
LEMMA OneMoreAside ==
    ASSUME NEW c \in Installations, NEW d \in Installations, NEW a \in SetAsides,
           SetAsideOnce(c), d.aside = Append(c.aside, a),
           d.force = c.force, d.before = c.before, d.disturbed = c.disturbed,
           a.spot \notin Moved(c), a.spot \notin c.disturbed => a.was = c.before[a.spot],
           ~c.force => c.before[a.spot] # Edited
    PROVE  SetAsideOnce(d) /\ Moved(d) = Moved(c) \cup {a.spot}
<1>1. PICK q, n : q = c.aside /\ n = Len(q)
  OBVIOUS
<1>2. /\ q \in Seq(SetAsides) /\ n \in Nat /\ d.aside = Append(q, a) /\ Len(d.aside) = n + 1
      /\ \A k \in 1..n : d.aside[k] = q[k] /\ d.aside[n + 1] = a
      /\ \A k \in 1..n : q[k].spot # a.spot
  BY <1>1 DEF Installations, Moved
<1>3. d.aside[n + 1] = a
  BY <1>2
<1>4. \A k \in 1..n + 1 : k \in 1..n \/ k = n + 1
  BY <1>2
<1>5. ASSUME NEW j \in 1..n + 1, NEW k \in 1..n + 1, d.aside[j].spot = d.aside[k].spot
      PROVE  j = k
  BY <1>1, <1>2, <1>3, <1>4, <1>5 DEF SetAsideOnce
<1>6. ASSUME NEW k \in 1..n + 1
      PROVE  /\ d.aside[k].spot \notin d.disturbed =>
                    d.aside[k].was = d.before[d.aside[k].spot]
             /\ ~d.force => d.before[d.aside[k].spot] # Edited
  <2>1. CASE k = n + 1
    BY <1>3, <2>1
  <2>2. CASE k \in 1..n
    BY <1>1, <1>2, <2>2 DEF SetAsideOnce
  <2> QED
    BY <1>4, <2>1, <2>2
<1>7. Moved(d) = Moved(c) \cup {a.spot}
  <2>1. Moved(d) = {d.aside[k].spot : k \in 1..n + 1}
    BY <1>2 DEF Moved
  <2>2. Moved(c) = {q[k].spot : k \in 1..n}
    BY <1>1 DEF Moved
  <2>3. n + 1 \in 1..n + 1 /\ 1..n \subseteq 1..n + 1
    BY <1>2
  <2> QED
    BY <1>2, <1>3, <1>4, <2>1, <2>2, <2>3
<1> QED
  BY <1>2, <1>5, <1>6, <1>7 DEF SetAsideOnce

LEMMA StepSetAside ==
    ASSUME SkillInv, NEW i \in Installers, SetAside(i)
    PROVE  SkillInv'
<1>1. PICK c, s : c = install[i] /\ s = Head(install[i].planned)
  OBVIOUS
<1>2. PICK a : a = Aside(i, s, FALSE)
  OBVIOUS
<1>3. /\ c # Nothing /\ c.stage = "swap" /\ c.planned # <<>>
      /\ found' = [found EXCEPT ![s] = Nothing]
      /\ install' = Disturbing(i, s, GoesOn(i, "put", c.planned, c.retired, Append(c.aside, a)))
      /\ UNCHANGED <<recorded, destroyed>>
  BY <1>1, <1>2 DEF SetAside, At
<1>4. /\ c \in Installations /\ Sane(c) /\ c.planned \in Seq(SkillSpots)
      /\ c.retired \in Seq(LegacySpots) /\ c.aside \in Seq(SetAsides)
      /\ Moved(c) \subseteq Spots
      /\ found \in [Spots -> Contents] /\ destroyed = {} /\ recorded \in Contents
  BY <1>1, <1>3, CallIs DEF SkillInv, SkillTypes
<1>5. /\ 1 \in 1..Len(c.planned) /\ s = c.planned[1] /\ s \in SkillSpots
      /\ s \in Spots /\ s \notin LegacySpots
  <2>1. 1 \in 1..Len(c.planned) /\ s = c.planned[1] /\ s \in SkillSpots
    BY <1>1, <1>3, <1>4, HeadIs
  <2> QED
    BY <2>1, SpotsAre
<1>6. /\ a \in SetAsides /\ a.spot = s /\ a.was = found[s]
  BY <1>2, <1>4, <1>5 DEF Aside, SetAsides
<1>7. PICK more : more = Append(c.aside, a)
  OBVIOUS
<1>11. more \in Seq(SetAsides)
  BY <1>4, <1>6, <1>7
<1>8. PICK nextCalls : nextCalls = GoesOn(i, "put", c.planned, c.retired, more)
  OBVIOUS
<1>9. PICK d : d = CallNow(c, "put", c.planned, c.retired, more)
  OBVIOUS
<1>10. /\ d \in Installations /\ nextCalls \in [Installers -> Installations \cup {Nothing}]
       /\ nextCalls[i] = d /\ \A j \in Installers \ {i} : nextCalls[j] = install[j]
       /\ d.stage = "put" /\ d.planned = c.planned /\ d.retired = c.retired
       /\ d.aside = Append(c.aside, a) /\ d.release = c.release /\ d.force = c.force
       /\ d.before = c.before /\ d.record = c.record /\ d.disturbed = c.disturbed
  <2>1. SkillTypes /\ c = install[i] /\ c # Nothing
    BY <1>1, <1>3 DEF SkillInv
  <2>2. /\ d \in Installations /\ nextCalls \in [Installers -> Installations \cup {Nothing}]
        /\ nextCalls[i] = d /\ \A j \in Installers \ {i} : nextCalls[j] = install[j]
        /\ d.stage = "put" /\ d.planned = c.planned /\ d.retired = c.retired
        /\ d.aside = more /\ d.release = c.release /\ d.force = c.force
        /\ d.before = c.before /\ d.record = c.record /\ d.disturbed = c.disturbed
    <3>1. c.planned \in Seq(SkillSpots) /\ c.retired \in Seq(LegacySpots)
      BY <1>4
    <3> HIDE DEF SkillInv
    <3> QED
      BY <1>11, <1>8, <1>9, <2>1, <3>1, GoesOnIs
  <2> QED
    BY <1>7, <2>2
<1>12. /\ SetAsideOnce(c) /\ ToDo(c) /\ s \notin Moved(c)
       /\ \A x \in Spots \ c.disturbed :
             IF x \in Moved(c) THEN found[x] \in {Nothing, c.release} ELSE found[x] = c.before[x]
       /\ ~c.force => c.before[s] # Edited
  BY <1>3, <1>4, <1>5 DEF Sane, ToDo, Undoable
<1>13. s \notin c.disturbed => a.was = c.before[s]
  BY <1>5, <1>6, <1>12
<1>14. SetAsideOnce(d) /\ Moved(d) = Moved(c) \cup {s}
  BY <1>4, <1>6, <1>10, <1>12, <1>13, OneMoreAside
<1>15. ToDo(d)
  <2>1. \A k \in 1..Len(c.retired) : c.retired[k] \notin Moved(d)
    BY <1>3, <1>4, <1>5, <1>12, <1>14 DEF ToDo
  <2>2. \A k \in 1..Len(c.planned) : c.planned[k] \in Moved(d) <=> k = 1
    BY <1>3, <1>5, <1>12, <1>14 DEF ToDo, Injective
  <2> QED
    BY <1>3, <1>10, <1>12, <2>1, <2>2 DEF ToDo
<1>16. /\ found' \in [Spots -> Contents] /\ found'[s] = Nothing
       /\ \A x \in Spots \ {s} : found'[x] = found[x]
  BY <1>3, <1>4, <1>5 DEF Contents
<1>17. Undoable(d)'
  <2>1. \A x \in Spots \ c.disturbed :
            IF x \in Moved(d) THEN found'[x] \in {Nothing, c.release}
            ELSE found'[x] = c.before[x]
    <3>1. ASSUME NEW x \in Spots \ c.disturbed
          PROVE  IF x \in Moved(d) THEN found'[x] \in {Nothing, c.release}
                 ELSE found'[x] = c.before[x]
      <4>1. CASE x = s
        <5>1. found'[x] = Nothing
          BY <1>16, <4>1
        <5>2. x \in Moved(d)
          BY <1>14, <4>1
        <5> QED
          BY <5>1, <5>2
      <4>2. CASE x # s
        BY <1>12, <1>14, <1>16, <3>1, <4>2
      <4> QED
        BY <4>1, <4>2
    <3> QED
      BY <3>1
  <2> QED
    BY <1>10, <2>1 DEF Undoable
<1>18. Sane(d)'
  BY <1>14, <1>15, <1>17 DEF Sane
<1> QED
  BY <1>3, <1>4, <1>5, <1>7, <1>8, <1>10, <1>16, <1>18, StepOfOne

\* A call that gives up and will be undone.
LEMMA GivesUp ==
    ASSUME SkillInv, NEW i \in Installers, NEW c, c = install[i], c # Nothing,
           c.stage \in {"swap", "put"}, install' = Enters(i, "undo"),
           UNCHANGED <<found, recorded, destroyed>>
    PROVE  SkillInv'
<1>1. PICK nextCalls, d : /\ nextCalls = GoesOn(i, "undo", c.planned, c.retired, c.aside)
                      /\ d = CallNow(c, "undo", c.planned, c.retired, c.aside)
  OBVIOUS
<1>2. /\ c \in Installations /\ Sane(c) /\ c.planned \in Seq(SkillSpots)
      /\ c.retired \in Seq(LegacySpots) /\ c.aside \in Seq(SetAsides)
      /\ SkillTypes /\ destroyed = {}
  BY CallIs DEF SkillInv
<1>3. /\ d \in Installations /\ nextCalls \in [Installers -> Installations \cup {Nothing}]
      /\ nextCalls[i] = d /\ \A j \in Installers \ {i} : nextCalls[j] = install[j]
      /\ d.stage = "undo" /\ d.planned = c.planned /\ d.retired = c.retired
      /\ d.aside = c.aside /\ d.release = c.release /\ d.force = c.force
      /\ d.before = c.before /\ d.record = c.record /\ d.disturbed = c.disturbed
  BY <1>1, <1>2, GoesOnIs
<1>4. Moved(d) = Moved(c)
  BY <1>3 DEF Moved
<1>5. SetAsideOnce(d)
  BY <1>2, <1>3 DEF Sane, SetAsideOnce
<1>6. ToDo(d)
  BY <1>2, <1>3 DEF Sane, ToDo
<1>7. Undoable(d)
  BY <1>2, <1>3, <1>4 DEF Sane, Undoable
<1>8. install' = nextCalls
  BY <1>1 DEF Enters
<1> QED
  BY <1>2, <1>3, <1>5, <1>6, <1>7, <1>8, QuietStep DEF Sane

LEMMA StepPutNew ==
    ASSUME SkillInv, NEW i \in Installers, PutNew(i)
    PROVE  SkillInv'
<1>1. PICK c, s : c = install[i] /\ s = Head(install[i].planned)
  OBVIOUS
<1>2. c # Nothing /\ c.stage = "put" /\ UNCHANGED <<recorded, destroyed>>
  BY <1>1 DEF PutNew, At
<1>3. /\ c \in Installations /\ Sane(c) /\ c.planned \in Seq(SkillSpots)
      /\ c.retired \in Seq(LegacySpots) /\ c.aside \in Seq(SetAsides)
      /\ SkillTypes /\ found \in [Spots -> Contents] /\ destroyed = {} /\ recorded \in Contents
  BY <1>1, <1>2, CallIs DEF SkillInv, SkillTypes
<1>4. SetAsideOnce(c) /\ ToDo(c) /\ Undoable(c) /\ c.planned # <<>>
  BY <1>2, <1>3 DEF Sane, ToDo
<1>5. /\ 1 \in 1..Len(c.planned) /\ s = c.planned[1] /\ s \in SkillSpots
      /\ Tail(c.planned) \in Seq(SkillSpots) /\ Len(Tail(c.planned)) = Len(c.planned) - 1
      /\ \A k \in 1..Len(c.planned) - 1 :
            Tail(c.planned)[k] = c.planned[k + 1] /\ k + 1 \in 1..Len(c.planned)
      /\ Len(c.planned) \in Nat
  BY <1>1, <1>3, <1>4, HeadIs
<1>6. s \in Spots /\ s \in Moved(c)
  BY <1>2, <1>4, <1>5, SpotsAre DEF ToDo
<1>7. CASE found[s] = Nothing
  <2>1. PICK rest : rest = Tail(c.planned)
    OBVIOUS
  <2>2. PICK nextCalls, d : /\ nextCalls = GoesOn(i, "swap", rest, c.retired, c.aside)
                        /\ d = CallNow(c, "swap", rest, c.retired, c.aside)
    OBVIOUS
  <2>3. /\ found' = [found EXCEPT ![s] = c.release]
        /\ install' = Disturbing(i, s, nextCalls)
    BY <1>1, <1>2, <1>7, <2>1, <2>2 DEF PutNew
  <2>4. /\ d \in Installations /\ nextCalls \in [Installers -> Installations \cup {Nothing}]
        /\ nextCalls[i] = d /\ \A j \in Installers \ {i} : nextCalls[j] = install[j]
        /\ d.stage = "swap" /\ d.planned = rest /\ d.retired = c.retired
        /\ d.aside = c.aside /\ d.release = c.release /\ d.force = c.force
        /\ d.before = c.before /\ d.record = c.record /\ d.disturbed = c.disturbed
    <3>1. rest \in Seq(SkillSpots)
      BY <1>5, <2>1
    <3> QED
      BY <1>1, <1>2, <1>3, <2>2, <3>1, GoesOnIs
  <2>5. SetAsideOnce(d) /\ Moved(d) = Moved(c)
    BY <1>4, <2>4 DEF SetAsideOnce, Moved
  <2>6. ToDo(d)
    <3>1. ASSUME NEW k \in 1..Len(rest)
          PROVE  /\ k + 1 \in 1..Len(c.planned) /\ rest[k] = c.planned[k + 1] /\ k + 1 # 1
                 /\ k \in Nat
      BY <1>5, <2>1
    <3>2. ASSUME NEW j \in 1..Len(rest), NEW k \in 1..Len(rest), rest[j] = rest[k]
          PROVE  j = k
      <4>1. c.planned[j + 1] = c.planned[k + 1]
        BY <3>1, <3>2
      <4>2. j + 1 = k + 1
        BY <1>4, <3>1, <4>1 DEF ToDo, Injective
      <4> QED
        BY <3>1, <4>2
    <3>3. \A k \in 1..Len(rest) : /\ rest[k] \notin Moved(d)
                                  /\ ~c.force => c.before[rest[k]] # Edited
      BY <1>2, <1>4, <2>5, <3>1 DEF ToDo
    <3>4. \A k \in 1..Len(c.retired) : c.retired[k] \notin Moved(d)
      BY <1>2, <1>4, <2>5 DEF ToDo
    <3> QED
      BY <1>4, <2>4, <3>2, <3>3, <3>4 DEF ToDo, Injective
  <2>7. /\ found' \in [Spots -> Contents] /\ found'[s] = c.release
        /\ \A x \in Spots \ {s} : found'[x] = found[x]
    <3>1. c.release \in Contents
      BY <1>3 DEF Installations, Contents
    <3> QED
      BY <1>3, <1>6, <2>3, <3>1
  <2>8. Undoable(d)'
    <3>1. ASSUME NEW x \in Spots \ c.disturbed
          PROVE  IF x \in Moved(d) THEN found'[x] \in {Nothing, c.release}
                 ELSE found'[x] = c.before[x]
      <4>1. CASE x = s
        <5>1. found'[x] = c.release /\ x \in Moved(d)
          BY <1>6, <2>5, <2>7, <4>1
        <5> QED
          BY <5>1
      <4>2. CASE x # s
        BY <1>2, <1>4, <2>5, <2>7, <3>1, <4>2 DEF Undoable
      <4> QED
        BY <4>1, <4>2
    <3> QED
      BY <2>4, <3>1 DEF Undoable
  <2>9. Sane(d)'
    BY <2>5, <2>6, <2>8 DEF Sane
  <2> QED
    BY <1>2, <1>3, <1>6, <2>3, <2>4, <2>7, <2>9, StepOfOne
<1>8. CASE found[s] # Nothing
  <2>1. install' = Enters(i, "undo") /\ UNCHANGED found
    BY <1>1, <1>8 DEF PutNew
  <2> QED
    BY <1>1, <1>2, <2>1, GivesUp
<1> QED
  BY <1>7, <1>8

LEMMA StepRetireOld ==
    ASSUME SkillInv, NEW i \in Installers, RetireOld(i)
    PROVE  SkillInv'
<1>1. PICK c, s : c = install[i] /\ s = Head(install[i].retired)
  OBVIOUS
<1>2. /\ c # Nothing /\ c.stage = "swap" /\ c.retired # <<>> /\ c.planned = <<>>
      /\ UNCHANGED <<recorded, destroyed>>
  BY <1>1 DEF RetireOld, At
<1>3. /\ c \in Installations /\ Sane(c) /\ c.planned \in Seq(SkillSpots)
      /\ c.retired \in Seq(LegacySpots) /\ c.aside \in Seq(SetAsides)
      /\ SkillTypes /\ found \in [Spots -> Contents] /\ destroyed = {} /\ recorded \in Contents
  BY <1>1, <1>2, CallIs DEF SkillInv, SkillTypes
<1>4. SetAsideOnce(c) /\ ToDo(c) /\ Undoable(c)
  BY <1>3 DEF Sane
<1>5. /\ 1 \in 1..Len(c.retired) /\ s = c.retired[1] /\ s \in LegacySpots
      /\ Tail(c.retired) \in Seq(LegacySpots) /\ Len(Tail(c.retired)) = Len(c.retired) - 1
      /\ \A k \in 1..Len(c.retired) - 1 :
            Tail(c.retired)[k] = c.retired[k + 1] /\ k + 1 \in 1..Len(c.retired)
      /\ Len(c.retired) \in Nat
  BY <1>1, <1>2, <1>3, HeadIs
<1>6. /\ s \in Spots /\ s \notin Moved(c)
      /\ ~c.force => c.before[s] # Edited
      /\ s \notin c.disturbed => found[s] = c.before[s]
  BY <1>2, <1>4, <1>5, SpotsAre DEF ToDo, Undoable
<1>7. CASE found[s] # Nothing
  <2>1. PICK rest, a, more :
            rest = Tail(c.retired) /\ a = Aside(i, s, TRUE) /\ more = Append(c.aside, a)
    OBVIOUS
  <2>2. a \in SetAsides /\ a.spot = s /\ a.was = found[s]
    BY <1>3, <1>6, <2>1 DEF Aside, SetAsides
  <2>3. more \in Seq(SetAsides) /\ rest \in Seq(LegacySpots)
    <3>1. c.aside \in Seq(SetAsides) /\ a \in SetAsides /\ more = Append(c.aside, a)
      BY <1>3, <2>1, <2>2
    <3>2. more \in Seq(SetAsides)
      BY <3>1
    <3> QED
      BY <1>5, <2>1, <3>2
  <2>4. PICK nextCalls, d : /\ nextCalls = GoesOn(i, "swap", c.planned, rest, more)
                        /\ d = CallNow(c, "swap", c.planned, rest, more)
    OBVIOUS
  <2>5. found' = [found EXCEPT ![s] = Nothing] /\ install' = Disturbing(i, s, nextCalls)
    BY <1>1, <1>2, <1>7, <2>1, <2>4 DEF RetireOld
  <2>6. /\ d \in Installations /\ nextCalls \in [Installers -> Installations \cup {Nothing}]
        /\ nextCalls[i] = d /\ \A j \in Installers \ {i} : nextCalls[j] = install[j]
        /\ d.stage = "swap" /\ d.planned = c.planned /\ d.retired = rest
        /\ d.aside = more /\ d.release = c.release /\ d.force = c.force
        /\ d.before = c.before /\ d.record = c.record /\ d.disturbed = c.disturbed
    <3>1. c = install[i] /\ c # Nothing /\ SkillTypes /\ c.planned \in Seq(SkillSpots)
      BY <1>1, <1>2, <1>3
    <3> QED
      BY <2>3, <2>4, <3>1, GoesOnIs
  <2>7. SetAsideOnce(d) /\ Moved(d) = Moved(c) \cup {s}
    <3>1. d.aside = Append(c.aside, a) /\ (a.spot \notin c.disturbed => a.was = c.before[a.spot])
      BY <1>6, <2>1, <2>2, <2>6
    <3> QED
      BY <1>3, <1>4, <1>6, <2>2, <2>6, <3>1, OneMoreAside
  <2>8. ToDo(d)
    <3>1. ASSUME NEW k \in 1..Len(rest)
          PROVE  /\ k + 1 \in 1..Len(c.retired) /\ rest[k] = c.retired[k + 1] /\ k + 1 # 1
                 /\ k \in Nat
      BY <1>5, <2>1
    <3>2. ASSUME NEW j \in 1..Len(rest), NEW k \in 1..Len(rest), rest[j] = rest[k]
          PROVE  j = k
      <4>1. c.retired[j + 1] = c.retired[k + 1]
        BY <3>1, <3>2
      <4>2. j + 1 = k + 1
        BY <1>4, <3>1, <4>1 DEF ToDo, Injective
      <4> QED
        BY <3>1, <4>2
    <3>3. \A k \in 1..Len(rest) : /\ rest[k] \notin Moved(d)
                                  /\ ~c.force => c.before[rest[k]] # Edited
      BY <1>2, <1>4, <1>5, <2>7, <3>1 DEF ToDo, Injective
    <3>4. Len(c.planned) = 0
      BY <1>2
    <3> QED
      BY <1>4, <2>6, <3>2, <3>3, <3>4 DEF ToDo, Injective
  <2>9. /\ found' \in [Spots -> Contents] /\ found'[s] = Nothing
        /\ \A x \in Spots \ {s} : found'[x] = found[x]
    BY <1>3, <1>6, <2>5 DEF Contents
  <2>10. Undoable(d)'
    <3>1. ASSUME NEW x \in Spots \ c.disturbed
          PROVE  IF x \in Moved(d) THEN found'[x] \in {Nothing, c.release}
                 ELSE found'[x] = c.before[x]
      <4>1. CASE x = s
        <5>1. found'[x] = Nothing /\ x \in Moved(d)
          BY <2>7, <2>9, <4>1
        <5> QED
          BY <5>1
      <4>2. CASE x # s
        BY <1>2, <1>4, <2>7, <2>9, <3>1, <4>2 DEF Undoable
      <4> QED
        BY <4>1, <4>2
    <3> QED
      BY <2>6, <3>1 DEF Undoable
  <2>11. Sane(d)'
    BY <2>7, <2>8, <2>10 DEF Sane
  <2> QED
    BY <1>2, <1>3, <1>6, <2>5, <2>6, <2>9, <2>11, StepOfOne
<1>8. CASE found[s] = Nothing
  <2>1. install' = Enters(i, "undo") /\ UNCHANGED found
    BY <1>1, <1>2, <1>8 DEF RetireOld
  <2> QED
    BY <1>1, <1>2, <2>1, GivesUp
<1> QED
  BY <1>7, <1>8

LEMMA StepWriteRecord ==
    ASSUME SkillInv, NEW i \in Installers, WriteRecord(i)
    PROVE  SkillInv'
<1>1. PICK c : c = install[i]
  OBVIOUS
<1>2. PICK nextCalls, d : /\ nextCalls = GoesOn(i, "clean", c.planned, c.retired, c.aside)
                      /\ d = CallNow(c, "clean", c.planned, c.retired, c.aside)
  OBVIOUS
<1>3. /\ c # Nothing /\ c.stage = "swap" /\ recorded' = c.release
      /\ install' = Disturbing(i, TheRecord, nextCalls) /\ UNCHANGED <<found, destroyed>>
  BY <1>1, <1>2 DEF WriteRecord, At, Enters
<1>4. /\ c \in Installations /\ Sane(c) /\ c.planned \in Seq(SkillSpots)
      /\ c.retired \in Seq(LegacySpots) /\ c.aside \in Seq(SetAsides)
      /\ SkillTypes /\ found \in [Spots -> Contents] /\ destroyed = {}
  BY <1>1, <1>3, CallIs DEF SkillInv, SkillTypes
<1>5. /\ d \in Installations /\ nextCalls \in [Installers -> Installations \cup {Nothing}]
      /\ nextCalls[i] = d /\ \A j \in Installers \ {i} : nextCalls[j] = install[j]
      /\ d.stage = "clean" /\ d.planned = c.planned /\ d.retired = c.retired
      /\ d.aside = c.aside /\ d.release = c.release /\ d.force = c.force
      /\ d.before = c.before /\ d.record = c.record /\ d.disturbed = c.disturbed
  BY <1>1, <1>2, <1>3, <1>4, GoesOnIs
<1>6. SetAsideOnce(d) /\ ToDo(d)
  BY <1>4, <1>5 DEF Sane, SetAsideOnce, ToDo
<1>7. Undoable(d)'
  BY <1>5 DEF Undoable
<1>8. Sane(d)' /\ recorded' \in Contents
  BY <1>3, <1>4, <1>6, <1>7 DEF Sane, Installations, Contents
<1> QED
  BY <1>3, <1>4, <1>5, <1>8, StepOfOne

\* The call without the last, or the first, that it has set aside.
OneLess(c, d, h, g) ==
    /\ c \in Installations /\ d \in Installations /\ Len(c.aside) > 0
    /\ (h = 0 /\ g = Len(c.aside)) \/ (h = 1 /\ g = 1)
    /\ Len(d.aside) = Len(c.aside) - 1
    /\ \A k \in 1..Len(c.aside) - 1 : d.aside[k] = c.aside[k + h]
    /\ d.force = c.force /\ d.before = c.before /\ d.disturbed = c.disturbed

LEMMA OneLessAside ==
    ASSUME NEW c, NEW d, NEW h, NEW g, OneLess(c, d, h, g), SetAsideOnce(c)
    PROVE  /\ SetAsideOnce(d)
           /\ Moved(d) = Moved(c) \ {c.aside[g].spot}
<1>0. PICK n : n = Len(c.aside)
  OBVIOUS
<1> USE <1>0 DEF OneLess
<1>1. n \in Nat /\ n \in 1..n /\ 1 \in 1..n
  BY DEF Installations
<1>2. \A k \in 1..n - 1 : k \in Nat /\ k + h \in 1..n /\ k \in 1..n
  BY <1>1
<1>3. ASSUME NEW j \in 1..n - 1, NEW k \in 1..n - 1, d.aside[j].spot = d.aside[k].spot
      PROVE  j = k
  <2>1. c.aside[j + h].spot = c.aside[k + h].spot
    BY <1>3
  <2>2. j + h = k + h
    BY <1>2, <2>1 DEF SetAsideOnce
  <2> QED
    BY <1>2, <2>2
<1>4. ASSUME NEW k \in 1..n - 1
      PROVE  /\ d.aside[k].spot \notin d.disturbed =>
                    d.aside[k].was = d.before[d.aside[k].spot]
             /\ ~d.force => d.before[d.aside[k].spot] # Edited
  <2>1. PICK j : j = k + h
    OBVIOUS
  <2>2. j \in 1..n /\ d.aside[k] = c.aside[j]
    BY <1>2, <2>1
  <2> QED
    BY <2>2 DEF SetAsideOnce
<1>5. SetAsideOnce(d)
  BY <1>3, <1>4 DEF SetAsideOnce
<1>7. Moved(d) = {c.aside[k + h].spot : k \in 1..n - 1}
  BY DEF Moved
<1>8. \A k \in 1..n - 1 : k + h # g
  BY <1>1
<1>9. \A j \in 1..n : j = g \/ \E k \in 1..n - 1 : j = k + h
  <2>1. CASE h = 0
    BY <1>1, <2>1
  <2>2. CASE h = 1
    <3>1. ASSUME NEW j \in 1..n, j # 1
          PROVE  j - 1 \in 1..n - 1 /\ j = (j - 1) + h
      BY <1>1, <2>2, <3>1
    <3> QED
      BY <2>2, <3>1
  <2> QED
    BY <2>1, <2>2
<1>10. g \in 1..n
  BY <1>1
<1>11. \A j \in 1..n : c.aside[j].spot = c.aside[g].spot => j = g
  BY <1>10 DEF SetAsideOnce
<1>12. Moved(c) = {c.aside[j].spot : j \in 1..n}
  BY DEF Moved
<1>13. Moved(d) \subseteq Moved(c) \ {c.aside[g].spot}
  BY <1>2, <1>7, <1>8, <1>11, <1>12
<1>14. Moved(c) \ {c.aside[g].spot} \subseteq Moved(d)
  BY <1>7, <1>9, <1>12
<1> QED
  BY <1>5, <1>13, <1>14

\* The user's work that an unforced call has set aside, it has been told of.
LEMMA NobodyMourns ==
    ASSUME SkillInv, NEW i \in Installers, NEW c, c = install[i], c # Nothing,
           NEW k \in 1..Len(c.aside), NEW content,
           \/ content = c.aside[k].was
           \/ c.stage = "undo" /\ content = found[c.aside[k].spot]
    PROVE  Mourned(i, c.aside[k].spot, content) = {}
<1>1. /\ c \in Installations /\ SetAsideOnce(c) /\ Undoable(c) /\ destroyed = {}
      /\ Moved(c) \subseteq Spots /\ c.release # Edited
  BY CallIs, SpotsAre DEF SkillInv, Sane, Installations
<1>2. PICK s : s = c.aside[k].spot
  OBVIOUS
<1>3. s \in Moved(c) /\ s \in Spots
  BY <1>1, <1>2 DEF Moved
<1>4. ASSUME content = Edited, ~c.force, s \notin c.disturbed
      PROVE  FALSE
  <2>1. c.aside[k].was = c.before[s] /\ c.before[s] # Edited
    BY <1>1, <1>2, <1>4 DEF SetAsideOnce
  <2>2. c.stage = "undo" => found[s] \in {Nothing, c.release}
    BY <1>1, <1>3, <1>4 DEF Undoable
  <2> QED
    BY <1>1, <1>2, <1>4, <2>1, <2>2, SpotsAre
<1> QED
  BY <1>1, <1>2, <1>4 DEF Mourned

LEMMA StepClean ==
    ASSUME SkillInv, NEW i \in Installers, Clean(i)
    PROVE  SkillInv'
<1>1. PICK c : c = install[i]
  OBVIOUS
<1>2. c # Nothing /\ c.stage = "clean" /\ UNCHANGED <<found, recorded>>
  BY <1>1 DEF Clean, At
<1>3. /\ c \in Installations /\ Sane(c) /\ c.planned \in Seq(SkillSpots)
      /\ c.retired \in Seq(LegacySpots) /\ c.aside \in Seq(SetAsides)
      /\ SkillTypes /\ destroyed = {}
  BY <1>1, <1>2, CallIs DEF SkillInv
<1>4. CASE c.aside = <<>>
  <2>1. install' = [install EXCEPT ![i] = Nothing] /\ UNCHANGED destroyed
    BY <1>1, <1>4 DEF Clean
  <2>2. /\ install' \in [Installers -> Installations \cup {Nothing}]
        /\ install'[i] = Nothing /\ \A j \in Installers \ {i} : install'[j] = install[j]
    BY <1>3, <2>1 DEF SkillTypes
  <2> QED
    BY <1>2, <1>3, <2>1, <2>2, QuietStep
<1>5. CASE c.aside # <<>>
  <2>1. PICK a, rest, nextCalls, d :
            /\ a = Head(c.aside) /\ rest = Tail(c.aside)
            /\ nextCalls = GoesOn(i, c.stage, c.planned, c.retired, rest)
            /\ d = CallNow(c, c.stage, c.planned, c.retired, rest)
    OBVIOUS
  <2>2. destroyed' = Mourned(i, a.spot, a.was) /\ install' = nextCalls
    BY <1>1, <1>5, <2>1 DEF Clean, Keeps
  <2>3. /\ 1 \in 1..Len(c.aside) /\ a = c.aside[1] /\ rest \in Seq(SetAsides)
        /\ Len(rest) = Len(c.aside) - 1
        /\ \A k \in 1..Len(c.aside) - 1 : rest[k] = c.aside[k + 1]
    BY <1>3, <1>5, <2>1, HeadIs
  <2>4. /\ d \in Installations /\ nextCalls \in [Installers -> Installations \cup {Nothing}]
        /\ nextCalls[i] = d /\ \A j \in Installers \ {i} : nextCalls[j] = install[j]
        /\ d.stage = c.stage /\ d.planned = c.planned /\ d.retired = c.retired
        /\ d.aside = rest /\ d.release = c.release /\ d.force = c.force
        /\ d.before = c.before /\ d.record = c.record /\ d.disturbed = c.disturbed
    <3>1. c = install[i] /\ c # Nothing /\ c.stage \in {"swap", "put", "clean", "undo", "undone"}
      BY <1>1, <1>2
    <3>2. rest \in Seq(SetAsides) /\ nextCalls = GoesOn(i, c.stage, c.planned, c.retired, rest)
          /\ d = CallNow(c, c.stage, c.planned, c.retired, rest)
      BY <2>1, <2>3
    <3> QED
      BY <1>3, <3>1, <3>2, GoesOnIs
  <2>5. destroyed' = {}
    BY <1>1, <1>2, <2>2, <2>3, NobodyMourns
  <2>6. SetAsideOnce(d)
    <3>1. OneLess(c, d, 1, 1)
      BY <1>3, <2>3, <2>4 DEF OneLess
    <3> QED
      BY <1>3, <3>1, OneLessAside DEF Sane
  <2>7. ToDo(d) /\ Undoable(d)
    BY <1>2, <1>3, <2>4 DEF Sane, ToDo, Undoable
  <2> QED
    BY <1>2, <2>2, <2>4, <2>5, <2>6, <2>7, QuietStep DEF Sane
<1> QED
  BY <1>4, <1>5

LEMMA StepPutBack ==
    ASSUME SkillInv, NEW i \in Installers, PutBack(i)
    PROVE  SkillInv'
<1>1. PICK c, n, a, s :
          /\ c = install[i] /\ n = Len(c.aside) /\ a = Last(c.aside) /\ s = a.spot
  OBVIOUS
<1>2. c # Nothing /\ c.stage = "undo" /\ c.aside # <<>> /\ UNCHANGED recorded
  BY <1>1 DEF PutBack, At
<1>3. /\ c \in Installations /\ Sane(c) /\ c.planned \in Seq(SkillSpots)
      /\ c.retired \in Seq(LegacySpots) /\ c.aside \in Seq(SetAsides)
      /\ SkillTypes /\ destroyed = {} /\ found \in [Spots -> Contents]
      /\ recorded \in Contents /\ Moved(c) \subseteq Spots
  BY <1>1, <1>2, CallIs DEF SkillInv, SkillTypes
<1>4. /\ n \in Nat /\ n > 0 /\ n \in 1..n /\ a = c.aside[n] /\ a \in SetAsides
  BY <1>1, <1>2, <1>3 DEF Last
<1>5. s \in Moved(c) /\ s \in Spots /\ a.was \in Contents
  BY <1>1, <1>3, <1>4 DEF Moved, SetAsides
<1>6. CASE a.legacy /\ found[s] # Nothing
  <2>1. install' = [install EXCEPT ![i] = Nothing] /\ UNCHANGED <<found, destroyed>>
    BY <1>1, <1>6 DEF PutBack
  <2>2. /\ install' \in [Installers -> Installations \cup {Nothing}]
        /\ install'[i] = Nothing /\ \A j \in Installers \ {i} : install'[j] = install[j]
    BY <1>3, <2>1 DEF SkillTypes
  <2> QED
    BY <1>2, <1>3, <2>1, <2>2, QuietStep
<1>7. CASE ~ (a.legacy /\ found[s] # Nothing)
  <2>1. PICK rest, nextCalls, d :
            /\ rest = Front(c.aside)
            /\ nextCalls = GoesOn(i, c.stage, c.planned, c.retired, rest)
            /\ d = CallNow(c, c.stage, c.planned, c.retired, rest)
    OBVIOUS
  <2>2. /\ found' = [found EXCEPT ![s] = a.was]
        /\ install' = Disturbing(i, s, nextCalls)
        /\ destroyed' = Mourned(i, s, found[s])
    BY <1>1, <1>7, <2>1 DEF PutBack, Keeps
  <2>3. /\ rest \in Seq(SetAsides) /\ Len(rest) = n - 1
        /\ \A k \in 1..n - 1 : rest[k] = c.aside[k]
    <3>1. rest = SubSeq(c.aside, 1, n - 1)
      BY <1>1, <2>1 DEF Front
    <3> QED
      BY <1>1, <1>3, <1>4, <3>1
  <2>4. /\ d \in Installations /\ nextCalls \in [Installers -> Installations \cup {Nothing}]
        /\ nextCalls[i] = d /\ \A j \in Installers \ {i} : nextCalls[j] = install[j]
        /\ d.stage = c.stage /\ d.planned = c.planned /\ d.retired = c.retired
        /\ d.aside = rest /\ d.release = c.release /\ d.force = c.force
        /\ d.before = c.before /\ d.record = c.record /\ d.disturbed = c.disturbed
    <3>1. c = install[i] /\ c # Nothing /\ c.stage \in {"swap", "put", "clean", "undo", "undone"}
      BY <1>1, <1>2
    <3> QED
      BY <1>3, <2>1, <2>3, <3>1, GoesOnIs
  <2>5. destroyed' = {}
    BY <1>1, <1>2, <1>4, <2>2, NobodyMourns
  <2>6. SetAsideOnce(d) /\ Moved(d) = Moved(c) \ {s}
    <3>1. OneLess(c, d, 0, n)
      <4>1. \A k \in 1..n - 1 : d.aside[k] = c.aside[k + 0]
        BY <1>4, <2>3, <2>4
      <4> QED
        BY <1>1, <1>3, <1>4, <2>3, <2>4, <4>1 DEF OneLess
    <3> QED
      BY <1>1, <1>3, <1>4, <3>1, OneLessAside DEF Sane
  <2>7. ToDo(d)
    BY <1>2, <1>3, <2>4 DEF Sane, ToDo
  <2>8. /\ found' \in [Spots -> Contents] /\ found'[s] = a.was
        /\ \A x \in Spots \ {s} : found'[x] = found[x]
    BY <1>3, <1>5, <2>2
  <2>9. Undoable(d)'
    <3>1. ASSUME NEW x \in Spots \ c.disturbed
          PROVE  IF x \in Moved(d) THEN found'[x] \in {Nothing, c.release}
                 ELSE found'[x] = c.before[x]
      <4>1. CASE x = s
        <5>1. a.was = c.before[x]
          BY <1>1, <1>3, <1>4, <3>1, <4>1 DEF Sane, SetAsideOnce
        <5>2. found'[x] = a.was /\ x \notin Moved(d)
          BY <2>6, <2>8, <4>1
        <5> QED
          BY <5>1, <5>2
      <4>2. CASE x # s
        BY <1>2, <1>3, <2>6, <2>8, <3>1, <4>2 DEF Sane, Undoable
      <4> QED
        BY <4>1, <4>2
    <3> QED
      BY <1>2, <2>4, <3>1 DEF Undoable
  <2>10. Sane(d)'
    BY <2>6, <2>7, <2>9 DEF Sane
  <2> QED
    BY <1>2, <1>3, <1>5, <2>2, <2>4, <2>5, <2>8, <2>10, StepOfOne
<1> QED
  BY <1>6, <1>7

LEMMA StepPutBackRecord ==
    ASSUME SkillInv, NEW i \in Installers, PutBackRecord(i)
    PROVE  SkillInv'
<1>1. PICK c : c = install[i]
  OBVIOUS
<1>2. PICK nextCalls, d : /\ nextCalls = GoesOn(i, "undone", c.planned, c.retired, c.aside)
                      /\ d = CallNow(c, "undone", c.planned, c.retired, c.aside)
  OBVIOUS
<1>3. /\ c # Nothing /\ c.stage = "undo" /\ c.aside = <<>> /\ recorded' = c.record
      /\ install' = Disturbing(i, TheRecord, nextCalls) /\ UNCHANGED <<found, destroyed>>
  BY <1>1, <1>2 DEF PutBackRecord, At, Enters
<1>4. /\ c \in Installations /\ Sane(c) /\ c.planned \in Seq(SkillSpots)
      /\ c.retired \in Seq(LegacySpots) /\ c.aside \in Seq(SetAsides)
      /\ SkillTypes /\ found \in [Spots -> Contents] /\ destroyed = {}
  BY <1>1, <1>3, CallIs DEF SkillInv, SkillTypes
<1>5. /\ d \in Installations /\ nextCalls \in [Installers -> Installations \cup {Nothing}]
      /\ nextCalls[i] = d /\ \A j \in Installers \ {i} : nextCalls[j] = install[j]
      /\ d.stage = "undone" /\ d.planned = c.planned /\ d.retired = c.retired
      /\ d.aside = c.aside /\ d.release = c.release /\ d.force = c.force
      /\ d.before = c.before /\ d.record = c.record /\ d.disturbed = c.disturbed
  <2>1. c = install[i] /\ c # Nothing
    BY <1>1, <1>3
  <2> QED
    BY <1>2, <1>4, <2>1, GoesOnIs
<1>6. SetAsideOnce(d) /\ ToDo(d) /\ Moved(c) = {}
  BY <1>3, <1>4, <1>5 DEF Sane, SetAsideOnce, ToDo, Moved
<1>7. Undoable(d)'
  <2>1. \A x \in Spots \ c.disturbed : found[x] = c.before[x]
    BY <1>3, <1>4, <1>6 DEF Sane, Undoable
  <2> QED
    BY <1>3, <1>5, <2>1 DEF Undoable
<1>8. Sane(d)' /\ recorded' \in Contents
  BY <1>3, <1>4, <1>6, <1>7 DEF Sane, Installations
<1> QED
  BY <1>3, <1>4, <1>5, <1>8, StepOfOne

LEMMA StepFailInstall ==
    ASSUME SkillInv, NEW i \in Installers, FailInstall(i)
    PROVE  SkillInv'
<1>1. PICK c : c = install[i]
  OBVIOUS
<1>2. /\ c # Nothing /\ c.stage \in {"swap", "put"} /\ install' = Enters(i, "undo")
      /\ UNCHANGED <<found, recorded, destroyed>>
  BY <1>1 DEF FailInstall
<1> QED
  BY <1>1, <1>2, GivesUp

LEMMA StepEndInstall ==
    ASSUME SkillInv, NEW i \in Installers, EndInstall(i)
    PROVE  SkillInv'
<1>1. /\ install' = [install EXCEPT ![i] = Nothing]
      /\ UNCHANGED <<found, recorded, destroyed>>
  BY DEF EndInstall
<1>2. /\ install' \in [Installers -> Installations \cup {Nothing}]
      /\ install'[i] = Nothing /\ \A j \in Installers \ {i} : install'[j] = install[j]
      /\ destroyed = {}
  BY <1>1 DEF SkillInv, SkillTypes
<1> QED
  BY <1>1, <1>2, QuietStep

LEMMA StepEditSkill ==
    ASSUME SkillInv, EditSkill
    PROVE  SkillInv'
<1>1. PICK s \in Spots : \E content \in {Edited, Nothing} :
          /\ found' = [found EXCEPT ![s] = content]
          /\ install' = Disturbing(Nothing, s, install)
  BY DEF EditSkill
<1>2. PICK content \in {Edited, Nothing} :
          /\ found' = [found EXCEPT ![s] = content]
          /\ install' = Disturbing(Nothing, s, install)
  BY <1>1
<1>3. /\ UNCHANGED <<recorded, destroyed>> /\ destroyed = {} /\ recorded \in Contents
      /\ install \in [Installers -> Installations \cup {Nothing}]
      /\ found \in [Spots -> Contents] /\ Nothing \notin Installers
  BY SpotsAre DEF EditSkill, SkillInv, SkillTypes
<1>4. found' \in [Spots -> Contents] /\ \A x \in Spots \ {s} : found'[x] = found[x]
  BY <1>2, <1>3 DEF Contents
<1> QED
  BY <1>2, <1>3, <1>4, StepOfOne

---------------------------------------------------------------------------
(* SkillInstall: the theorem *)

LEMMA SkillStarts == SkillInit => SkillInv
<1> SUFFICES ASSUME SkillInit PROVE SkillInv
  OBVIOUS
<1>1. SkillTypes /\ destroyed = {}
  BY DEF SkillInit, SkillTypes, Contents
<1> QED
  BY <1>1 DEF SkillInit, SkillInv

LEMMA SkillSteps == SkillInv /\ [SkillNext]_skillVars => SkillInv'
<1> SUFFICES ASSUME SkillInv, [SkillNext]_skillVars PROVE SkillInv'
  OBVIOUS
<1>1. CASE UNCHANGED skillVars
  <2>1. UNCHANGED <<found, recorded, install, destroyed>>
    BY <1>1 DEF skillVars
  <2>2. ASSUME NEW i \in Installers, NEW c \in {install'[i]} \ {Nothing}
        PROVE  Sane(c)'
    <3>1. Sane(c)
      BY <2>1, <2>2 DEF SkillInv
    <3> QED
      BY <2>1, <3>1 DEF Sane, Undoable
  <2> QED
    BY <2>1, <2>2 DEF SkillInv, SkillTypes
<1>2. ASSUME NEW i \in Installers,
             \/ StartInstall(i) \/ SetAside(i) \/ PutNew(i) \/ RetireOld(i)
             \/ WriteRecord(i) \/ Clean(i)
             \/ FailInstall(i) \/ PutBack(i) \/ PutBackRecord(i) \/ EndInstall(i)
      PROVE  SkillInv'
  BY <1>2, StepStartInstall, StepSetAside, StepPutNew, StepRetireOld, StepWriteRecord,
     StepClean, StepFailInstall, StepPutBack, StepPutBackRecord, StepEndInstall
<1>3. CASE EditSkill
  BY <1>3, StepEditSkill
<1> QED
  BY <1>1, <1>2, <1>3 DEF SkillNext

\* An installation that fails puts back what it had set aside, whatever else
\* happened in the meantime, and without --force no call ever deletes what the
\* user had made of a directory before it began (skills.py, install).
THEOREM InstallSafe == SkillSpec => []InstallKeepsWork
<1>1. SkillInv => InstallKeepsWork
  <2>1. ASSUME SkillInv, NEW i \in Installers, At(i, "undone")
        PROVE  /\ \A s \in Spots \ install[i].disturbed : found[s] = install[i].before[s]
               /\ TheRecord \notin install[i].disturbed => recorded = install[i].record
    BY <2>1, CallIs DEF At, Sane, Undoable
  <2> QED
    BY <2>1 DEF SkillInv, InstallKeepsWork, FailureRestores, EditsKept
<1> QED
  BY <1>1, SkillStarts, SkillSteps, PTL DEF SkillSpec

---------------------------------------------------------------------------
(* RecordIndex                                                             *)

Steps == {"idle", "signed", "cold", "hot", "built", "ensured", "page"}
SearchCalls ==
    [tag : Nat, rested : SUBSET RecordIds, cold : SUBSET IndexRows, rows : SUBSET IndexRows,
     replaced : BOOLEAN, missed : SUBSET RecordIds, page : Seq(IndexRows)]
SearchTypes ==
    /\ records \in [RecordIds -> Versions \cup {Missing}] /\ signature \in Nat
    /\ index \in Indexes \cup {Missing}
    /\ step \in [Searchers -> Steps]
    /\ search \in [Searchers -> SearchCalls]
    /\ walk \in [Searchers -> Walks \cup {Missing}]

\* Every change has its Record, which is then modified at this time.
Dated ==
    \A r \in RecordIds : records[r] # Missing =>
        /\ records[r].modified <= signature
        /\ \A s \in RecordIds : records[s] # Missing /\ records[s].modified = records[r].modified => s = r

\* Rows of one index: a finite set, and each has a time of its own.
Apart(rows) == IsFiniteSet(rows) /\ \A a, b \in rows : a.modified = b.modified => a = b

\* What a call has read of the archive stays as it is.
ColdStays(p) ==
    \A row \in search[p].cold :
        /\ row.tier = "archive" /\ Present(row.id, {"both", "archive"})
        /\ row.modified = records[row.id].modified

\* Rows read under a signature have all that has rested since.
HasAll(rows, tag, tiers) ==
    /\ tag = signature => \A r \in RecordIds : Present(r, tiers) => Row(r, records[r].tier) \in rows
    /\ \A p \in Searchers : search[p].tag = tag =>
          \A r \in search[p].rested : Present(r, tiers) => Row(r, records[r].tier) \in rows

CallHolds(p) ==
    /\ search[p].tag <= signature
    /\ \A r \in search[p].rested : Present(r, {"hot", "archive"})
    /\ ColdStays(p)
    /\ Apart(search[p].rows)
    /\ step[p] = "hot" => HasAll(search[p].cold, search[p].tag, {"archive"})
    /\ step[p] = "built" => HasAll(search[p].rows, search[p].tag, {"hot", "archive"})
    /\ step[p] = "ensured" => index # Missing /\ (search[p].replaced \/ index.tag = search[p].tag)
    /\ step[p] = "page" /\ ~search[p].replaced => search[p].missed = {}

IndexHolds ==
    index # Missing =>
        /\ index.tag <= signature
        /\ Apart(index.rows)
        /\ HasAll(index.rows, index.tag, {"hot", "archive"})

PageOf(w) ==
    LET k == Len(w.given)  n == Len(w.all)  most == CandidateLimit(w.query)
    IN SubSeq(w.all, k + 1, IF n - k <= most THEN n ELSE k + most)
WalkHolds(p) ==
    /\ walk[p] = Missing => step[p] = "idle"
    /\ walk[p] # Missing =>
          LET w == walk[p]  k == Len(w.given) IN
          /\ k <= Len(w.all) /\ w.given = SubSeq(w.all, 1, k)
          /\ w.cursor = Missing <=> k = 0
          /\ w.cursor # Missing => w.cursor = w.given[k].modified
          /\ w.ended => step[p] = "idle" /\ k = Len(w.all) - (IF w.cut THEN 1 ELSE 0)
          /\ step[p] = "page" => search[p].page = PageOf(w)

SearchInv ==
    /\ SearchTypes /\ Dated /\ IndexHolds
    /\ \A p \in Searchers : CallHolds(p) /\ WalkHolds(p)


LEMMA MissingIs ==
    /\ Missing \notin Nat /\ Missing \notin Versions /\ Missing \notin Indexes /\ Missing \notin Walks
    /\ \A n \in Nat : n # Missing
BY MissingAssumption

LEMMA NoCallIs ==
    /\ NoCall \in SearchCalls /\ NoCall.tag = 0 /\ NoCall.rested = {} /\ NoCall.cold = {}
    /\ NoCall.rows = {} /\ NoCall.replaced = FALSE /\ NoCall.missed = {} /\ NoCall.page = <<>>
    /\ Apart({})
<1>1. IsFiniteSet({})
  BY FS_EmptySet
<1> QED
  BY <1>1 DEF NoCall, SearchCalls, Apart

\* A Record that is there has a version, and a row of it is a row.
LEMMA PresentIs ==
    ASSUME SearchTypes, NEW r \in RecordIds, NEW tiers, Present(r, tiers)
    PROVE  /\ records[r] # Missing /\ records[r] \in Versions /\ records[r].tier \in tiers
           /\ \A t \in {"hot", "archive"} : Row(r, t) \in IndexRows
<1>1. records[r] # Missing /\ records[r] \in Versions /\ records[r].tier \in tiers
  BY DEF SearchTypes, Present
<1> QED
  BY <1>1 DEF Row, IndexRows, Versions

---------------------------------------------------------------------------
(* RecordIndex: Records change under the index *)

\* What a change of a Record may be.
Rests(r, version) ==
    \/ /\ ~Present(r, {"both", "archive"})
       /\ version.modified = signature + 1
    \/ /\ records[r] # Missing /\ version.modified = records[r].modified
       /\ Present(r, {"both", "archive"}) => version.tier \in {"both", "archive"}

LEMMA HasAllStays ==
    ASSUME SearchTypes, NEW r \in RecordIds, NEW version \in Versions, Changed(r, version),
           NEW rows, NEW tag \in Nat, tag <= signature, NEW tiers, HasAll(rows, tag, tiers)
    PROVE  HasAll(rows, tag, tiers)'
<1>1. tag # signature'
  BY DEF Changed, SearchTypes
<1>2. ASSUME NEW p \in Searchers, search'[p].tag = tag, NEW s \in search'[p].rested, Present(s, tiers)'
      PROVE  Row(s, records[s].tier)' \in rows
  <2>1. search'[p] = [search[p] EXCEPT !.rested = @ \ {r}] /\ search[p] \in SearchCalls
    BY DEF Changed, SearchTypes
  <2>2. search'[p].tag = search[p].tag /\ search'[p].rested = search[p].rested \ {r}
    BY <2>1 DEF SearchCalls
  <2>3. s \in search[p].rested /\ s # r /\ s \in RecordIds
    BY <1>2, <2>1, <2>2 DEF SearchCalls
  <2>4. records'[s] = records[s]
    BY <2>3 DEF Changed, SearchTypes
  <2>5. Present(s, tiers)
    BY <1>2, <2>4 DEF Present
  <2> QED
    BY <1>2, <2>2, <2>3, <2>4, <2>5 DEF HasAll, Row
<1> QED
  BY <1>1, <1>2 DEF HasAll

LEMMA ChangedKeeps ==
    ASSUME SearchInv, NEW r \in RecordIds, NEW version \in Versions, Changed(r, version),
           Rests(r, version)
    PROVE  SearchInv'
<1>1. /\ records' = [records EXCEPT ![r] = version] /\ signature' = signature + 1
      /\ UNCHANGED <<index, step, walk>> /\ SearchTypes /\ signature \in Nat
      /\ search' = [p \in Searchers |-> [search[p] EXCEPT !.rested = @ \ {r}]]
  BY DEF Changed, SearchInv, SearchTypes
<1>2. /\ records'[r] = version /\ version # Missing
      /\ \A s \in RecordIds \ {r} : records'[s] = records[s]
      /\ \A s \in RecordIds : records[s] # Missing => records[s] \in Versions
  BY <1>1, MissingIs DEF SearchTypes
<1>3. ASSUME NEW p \in Searchers
      PROVE  /\ search'[p] \in SearchCalls /\ search'[p].tag = search[p].tag
             /\ search'[p].rested = search[p].rested \ {r} /\ search'[p].cold = search[p].cold
             /\ search'[p].rows = search[p].rows /\ search'[p].replaced = search[p].replaced
             /\ search'[p].missed = search[p].missed /\ search'[p].page = search[p].page
  <2>1. search'[p] = [search[p] EXCEPT !.rested = @ \ {r}] /\ search[p] \in SearchCalls
    BY <1>1 DEF SearchTypes
  <2> QED
    BY <2>1 DEF SearchCalls
<1>4. SearchTypes'
  <2>1. records' \in [RecordIds -> Versions \cup {Missing}]
    BY <1>1 DEF SearchTypes
  <2>2. search' \in [Searchers -> SearchCalls]
    BY <1>1, <1>3
  <2> QED
    BY <1>1, <2>1, <2>2 DEF SearchTypes
<1>5. Dated'
  <2>1. \A s \in RecordIds : records[s] # Missing => records[s].modified \in Nat
    BY <1>2 DEF Versions
  <2>2. Dated
    BY DEF SearchInv
  <2>3. CASE version.modified = signature + 1
    BY <1>1, <1>2, <2>1, <2>2, <2>3 DEF Dated
  <2>4. CASE records[r] # Missing /\ version.modified = records[r].modified
    BY <1>1, <1>2, <2>1, <2>2, <2>4 DEF Dated
  <2> QED
    BY <2>3, <2>4 DEF Rests
<1>6. IndexHolds'
  <2> SUFFICES ASSUME index # Missing PROVE IndexHolds'
    BY <1>1 DEF IndexHolds
  <2>1. index \in Indexes /\ index.tag \in Nat
    BY <1>1 DEF SearchTypes, Indexes
  <2>2. PICK i : i = index
    OBVIOUS
  <2>3. i.tag \in Nat /\ i.tag <= signature /\ HasAll(i.rows, i.tag, {"hot", "archive"}) /\ Apart(i.rows)
    BY <2>1, <2>2 DEF SearchInv, IndexHolds
  <2>4. HasAll(i.rows, i.tag, {"hot", "archive"})'
    BY <1>1, <2>3, HasAllStays
  <2>5. index' = i
    BY <1>1, <2>2
  <2> QED
    BY <1>1, <2>3, <2>4, <2>5 DEF IndexHolds
<1>7. ASSUME NEW p \in Searchers PROVE CallHolds(p)'
  <2>1. PICK o : o = search[p] /\ o \in SearchCalls
    BY <1>1 DEF SearchTypes
  <2>2. CallHolds(p) /\ o.tag \in Nat /\ o.tag <= signature
    BY <2>1 DEF SearchInv, CallHolds, SearchCalls
  <2>3. \A s \in search'[p].rested : Present(s, {"hot", "archive"})'
    <3> SUFFICES ASSUME NEW s \in search'[p].rested PROVE Present(s, {"hot", "archive"})'
      OBVIOUS
    <3>1. s \in search[p].rested /\ s # r /\ s \in RecordIds
      BY <1>3, <2>1 DEF SearchCalls
    <3>2. records'[s] = records[s] /\ Present(s, {"hot", "archive"})
      BY <1>2, <2>2, <3>1 DEF CallHolds
    <3> QED
      BY <3>2 DEF Present
  <2>4. ColdStays(p)'
    <3> SUFFICES ASSUME NEW row \in search[p].cold
                 PROVE  /\ row.tier = "archive" /\ Present(row.id, {"both", "archive"})'
                        /\ row.modified = records'[row.id].modified
      BY <1>3 DEF ColdStays
    <3>1. /\ row.tier = "archive" /\ Present(row.id, {"both", "archive"})
          /\ row.modified = records[row.id].modified /\ row.id \in RecordIds
      BY <2>1, <2>2 DEF CallHolds, ColdStays, SearchCalls, IndexRows
    <3>2. CASE row.id # r
      BY <1>2, <3>1, <3>2 DEF Present
    <3>3. CASE row.id = r
      <4>1. version.modified = records[r].modified /\ version.tier \in {"both", "archive"}
        BY <3>1, <3>3 DEF Rests
      <4> QED
        BY <1>2, <3>1, <3>3, <4>1 DEF Present
    <3> QED
      BY <3>2, <3>3
  <2>5. step[p] = "hot" => HasAll(o.cold, o.tag, {"archive"})'
    <3>1. step[p] = "hot" => HasAll(o.cold, o.tag, {"archive"})
      BY <2>1, <2>2 DEF CallHolds
    <3> QED
      BY <1>1, <2>2, <3>1, HasAllStays
  <2>6. step[p] = "built" => HasAll(o.rows, o.tag, {"hot", "archive"})'
    <3>1. step[p] = "built" => HasAll(o.rows, o.tag, {"hot", "archive"})
      BY <2>1, <2>2 DEF CallHolds
    <3> QED
      BY <1>1, <2>2, <3>1, HasAllStays
  <2>7. search'[p].tag = o.tag /\ search'[p].cold = o.cold /\ search'[p].rows = o.rows
    BY <1>3, <2>1
  <2>8. search'[p].tag <= signature'
    BY <1>1, <2>2, <2>7
  <2> QED
    BY <1>1, <1>3, <2>1, <2>2, <2>3, <2>4, <2>5, <2>6, <2>7, <2>8 DEF CallHolds
<1>8. ASSUME NEW p \in Searchers PROVE WalkHolds(p)'
  BY <1>1, <1>3 DEF SearchInv, WalkHolds, PageOf
<1> QED
  BY <1>4, <1>5, <1>6, <1>7, <1>8 DEF SearchInv

LEMMA RecordsKeep ==
    ASSUME SearchInv, Modify \/ Publish \/ RemoveHot
    PROVE  SearchInv'
<1>0. SearchTypes /\ signature \in Nat
  BY DEF SearchInv, SearchTypes
<1>1. CASE Modify
  <2>1. PICK r \in RecordIds :
           /\ ~Present(r, {"both", "archive"})
           /\ Changed(r, [modified |-> signature + 1, tier |-> "hot"])
    BY <1>1 DEF Modify
  <2>2. PICK version : version = [modified |-> signature + 1, tier |-> "hot"]
    OBVIOUS
  <2>3. version \in Versions /\ version.modified = signature + 1
    BY <1>0, <2>2 DEF Versions, Tiers
  <2> QED
    BY <2>1, <2>2, <2>3, ChangedKeeps DEF Rests
<1>2. CASE Publish
  <2>1. PICK r \in RecordIds :
           Present(r, {"hot"}) /\ Changed(r, [records[r] EXCEPT !.tier = "both"])
    BY <1>2 DEF Publish
  <2>2. PICK version : version = [records[r] EXCEPT !.tier = "both"]
    OBVIOUS
  <2>3. records[r] # Missing /\ records[r] \in Versions
    BY <1>0, <2>1, PresentIs
  <2>4. version \in Versions /\ version.modified = records[r].modified /\ version.tier = "both"
    BY <2>2, <2>3 DEF Versions, Tiers
  <2> QED
    BY <2>1, <2>2, <2>3, <2>4, ChangedKeeps DEF Rests
<1>3. CASE RemoveHot
  <2>1. PICK r \in RecordIds :
           Present(r, {"both"}) /\ Changed(r, [records[r] EXCEPT !.tier = "archive"])
    BY <1>3 DEF RemoveHot
  <2>2. PICK version : version = [records[r] EXCEPT !.tier = "archive"]
    OBVIOUS
  <2>3. records[r] # Missing /\ records[r] \in Versions
    BY <1>0, <2>1, PresentIs
  <2>4. version \in Versions /\ version.modified = records[r].modified /\ version.tier = "archive"
    BY <2>2, <2>3 DEF Versions, Tiers
  <2> QED
    BY <2>1, <2>2, <2>3, <2>4, ChangedKeeps DEF Rests
<1> QED
  BY <1>1, <1>2, <1>3

---------------------------------------------------------------------------
(* RecordIndex: a searcher's own step *)

LEMMA HasAllOwn ==
    ASSUME NEW p \in Searchers, UNCHANGED <<records, signature>>,
           \A q \in Searchers \ {p} : search'[q].tag = search[q].tag /\ search'[q].rested = search[q].rested,
           \/ search'[p].tag = search[p].tag /\ search'[p].rested \subseteq search[p].rested
           \/ search'[p].tag = signature /\ search'[p].rested \subseteq RecordIds
           \/ search'[p].rested = {},
           NEW rows, NEW tag, NEW tiers, HasAll(rows, tag, tiers)
    PROVE  HasAll(rows, tag, tiers)'
<1>1. \A r : Present(r, tiers)' <=> Present(r, tiers)
  BY DEF Present
<1>2. \A r : Row(r, records[r].tier)' = Row(r, records[r].tier)
  BY DEF Row
<1>3. tag = signature' =>
         \A r \in RecordIds : Present(r, tiers)' => Row(r, records[r].tier)' \in rows
  BY <1>1, <1>2 DEF HasAll
<1>4. ASSUME NEW q \in Searchers, search'[q].tag = tag, NEW r \in search'[q].rested, Present(r, tiers)'
      PROVE  Row(r, records[r].tier)' \in rows
  <2>1. CASE search'[q].tag = search[q].tag /\ search'[q].rested \subseteq search[q].rested
    BY <1>1, <1>2, <1>4, <2>1 DEF HasAll
  <2>2. CASE search'[q].tag = signature /\ search'[q].rested \subseteq RecordIds
    BY <1>1, <1>2, <1>4, <2>2 DEF HasAll
  <2>3. CASE search'[q].rested = {}
    BY <1>4, <2>3
  <2> QED
    BY <2>1, <2>2, <2>3
<1> QED
  BY <1>3, <1>4 DEF HasAll

\* p's step, to s, with the call c and the walk w.
Own(p, s, c, w) ==
    /\ UNCHANGED <<records, signature>>
    /\ step' = [step EXCEPT ![p] = s] /\ walk' = [walk EXCEPT ![p] = w]
    /\ s \in Steps /\ c \in SearchCalls /\ w \in Walks \cup {Missing}
    /\ \/ c.tag = search[p].tag /\ c.rested \subseteq search[p].rested
       \/ c.tag = signature /\ c.rested \subseteq RecordIds
       \/ c.rested = {}

\* What it leaves alone, with the index as it is.
LEMMA OwnStep ==
    ASSUME SearchInv, NEW p \in Searchers, NEW s, NEW c, NEW w, Own(p, s, c, w),
           search' = [search EXCEPT ![p] = c], UNCHANGED index,
           CallHolds(p)', WalkHolds(p)'
    PROVE  SearchInv'
<1>1. /\ UNCHANGED <<records, signature, index>> /\ SearchTypes
      /\ step' = [step EXCEPT ![p] = s] /\ walk' = [walk EXCEPT ![p] = w]
      /\ s \in Steps /\ c \in SearchCalls /\ w \in Walks \cup {Missing}
  BY DEF Own, SearchInv
<1>2. /\ search'[p] = c
      /\ \A q \in Searchers \ {p} : search'[q] = search[q] /\ step'[q] = step[q] /\ walk'[q] = walk[q]
  BY <1>1 DEF SearchTypes
<1>3. SearchTypes'
  BY <1>1 DEF SearchTypes
<1>4. Dated'
  BY <1>1 DEF SearchInv, Dated
<1>5. ASSUME NEW rows, NEW tag, NEW tiers, HasAll(rows, tag, tiers)
      PROVE  HasAll(rows, tag, tiers)'
  BY <1>1, <1>2, <1>5, HasAllOwn DEF Own
<1>6. IndexHolds'
  <2> SUFFICES ASSUME index # Missing PROVE IndexHolds'
    BY <1>1 DEF IndexHolds
  <2>1. PICK i : i = index
    OBVIOUS
  <2>2. i.tag <= signature /\ HasAll(i.rows, i.tag, {"hot", "archive"}) /\ Apart(i.rows)
    BY <2>1 DEF SearchInv, IndexHolds
  <2>3. HasAll(i.rows, i.tag, {"hot", "archive"})'
    BY <1>5, <2>2
  <2> QED
    BY <1>1, <2>1, <2>2, <2>3 DEF IndexHolds
<1>7. ASSUME NEW q \in Searchers \ {p} PROVE CallHolds(q)'
  <2>1. PICK o : o = search[q] /\ search'[q] = o
    BY <1>2
  <2>2. CallHolds(q)
    BY DEF SearchInv
  <2>3. step[q] = "hot" => HasAll(o.cold, o.tag, {"archive"})'
    BY <1>5, <2>1, <2>2 DEF CallHolds
  <2>4. step[q] = "built" => HasAll(o.rows, o.tag, {"hot", "archive"})'
    BY <1>5, <2>1, <2>2 DEF CallHolds
  <2>5. ColdStays(q)'
    BY <1>1, <2>1, <2>2 DEF CallHolds, ColdStays, Present
  <2>6. \A r \in o.rested : Present(r, {"hot", "archive"})'
    BY <1>1, <2>1, <2>2 DEF CallHolds, Present
  <2> QED
    BY <1>1, <1>2, <2>1, <2>2, <2>3, <2>4, <2>5, <2>6 DEF CallHolds
<1>8. ASSUME NEW q \in Searchers \ {p} PROVE WalkHolds(q)'
  <2>1. WalkHolds(q)
    BY DEF SearchInv
  <2>2. search'[q] = search[q] /\ step'[q] = step[q] /\ walk'[q] = walk[q]
    BY <1>2
  <2> QED
    BY <2>1, <2>2 DEF WalkHolds
<1> QED
  BY <1>3, <1>4, <1>6, <1>7, <1>8 DEF SearchInv

\* A call that raises, and a walk that is left.
LEMMA RaiseKeeps ==
    ASSUME SearchInv, NEW p \in Searchers, Raise(p), UNCHANGED <<records, signature, index>>
    PROVE  SearchInv'
<1>1. /\ step' = [step EXCEPT ![p] = "idle"] /\ walk' = [walk EXCEPT ![p] = Missing]
      /\ search' = [search EXCEPT ![p] = NoCall] /\ SearchTypes
  BY DEF Raise, Go, SearchInv
<1>2. step'[p] = "idle" /\ walk'[p] = Missing /\ search'[p] = NoCall
  BY <1>1 DEF SearchTypes
<1>3. Own(p, "idle", NoCall, Missing)
  BY <1>1, NoCallIs DEF Own, Steps
<1>4. CallHolds(p)'
  <2>1. 0 <= signature
    BY <1>1 DEF SearchTypes
  <2> QED
    BY <1>2, <2>1, NoCallIs DEF CallHolds, ColdStays
<1>5. WalkHolds(p)'
  BY <1>2 DEF WalkHolds
<1> QED
  BY <1>1, <1>3, <1>4, <1>5, OwnStep

LEMMA StartSearchKeeps ==
    ASSUME SearchInv, NEW p \in Searchers, StartSearch(p)
    PROVE  SearchInv'
<1>1. /\ step[p] = "idle" /\ step' = [step EXCEPT ![p] = "signed"] /\ SearchTypes
      /\ UNCHANGED <<records, signature, index>> /\ WalkHolds(p)
  BY DEF StartSearch, Go, SearchInv
<1>2. PICK c : c = [NoCall EXCEPT !.tag = signature,
                                  !.rested = {r \in RecordIds : Present(r, {"hot", "archive"})}]
  OBVIOUS
<1>3. search' = [search EXCEPT ![p] = c]
  BY <1>2 DEF StartSearch
<1>4. /\ c \in SearchCalls /\ c.tag = signature /\ c.rested = {r \in RecordIds : Present(r, {"hot", "archive"})}
      /\ c.cold = {} /\ c.rows = {}
  <2>1. signature \in Nat
    BY <1>1 DEF SearchTypes
  <2> QED
    BY <1>2, <2>1, NoCallIs DEF SearchCalls
<1>5. PICK w \in Walks : /\ walk' = [walk EXCEPT ![p] = w]
                         /\ walk[p] = Missing =>
                              w.given = <<>> /\ w.all = <<>> /\ w.cursor = Missing /\ w.ended = FALSE
                         /\ walk[p] # Missing => w = walk[p] /\ ~w.ended
  <2>1. CASE walk[p] = Missing
    <3>1. PICK q \in Queries :
             walk' = [walk EXCEPT ![p] = [query |-> q, cursor |-> Missing, given |-> <<>>, all |-> <<>>,
                                          cut |-> FALSE, ended |-> FALSE]]
      BY <2>1 DEF StartSearch
    <3>2. PICK w : w = [query |-> q, cursor |-> Missing, given |-> <<>>, all |-> <<>>,
                        cut |-> FALSE, ended |-> FALSE]
      OBVIOUS
    <3>3. w \in Walks /\ w.given = <<>> /\ w.all = <<>> /\ w.cursor = Missing /\ w.ended = FALSE
      BY <3>2 DEF Walks
    <3> QED
      BY <2>1, <3>1, <3>2, <3>3
  <2>2. CASE walk[p] # Missing
    <3>1. ~walk[p].ended /\ walk' = walk /\ walk[p] \in Walks
      BY <1>1, <2>2 DEF StartSearch, SearchTypes
    <3>2. walk' = [walk EXCEPT ![p] = walk[p]]
      BY <1>1, <3>1 DEF SearchTypes
    <3> QED
      BY <2>2, <3>1, <3>2
  <2> QED
    BY <2>1, <2>2
<1>6. step'[p] = "signed" /\ search'[p] = c /\ walk'[p] = w /\ w # Missing
  BY <1>1, <1>3, <1>5, MissingIs DEF SearchTypes
<1>7. Own(p, "signed", c, w)
  BY <1>1, <1>4, <1>5 DEF Own, Steps
<1>8. CallHolds(p)'
  <2>1. signature <= signature
    BY <1>1 DEF SearchTypes
  <2> QED
    BY <1>1, <1>4, <1>6, <2>1, NoCallIs DEF CallHolds, ColdStays, Present
<1>9. WalkHolds(p)'
  <2>1. CASE walk[p] = Missing
    <3>1. w.given = <<>> /\ w.all = <<>> /\ w.cursor = Missing /\ w.ended = FALSE
      BY <1>5, <2>1
    <3>2. Len(w.given) = 0 /\ Len(w.all) = 0 /\ SubSeq(<<>>, 1, 0) = <<>>
      BY <3>1
    <3> QED
      BY <1>6, <3>1, <3>2 DEF WalkHolds
  <2>2. CASE walk[p] # Missing
    BY <1>1, <1>5, <1>6, <2>2 DEF WalkHolds
  <2> QED
    BY <2>1, <2>2
<1> QED
  BY <1>1, <1>3, <1>7, <1>8, <1>9, OwnStep


LEMMA EnsureKeeps ==
    ASSUME SearchInv, NEW p \in Searchers, Ensure(p)
    PROVE  SearchInv'
<1>1. /\ step[p] = "signed" /\ SearchTypes /\ CallHolds(p) /\ WalkHolds(p)
      /\ UNCHANGED <<records, signature, index, search, walk>>
  BY DEF Ensure, SearchInv
<1>2. PICK s \in {"ensured", "cold"} :
         /\ step' = [step EXCEPT ![p] = s]
         /\ s = "ensured" => index # Missing /\ index.tag = search[p].tag
  BY DEF Ensure, Go
<1>3. step'[p] = s
  BY <1>1, <1>2 DEF SearchTypes
<1>4. search' = [search EXCEPT ![p] = search[p]] /\ walk' = [walk EXCEPT ![p] = walk[p]]
  BY <1>1 DEF SearchTypes
<1>5. Own(p, s, search[p], walk[p])
  BY <1>1, <1>2, <1>4 DEF Own, Steps, SearchTypes
<1>6. CallHolds(p)'
  BY <1>1, <1>2, <1>3 DEF CallHolds, ColdStays, Present
<1>7. WalkHolds(p)'
  BY <1>1, <1>2, <1>3 DEF WalkHolds
<1>8. PICK c, w : c = search[p] /\ w = walk[p]
  OBVIOUS
<1> QED
  BY <1>1, <1>4, <1>5, <1>6, <1>7, <1>8, OwnStep

LEMMA ReadColdKeeps ==
    ASSUME SearchInv, NEW p \in Searchers, ReadCold(p)
    PROVE  SearchInv'
<1>1. /\ step[p] = "cold" /\ step' = [step EXCEPT ![p] = "hot"] /\ SearchTypes
      /\ CallHolds(p) /\ WalkHolds(p) /\ UNCHANGED <<records, signature, index, walk>>
  BY DEF ReadCold, Go, SearchInv
<1>2. PICK o, cold : /\ o = search[p]
                     /\ cold = {Row(r, "archive") : r \in {x \in RecordIds : Present(x, {"both", "archive"})}}
  OBVIOUS
<1>3. PICK c : c = [o EXCEPT !.cold = cold] /\ search' = [search EXCEPT ![p] = c]
  BY <1>1, <1>2 DEF ReadCold, SearchTypes
<1>4. cold \subseteq IndexRows
  BY <1>1, <1>2, PresentIs
<1>5. /\ o \in SearchCalls /\ c \in SearchCalls /\ c.tag = o.tag /\ c.rested = o.rested /\ c.cold = cold
      /\ c.rows = o.rows /\ c.replaced = o.replaced /\ c.missed = o.missed /\ c.page = o.page
  <2>1. o \in SearchCalls
    BY <1>1, <1>2 DEF SearchTypes
  <2> QED
    BY <1>3, <1>4, <2>1 DEF SearchCalls
<1>6. walk' = [walk EXCEPT ![p] = walk[p]] /\ step'[p] = "hot" /\ search'[p] = c
  BY <1>1, <1>3 DEF SearchTypes
<1>7. Own(p, "hot", c, walk[p])
  BY <1>1, <1>2, <1>5, <1>6 DEF Own, Steps, SearchTypes
<1>8. ColdStays(p)'
  BY <1>1, <1>2, <1>5, <1>6 DEF ColdStays, Present, Row
<1>9. HasAll(cold, c.tag, {"archive"})'
  <2>1. \A r \in RecordIds : Present(r, {"archive"}) => Row(r, records[r].tier) \in cold
    <3> SUFFICES ASSUME NEW r \in RecordIds, Present(r, {"archive"})
                 PROVE  Row(r, records[r].tier) \in cold
      OBVIOUS
    <3>1. records[r].tier = "archive" /\ Present(r, {"both", "archive"})
      BY DEF Present
    <3> QED
      BY <1>2, <3>1
  <2>2. \A q \in Searchers : search'[q] \in SearchCalls
    BY <1>1, <1>3, <1>5 DEF SearchTypes
  <2>3. \A q \in Searchers : search'[q].rested \subseteq RecordIds
    BY <2>2 DEF SearchCalls
  <2> QED
    BY <1>1, <2>1, <2>3 DEF HasAll, Present, Row
<1>10. CallHolds(p)'
  BY <1>1, <1>2, <1>5, <1>6, <1>8, <1>9 DEF CallHolds, Present
<1>11. WalkHolds(p)'
  BY <1>1, <1>6 DEF WalkHolds
<1>12. PICK w : w = walk[p]
  OBVIOUS
<1> QED
  BY <1>1, <1>3, <1>6, <1>7, <1>10, <1>11, <1>12, OwnStep

\* The rows read are apart: those of the archive are still true of it, and no Record
\* is among them twice.
LEMMA RowsRead ==
    ASSUME SearchInv, NEW p \in Searchers, NEW cold, cold = search[p].cold, NEW hot, NEW rows,
           hot \subseteq {r \in RecordIds : Present(r, {"hot", "both"})},
           \A row \in cold : row.id \notin hot,
           rows = cold \cup {Row(r, "hot") : r \in hot}
    PROVE  rows \subseteq IndexRows /\ Apart(rows)
<1>1. SearchTypes /\ ColdStays(p) /\ Dated
  BY DEF SearchInv, CallHolds
<1>2. ASSUME NEW row \in rows
      PROVE  /\ row \in IndexRows /\ row.id \in RecordIds /\ records[row.id] # Missing
             /\ row.modified = records[row.id].modified
             /\ row = Row(row.id, IF row.id \in hot THEN "hot" ELSE "archive")
  <2>1. CASE row \in cold
    <3>1. row \in IndexRows
      BY <1>1, <2>1 DEF SearchTypes, SearchCalls
    <3>2. /\ row.tier = "archive" /\ Present(row.id, {"both", "archive"})
          /\ row.modified = records[row.id].modified /\ row.id \in RecordIds
      BY <1>1, <2>1, <3>1 DEF ColdStays, IndexRows
    <3>3. row = [id |-> row.id, modified |-> row.modified, tier |-> row.tier]
      BY <3>1 DEF IndexRows
    <3> QED
      BY <2>1, <3>1, <3>2, <3>3 DEF Present, Row
  <2>2. CASE row \notin cold
    <3>1. PICK r \in hot : row = Row(r, "hot")
      BY <2>2
    <3>2. r \in RecordIds /\ records[r] # Missing /\ row \in IndexRows
      BY <1>1, <3>1, PresentIs
    <3>3. row.id = r /\ row.modified = records[r].modified
      BY <3>1 DEF Row
    <3> QED
      BY <3>1, <3>2, <3>3
  <2> QED
    BY <2>1, <2>2
<1>3. \A a, b \in rows : a.modified = b.modified => a = b
  <2> SUFFICES ASSUME NEW a \in rows, NEW b \in rows, a.modified = b.modified PROVE a = b
    OBVIOUS
  <2>1. a.id = b.id
    BY <1>1, <1>2 DEF Dated
  <2> QED
    BY <1>2, <2>1
<1>4. IsFiniteSet(rows)
  <2> DEFINE f == [row \in rows |-> row.id]
  <2>1. f \in Injection(rows, RecordIds)
    BY <1>2 DEF Injection, IsInjective
  <2> QED
    BY <2>1, FS_Injection, RecordIndexAssumption
<1> QED
  BY <1>2, <1>3, <1>4 DEF Apart

LEMMA ReadHotKeeps ==
    ASSUME SearchInv, NEW p \in Searchers, ReadHot(p)
    PROVE  SearchInv'
<1>1. /\ step[p] = "hot" /\ SearchTypes /\ CallHolds(p) /\ WalkHolds(p)
      /\ UNCHANGED <<records, signature, index>>
  BY DEF ReadHot, SearchInv
<1>2. PICK o, ids, hot : /\ o = search[p] /\ ids = {row.id : row \in o.cold}
                         /\ hot = {r \in RecordIds : Present(r, {"hot", "both"})}
  OBVIOUS
<1>3. PICK rows : rows = o.cold \cup {Row(r, "hot") : r \in hot \ ids}
  OBVIOUS
<1>4. CASE Raise(p)
  BY <1>1, <1>4, RaiseKeeps
<1>5. CASE /\ search' = [search EXCEPT ![p].rows = rows]
           /\ step' = [step EXCEPT ![p] = "built"] /\ walk' = walk
  <2>1. rows \subseteq IndexRows /\ Apart(rows)
    <3>1. PICK fresh, cold : fresh = hot \ ids /\ cold = search[p].cold
      OBVIOUS
    <3>2. /\ fresh \subseteq {r \in RecordIds : Present(r, {"hot", "both"})}
          /\ \A row \in cold : row.id \notin fresh
          /\ rows = cold \cup {Row(r, "hot") : r \in fresh}
      BY <1>2, <1>3, <3>1
    <3> QED
      BY <3>1, <3>2, RowsRead
  <2>2. PICK c : c = [o EXCEPT !.rows = rows] /\ search' = [search EXCEPT ![p] = c]
    BY <1>1, <1>2, <1>5 DEF SearchTypes
  <2>3. /\ o \in SearchCalls /\ c \in SearchCalls /\ c.tag = o.tag /\ c.rested = o.rested /\ c.cold = o.cold
        /\ c.rows = rows /\ c.replaced = o.replaced /\ c.missed = o.missed /\ c.page = o.page
    <3>1. o \in SearchCalls
      BY <1>1, <1>2 DEF SearchTypes
    <3> QED
      BY <2>1, <2>2, <3>1 DEF SearchCalls
  <2>4. walk' = [walk EXCEPT ![p] = walk[p]] /\ step'[p] = "built" /\ search'[p] = c
    BY <1>1, <1>5, <2>2 DEF SearchTypes
  <2>5. Own(p, "built", c, walk[p])
    BY <1>1, <1>2, <1>5, <2>3, <2>4 DEF Own, Steps, SearchTypes
  <2>6. ASSUME NEW r \in RecordIds, Present(r, {"hot"}) PROVE Row(r, records[r].tier) \in rows
    <3>1. r \notin ids
      <4> SUFFICES ASSUME NEW row \in o.cold, row.id = r PROVE FALSE
        BY <1>2
      <4>1. Present(r, {"both", "archive"})
        BY <1>1, <1>2 DEF CallHolds, ColdStays
      <4> QED
        BY <2>6, <4>1 DEF Present
    <3>2. r \in hot /\ records[r].tier = "hot"
      BY <1>2, <2>6 DEF Present
    <3> QED
      BY <1>3, <3>1, <3>2
  <2>7. HasAll(o.cold, o.tag, {"archive"}) /\ \A q \in Searchers : search[q].rested \subseteq RecordIds
    BY <1>1, <1>2 DEF CallHolds, SearchTypes, SearchCalls
  <2>8. HasAll(rows, o.tag, {"hot", "archive"})
    <3>1. ASSUME NEW r \in RecordIds, Present(r, {"hot", "archive"}),
                 Present(r, {"archive"}) => Row(r, records[r].tier) \in o.cold
          PROVE  Row(r, records[r].tier) \in rows
      BY <1>3, <2>6, <3>1 DEF Present
    <3> QED
      BY <2>7, <3>1 DEF HasAll
  <2>9. HasAll(rows, o.tag, {"hot", "archive"})'
    <3>1. \A q \in Searchers \ {p} : search'[q] = search[q]
      BY <1>1, <2>2 DEF SearchTypes
    <3>2. search'[p].tag = search[p].tag /\ search'[p].rested = search[p].rested
      BY <1>2, <2>3, <2>4
    <3> QED
      BY <1>1, <2>8, <3>1, <3>2, HasAllOwn
  <2>10. ColdStays(p)'
    BY <1>1, <1>2, <2>3, <2>4 DEF CallHolds, ColdStays, Present
  <2>11. CallHolds(p)'
    BY <1>1, <1>2, <2>1, <2>3, <2>4, <2>9, <2>10 DEF CallHolds, Present
  <2>12. WalkHolds(p)'
    BY <1>1, <1>5, <2>4 DEF WalkHolds
  <2>13. PICK w : w = walk[p]
    OBVIOUS
  <2> QED
    BY <1>1, <2>2, <2>4, <2>5, <2>11, <2>12, <2>13, OwnStep
<1> QED
  BY <1>2, <1>3, <1>4, <1>5 DEF ReadHot, Go

\* The index is replaced: it has what its maker has read; another call that had found
\* the one before good enough is marked.
LEMMA ReplaceIndexKeeps ==
    ASSUME SearchInv, NEW p \in Searchers, ReplaceIndex(p)
    PROVE  SearchInv'
<1>1. /\ step[p] = "built" /\ step' = [step EXCEPT ![p] = "ensured"] /\ SearchTypes
      /\ CallHolds(p) /\ WalkHolds(p) /\ UNCHANGED <<records, signature, walk>>
      /\ index' = [tag |-> search[p].tag, rows |-> search[p].rows]
      /\ search' = [q \in Searchers |->
            IF q = p THEN [search[p] EXCEPT !.cold = {}, !.rows = {}]
            ELSE [search[q] EXCEPT !.replaced = @ \/ step[q] = "ensured"]]
  BY DEF ReplaceIndex, Go, Tag, SearchInv
<1>2. PICK o, c : o = search[p] /\ c = search'[p]
  OBVIOUS
<1>3. o \in SearchCalls /\ c = [o EXCEPT !.cold = {}, !.rows = {}]
  BY <1>1, <1>2 DEF SearchTypes
<1>4. /\ c \in SearchCalls /\ c.tag = o.tag /\ c.rested = o.rested /\ c.cold = {} /\ c.rows = {}
      /\ o.tag \in Nat /\ o.rows \in SUBSET IndexRows
  BY <1>3 DEF SearchCalls
<1>5. ASSUME NEW q \in Searchers \ {p}
      PROVE  /\ search'[q] \in SearchCalls /\ step'[q] = step[q]
             /\ search'[q].tag = search[q].tag /\ search'[q].rested = search[q].rested
             /\ search'[q].cold = search[q].cold /\ search'[q].rows = search[q].rows
             /\ search'[q].missed = search[q].missed /\ search'[q].page = search[q].page
             /\ step[q] = "ensured" => search'[q].replaced
             /\ search[q].replaced => search'[q].replaced
  <2>1. PICK a, flag : a = search[q] /\ flag = (a.replaced \/ step[q] = "ensured")
    OBVIOUS
  <2>2. a \in SearchCalls /\ search'[q] = [a EXCEPT !.replaced = flag]
    BY <1>1, <2>1 DEF SearchTypes
  <2>3. flag \in BOOLEAN
    BY <2>1, <2>2 DEF SearchCalls
  <2> QED
    BY <1>1, <2>1, <2>2, <2>3 DEF SearchCalls, SearchTypes
<1>6. step'[p] = "ensured" /\ walk'[p] = walk[p]
  BY <1>1 DEF SearchTypes
<1>7. PICK i : i = index' /\ i = [tag |-> o.tag, rows |-> o.rows]
  BY <1>1, <1>2
<1>8. i \in Indexes /\ i # Missing /\ i.tag = o.tag /\ i.rows = o.rows
  BY <1>4, <1>7, MissingIs DEF Indexes
<1>9. SearchTypes'
  <2>1. search' \in [Searchers -> SearchCalls]
    <3>1. \A q \in Searchers : search'[q] \in SearchCalls
      BY <1>2, <1>4, <1>5
    <3> QED
      BY <1>1, <3>1
  <2> QED
    BY <1>1, <1>7, <1>8, <2>1 DEF SearchTypes, Steps
<1>10. ASSUME NEW rows, NEW tag, NEW tiers, HasAll(rows, tag, tiers)
       PROVE  HasAll(rows, tag, tiers)'
  <2>1. search'[p].tag = search[p].tag /\ search'[p].rested = search[p].rested
    BY <1>2, <1>4
  <2>2. \A q \in Searchers \ {p} : search'[q].tag = search[q].tag /\ search'[q].rested = search[q].rested
    BY <1>5
  <2> QED
    BY <1>1, <1>10, <2>1, <2>2, HasAllOwn
<1>11. IndexHolds'
  <2>1. HasAll(o.rows, o.tag, {"hot", "archive"}) /\ Apart(o.rows) /\ o.tag <= signature
    BY <1>1, <1>2 DEF CallHolds
  <2>2. HasAll(o.rows, o.tag, {"hot", "archive"})'
    BY <1>10, <2>1
  <2> QED
    BY <1>1, <1>7, <1>8, <2>1, <2>2 DEF IndexHolds
<1>12. ASSUME NEW q \in Searchers \ {p} PROVE CallHolds(q)'
  <2>1. PICK a, b : a = search[q] /\ b = search'[q]
    OBVIOUS
  <2>2. /\ CallHolds(q) /\ b.tag = a.tag /\ b.rested = a.rested /\ b.cold = a.cold /\ b.rows = a.rows
        /\ b.missed = a.missed /\ (a.replaced => b.replaced) /\ (step[q] = "ensured" => b.replaced)
    BY <1>5, <2>1 DEF SearchInv
  <2>3. step[q] = "hot" => HasAll(a.cold, a.tag, {"archive"})'
    BY <1>10, <2>1, <2>2 DEF CallHolds
  <2>4. step[q] = "built" => HasAll(a.rows, a.tag, {"hot", "archive"})'
    BY <1>10, <2>1, <2>2 DEF CallHolds
  <2>5. ColdStays(q)'
    BY <1>1, <2>1, <2>2 DEF CallHolds, ColdStays, Present
  <2>6. /\ b.tag <= signature' /\ Apart(b.rows)
        /\ \A r \in b.rested : Present(r, {"hot", "archive"})'
    BY <1>1, <2>1, <2>2 DEF CallHolds, Present
  <2>7. /\ step'[q] = "ensured" => index' # Missing /\ b.replaced
        /\ step'[q] = "page" /\ ~b.replaced => b.missed = {}
    BY <1>5, <1>7, <1>8, <2>1, <2>2 DEF CallHolds
  <2> QED
    BY <1>5, <2>1, <2>2, <2>3, <2>4, <2>5, <2>6, <2>7 DEF CallHolds
<1>13. CallHolds(p)'
  <2>1. /\ o.tag <= signature
        /\ \A r \in o.rested : Present(r, {"hot", "archive"})
    BY <1>1, <1>2 DEF CallHolds
  <2> QED
    BY <1>1, <1>2, <1>4, <1>6, <1>7, <1>8, <2>1, NoCallIs DEF CallHolds, ColdStays, Present
<1>14. ASSUME NEW q \in Searchers PROVE WalkHolds(q)'
  <2>1. WalkHolds(q) /\ walk'[q] = walk[q]
    BY <1>1 DEF SearchInv
  <2>2. CASE q = p
    BY <1>1, <1>6, <2>1, <2>2 DEF WalkHolds
  <2>3. CASE q # p
    BY <1>5, <2>1, <2>3 DEF WalkHolds
  <2> QED
    BY <2>2, <2>3
<1>15. Dated'
  BY <1>1 DEF SearchInv, Dated
<1> QED
  BY <1>9, <1>11, <1>12, <1>13, <1>14, <1>15 DEF SearchInv

---------------------------------------------------------------------------
(* RecordIndex: a page *)

LEMMA LimitIs == \A q \in Queries : CandidateLimit(q) \in Nat \ {0}
<1> SUFFICES ASSUME NEW q \in Queries PROVE CandidateLimit(q) \in Nat \ {0}
  OBVIOUS
<1>1. q.limit \in Nat \ {0} /\ MaxCandidates \in Nat \ {0}
  BY RecordIndexAssumption
<1>2. PICK a, b : a = q.limit + 1 /\ b = 4 * q.limit
  OBVIOUS
<1>3. a \in Nat \ {0} /\ b \in Nat \ {0}
  BY <1>1, <1>2
<1>4. Max({a, b}) \in {a, b}
  <2>1. \E x \in {a, b} : \A y \in {a, b} : x >= y
    BY <1>3
  <2> QED
    BY <2>1 DEF Max
<1>5. PICK m : m = Max({a, b}) /\ m \in Nat \ {0}
  BY <1>3, <1>4
<1>6. Min({MaxCandidates, m}) \in {MaxCandidates, m}
  <2>1. \E x \in {MaxCandidates, m} : \A y \in {MaxCandidates, m} : x <= y
    BY <1>1, <1>5
  <2> QED
    BY <2>1 DEF Min
<1> QED
  BY <1>1, <1>2, <1>5, <1>6 DEF CandidateLimit

LEMMA SizeIs == Bytes(<<>>) = 0 /\ \A rows \in Seq(IndexRows) : Bytes(rows) \in Nat
<1> SUFFICES ASSUME NEW rows \in Seq(IndexRows) PROVE Bytes(rows) \in Nat
  <2>1. Len(<<>>) = 0 /\ {i \in DOMAIN <<>> : <<>>[i].id % 2 = 1} = {}
    OBVIOUS
  <2> QED
    BY <2>1, FS_EmptySet DEF Bytes
<1>1. Len(rows) \in Nat /\ DOMAIN rows = 1..Len(rows)
  OBVIOUS
<1>2. PICK S : S = {i \in DOMAIN rows : rows[i].id % 2 = 1}
  OBVIOUS
<1>3. IsFiniteSet(1..Len(rows)) /\ S \in SUBSET (1..Len(rows))
  BY <1>1, <1>2, FS_Interval
<1>4. Cardinality(S) \in Nat
  BY <1>3, FS_Subset, FS_CardinalityType
<1> QED
  BY <1>1, <1>2, <1>4 DEF Bytes

\* A page returns a first part of its rows: the longest that is within the budget.
LEMMA FittingIs ==
    ASSUME NEW q \in Queries, NEW page \in Seq(IndexRows)
    PROVE  /\ Fitting(q, page) \in 0..Len(page)
           /\ Examined(q, page) \in {Fitting(q, page), Fitting(q, page) + 1}
           /\ Examined(q, page) <= Len(page)
<1>1. q.limit \in Nat \ {0} /\ q.budget \in Nat \ {0} /\ Len(page) \in Nat
  BY RecordIndexAssumption
<1>2. PICK most \in 0..Len(page) : most <= q.limit /\ (most < q.limit => most = Len(page))
  <2>1. CASE q.limit <= Len(page)
    BY <1>1, <2>1
  <2>2. CASE q.limit > Len(page)
    BY <1>1, <2>2
  <2> QED
    BY <1>1, <2>1, <2>2
<1>3. \A n \in 0..Len(page) : SubSeq(page, 1, n) \in Seq(IndexRows) /\ Bytes(SubSeq(page, 1, n)) \in Nat
  <2>1. \A n \in 0..Len(page) : SubSeq(page, 1, n) \in Seq(IndexRows)
    OBVIOUS
  <2> QED
    BY <2>1, SizeIs
<1> DEFINE S == {i \in 1..most + 1 : Bytes(SubSeq(page, 1, i - 1)) <= q.budget}
<1>4. 1 \in S
  <2>1. SubSeq(page, 1, 0) = <<>>
    OBVIOUS
  <2>2. 1 - 1 = 0
    OBVIOUS
  <2>3. Bytes(SubSeq(page, 1, 1 - 1)) = 0
    BY <2>1, <2>2, SizeIs
  <2> QED
    BY <1>1, <1>2, <2>3
<1>5. PICK i \in S : \A j \in S : j <= i
  <2>1. most + 1 \in Nat /\ S \in SUBSET (1..most + 1)
    BY <1>1, <1>2
  <2>2. S # {}
    <3> HIDE DEF S
    <3> QED
      BY <1>4
  <2> HIDE DEF S
  <2> QED
    BY <2>1, <2>2, LastOne
<1>6. PICK n : n = i - 1
  OBVIOUS
<1>7. n \in 0..most /\ i = n + 1 /\ Bytes(SubSeq(page, 1, n)) <= q.budget
  BY <1>1, <1>2, <1>5, <1>6
<1>8. n < Len(page) /\ n < q.limit => Bytes(SubSeq(page, 1, n + 1)) > q.budget
  <2> SUFFICES ASSUME n < Len(page), n < q.limit, Bytes(SubSeq(page, 1, n + 1)) <= q.budget PROVE FALSE
    <3>1. n + 1 \in 0..Len(page) \/ ~(n < Len(page))
      BY <1>1, <1>2, <1>7
    <3> QED
      BY <1>1, <1>3, <3>1
  <2>1. n < most /\ n + 2 \in 1..most + 1 /\ (n + 2) - 1 = n + 1
    BY <1>1, <1>2, <1>7
  <2>2. n + 2 \in S
    BY <2>1
  <2>3. n + 2 <= i
    BY <1>5, <2>2
  <2> QED
    BY <1>1, <1>2, <1>7, <2>3
<1>9. n \in 0..Len(page) /\ n <= q.limit
  BY <1>1, <1>2, <1>7
<1>10. Fitting(q, page) \in 0..Len(page)
  BY <1>7, <1>8, <1>9 DEF Fitting
<1> QED
  BY <1>1, <1>10 DEF Examined

LEMMA MinOfTwo == \A a, b \in Nat : Min({a, b}) = IF a <= b THEN a ELSE b
<1> SUFFICES ASSUME NEW a \in Nat, NEW b \in Nat
             PROVE  Min({a, b}) = IF a <= b THEN a ELSE b
  OBVIOUS
<1>1. \E x \in {a, b} : \A y \in {a, b} : x <= y
  OBVIOUS
<1> QED
  BY <1>1 DEF Min

\* The rows after a cursor are those after the last one given.
LEMMA RestIs ==
    ASSUME NEW rows \in SUBSET IndexRows, Apart(rows), NEW s, s = InSequence(rows)
    PROVE  /\ s \in Seq(IndexRows)
           /\ \A k \in 1..Len(s) : InSequence({row \in rows : row.modified < s[k].modified})
                                     = SubSeq(s, k + 1, Len(s))
<1>1. PICK at : at = [row \in rows |-> row.modified]
  OBVIOUS
<1>2. /\ \A row \in rows : at[row] = row.modified /\ at[row] \in Nat
      /\ Timed(rows, at)
  BY <1>1 DEF Apart, Timed, IndexRows
<1>3. /\ Lists(s, rows, at) /\ Cardinality(rows) \in Nat
      /\ s \in Seq(rows) /\ Len(s) = Cardinality(rows)
  BY <1>1, <1>2, NewestFirstIs DEF InSequence
<1>4. ASSUME NEW k \in 1..Len(s)
      PROVE  InSequence({row \in rows : row.modified < s[k].modified}) = SubSeq(s, k + 1, Len(s))
  <2>1. PICK c : c = s[k].modified
    OBVIOUS
  <2>2. s[k] \in rows /\ c \in Nat /\ c = at[s[k]]
    BY <1>2, <1>3, <2>1
  <2>3. \A i \in 1..Cardinality(rows) : at[s[i]] < c <=> i > k
    <3> SUFFICES ASSUME NEW i \in 1..Cardinality(rows) PROVE at[s[i]] < c <=> i > k
      OBVIOUS
    <3>1. /\ at[s[i]] \in Nat
          /\ k < i => at[s[k]] > at[s[i]]
          /\ i < k => at[s[i]] > at[s[k]]
      BY <1>2, <1>3 DEF Lists
    <3>2. i < k \/ i = k \/ k < i
      BY <1>3
    <3> QED
      BY <1>3, <2>2, <3>1, <3>2
  <2>4. PICK older, now : older = {row \in rows : row.modified < c} /\ now = [row \in older |-> row.modified]
    OBVIOUS
  <2>5. older = {row \in rows : at[row] < c}
    BY <1>2, <2>4
  <2>6. \A row \in rows : at[row] < c => now[row] = at[row]
    BY <1>2, <2>4
  <2>7. k \in 0..Cardinality(rows)
    BY <1>3
  <2>8. Divides(c, k, s, rows, at, now)
    BY <1>2, <1>3, <2>2, <2>3, <2>6, <2>7 DEF Divides
  <2>9. NewestFirst({row \in rows : at[row] < c}, now) = SubSeq(s, k + 1, Cardinality(rows))
    BY <2>8, OlderAreTheRest
  <2> QED
    BY <1>3, <2>1, <2>4, <2>5, <2>9 DEF InSequence
<1> QED
  BY <1>3, <1>4

LEMMA SelectKeeps ==
    ASSUME SearchInv, NEW p \in Searchers, Select(p)
    PROVE  SearchInv'
<1>1. /\ step[p] = "ensured" /\ SearchTypes /\ CallHolds(p) /\ WalkHolds(p) /\ IndexHolds
      /\ UNCHANGED <<records, signature, index>>
  BY DEF Select, SearchInv
<1> DEFINE W == walk[p]
           R == InSequence(index.rows)
           T == IF W.cursor = Missing THEN R
                ELSE InSequence({row \in index.rows : row.modified < W.cursor})
<1>0. \/ Raise(p)
      \/ /\ W.cursor = Missing \/ W.all = R
         /\ search' = [search EXCEPT ![p].page = SubSeq(T, 1, Min({Len(T), CandidateLimit(W.query)})),
                                 ![p].missed = Overlooked(p), ![p].rested = {}]
         /\ walk' = [walk EXCEPT ![p].all = R]
         /\ step' = [step EXCEPT ![p] = "page"]
  BY DEF Select, Go
<1>2. PICK w, o, rows, rest : w = W /\ o = search[p] /\ rows = R /\ rest = T
  OBVIOUS
<1>3. /\ w \in Walks /\ w # Missing /\ o \in SearchCalls /\ index \in Indexes /\ index # Missing
      /\ ~w.ended
  BY <1>1, <1>2 DEF WalkHolds, CallHolds, SearchTypes
<1>4. CASE Raise(p)
  BY <1>1, <1>4, RaiseKeeps
<1>5. PICK most, page, missed :
         /\ most = CandidateLimit(w.query) /\ page = SubSeq(rest, 1, Min({Len(rest), most}))
         /\ missed = Overlooked(p)
  OBVIOUS
<1>6. CASE /\ w.cursor = Missing \/ w.all = rows
           /\ search' = [search EXCEPT ![p].page = page, ![p].missed = missed, ![p].rested = {}]
           /\ walk' = [walk EXCEPT ![p].all = rows]
           /\ step' = [step EXCEPT ![p] = "page"]
  <2>1. PICK k, n, all : k = Len(w.given) /\ n = Len(rows) /\ all = index.rows
    OBVIOUS
  <2>2. all \in SUBSET IndexRows /\ Apart(all) /\ rows = InSequence(all)
    BY <1>1, <1>2, <1>3, <2>1 DEF Indexes, IndexHolds
  <2>3. /\ rows \in Seq(IndexRows)
        /\ \A i \in 1..Len(rows) : InSequence({row \in all : row.modified < rows[i].modified})
                                     = SubSeq(rows, i + 1, Len(rows))
    BY <2>2, RestIs
  <2>length. n \in Nat /\ SubSeq(rows, 1, n) = rows
    BY <2>1, <2>3, SubSeqFull
  <2>4. /\ k \in Nat /\ w.given \in Seq(IndexRows) /\ w.query \in Queries /\ w.all \in Seq(IndexRows)
    BY <1>3, <2>1 DEF Walks
  <2>5. /\ k <= Len(w.all) /\ w.given = SubSeq(w.all, 1, k) /\ (w.cursor = Missing <=> k = 0)
        /\ w.cursor # Missing => w.cursor = w.given[k].modified
    BY <1>1, <1>2, <1>3, <2>1 DEF WalkHolds
  <2>6. /\ k <= n /\ w.given = SubSeq(rows, 1, k) /\ rest = SubSeq(rows, k + 1, n)
    <3>1. CASE k = 0
      <4>1. SubSeq(rows, 1, 0) = <<>> /\ SubSeq(w.all, 1, 0) = <<>> /\ SubSeq(rows, 1, n) = rows
        BY <2>length, SubSeqEmpty
      <4>2. rest = rows
        BY <1>2, <2>5, <3>1
      <4> QED
        BY <2>length, <2>5, <3>1, <4>1, <4>2
    <3>2. CASE k # 0
      <4>1. w.cursor # Missing /\ w.all = rows
        BY <1>6, <2>5, <3>2
      <4>2. k \in 1..n /\ w.given[k] = rows[k]
        <5>1. k \in Nat /\ k <= Len(rows) /\ k >= 1 /\ w.given = SubSeq(rows, 1, k)
          BY <2>4, <2>5, <3>2, <4>1
        <5>2. \A i \in 1..k : w.given[i] = rows[i]
          BY <2>3, <5>1, FirstPart
        <5> QED
          BY <2>1, <2>length, <5>1, <5>2
      <4>3. rest = InSequence({row \in index.rows : row.modified < rows[k].modified})
        BY <1>2, <2>1, <2>5, <4>1, <4>2
      <4> QED
        BY <2>1, <2>3, <2>5, <2>length, <4>1, <4>2, <4>3
    <3> QED
      BY <3>1, <3>2
  <2>7. PICK v : v = [w EXCEPT !.all = rows]
    OBVIOUS
  <2>8. /\ v \in Walks /\ v.query = w.query /\ v.cursor = w.cursor /\ v.given = w.given /\ v.all = rows
        /\ v.ended = w.ended /\ v # Missing
    <3>1. /\ v \in Walks /\ v.query = w.query /\ v.cursor = w.cursor /\ v.given = w.given /\ v.all = rows
          /\ v.ended = w.ended
      BY <1>3, <2>3, <2>7 DEF Walks
    <3> QED
      BY <3>1, MissingIs
  <2>9. page = PageOf(v)
    <3>1. most \in Nat
      BY <1>5, <2>4, LimitIs
    <3>2. PICK d \in Nat : n = k + d
      <4>1. n - k \in Nat /\ n = k + (n - k)
        BY <2>4, <2>6, <2>length
      <4> QED
        BY <4>1
    <3>3. k + d <= Len(rows) /\ rest = SubSeq(rows, k + 1, k + d)
      <4>1. n <= Len(rows)
        BY <2>1, <2>length
      <4> QED
        BY <2>6, <3>2, <4>1
    <3>4. rest \in Seq(IndexRows) /\ Len(rest) = d
      BY <2>3, <2>4, <3>2, <3>3, Part
    <3>5. PICK m : m = IF d <= most THEN d ELSE most
      OBVIOUS
    <3>6. m \in Nat /\ m <= d /\ Min({Len(rest), most}) = m
      BY <3>1, <3>2, <3>4, <3>5, MinOfTwo
    <3>7. SubSeq(SubSeq(rows, k + 1, k + d), 1, m) = SubSeq(rows, k + 1, k + m)
      BY <2>3, <2>4, <3>2, <3>3, <3>6, PartOfPart
    <3>8. page = SubSeq(rows, k + 1, k + m)
      BY <1>5, <3>3, <3>6, <3>7
    <3>9. k + m = IF n - k <= most THEN n ELSE k + most
      BY <2>4, <3>1, <3>2, <3>5
    <3>10. PageOf(v) = SubSeq(rows, k + 1, IF n - k <= most THEN n ELSE k + most)
      BY <1>5, <2>1, <2>8 DEF PageOf
    <3> QED
      BY <3>8, <3>9, <3>10
  <2>10. page \in Seq(IndexRows)
    <3>1. most \in Nat /\ Len(rest) \in Nat /\ rest \in Seq(IndexRows)
      <4>1. rest \in Seq(IndexRows)
        <5>1. SubSeq(rows, k + 1, n) \in Seq(IndexRows)
          BY <2>3, <2>1, <2>4, <2>length
        <5> QED
          BY <2>6, <5>1
      <4> QED
        BY <1>5, <2>4, <4>1, LimitIs
    <3>2. PICK m : m = Min({Len(rest), most})
      OBVIOUS
    <3>3. m \in Nat /\ m <= Len(rest) /\ page = SubSeq(rest, 1, m)
      BY <1>5, <3>1, <3>2, MinOfTwo
    <3> QED
      BY <3>1, <3>3, FirstPart
  <2>11. missed \subseteq RecordIds /\ (~o.replaced => missed = {})
    <3>1. missed = {r \in o.rested : Row(r, records[r].tier) \notin index.rows} /\ o.rested \subseteq RecordIds
      BY <1>2, <1>3, <1>5 DEF Overlooked, SearchCalls
    <3>2. ASSUME ~o.replaced, NEW r \in o.rested PROVE Row(r, records[r].tier) \in index.rows
      <4>1. index.tag = o.tag /\ Present(r, {"hot", "archive"})
        BY <1>1, <1>2, <3>2 DEF CallHolds
      <4> QED
        BY <1>1, <1>2, <1>3, <3>2, <4>1 DEF IndexHolds, HasAll
    <3> QED
      BY <3>1, <3>2
  <2>12. PICK c : c = [o EXCEPT !.page = page, !.missed = missed, !.rested = {}]
    OBVIOUS
  <2>13. /\ c \in SearchCalls /\ c.tag = o.tag /\ c.rested = {} /\ c.cold = o.cold /\ c.rows = o.rows
         /\ c.replaced = o.replaced /\ c.missed = missed /\ c.page = page
    BY <1>3, <2>10, <2>11, <2>12 DEF SearchCalls
  <2>14. search' = [search EXCEPT ![p] = c] /\ walk' = [walk EXCEPT ![p] = v]
    BY <1>1, <1>2, <1>6, <2>7, <2>12 DEF SearchTypes
  <2>15. step'[p] = "page" /\ search'[p] = c /\ walk'[p] = v
    BY <1>1, <1>6, <2>14 DEF SearchTypes
  <2>16. Own(p, "page", c, v)
    BY <1>1, <1>6, <2>8, <2>13, <2>14 DEF Own, Steps
  <2>17. CallHolds(p)'
    BY <1>1, <1>2, <2>11, <2>13, <2>15 DEF CallHolds, ColdStays, Present
  <2>18. WalkHolds(p)'
    BY <1>3, <2>1, <2>5, <2>6, <2>8, <2>9, <2>13, <2>15 DEF WalkHolds
  <2> QED
    BY <1>1, <2>14, <2>16, <2>17, <2>18, OwnStep
<1> QED
  <2>1. Raise(p) \/ /\ w.cursor = Missing \/ w.all = rows
                    /\ search' = [search EXCEPT ![p].page = page, ![p].missed = missed, ![p].rested = {}]
                    /\ walk' = [walk EXCEPT ![p].all = rows]
                    /\ step' = [step EXCEPT ![p] = "page"]
    <3> HIDE DEF W, R, T
    <3> QED
      BY <1>0, <1>2, <1>5
  <2> QED
    BY <1>4, <1>6, <2>1

LEMMA AnswerPageKeeps ==
    ASSUME SearchInv, NEW p \in Searchers, AnswerPage(p)
    PROVE  SearchInv'
<1>1. /\ step[p] = "page" /\ SearchTypes /\ CallHolds(p) /\ WalkHolds(p)
      /\ UNCHANGED <<records, signature, index>>
  BY DEF AnswerPage, SearchInv
<1>2. PICK w, page, most, k, size, n, looked :
         /\ w = walk[p] /\ page = search[p].page /\ most = CandidateLimit(w.query)
         /\ k = Len(w.given) /\ size = Len(w.all)
         /\ n = Fitting(w.query, page) /\ looked = Examined(w.query, page)
  OBVIOUS
<1>3. /\ w \in Walks /\ w # Missing /\ page = PageOf(w) /\ page \in Seq(IndexRows)
      /\ k <= size /\ w.given = SubSeq(w.all, 1, k) /\ (w.cursor = Missing <=> k = 0)
      /\ w.cursor # Missing => w.cursor = w.given[k].modified
  <2>1. w \in Walks /\ w # Missing /\ page \in Seq(IndexRows)
    BY <1>1, <1>2 DEF WalkHolds, SearchTypes, SearchCalls
  <2> QED
    BY <1>1, <1>2, <2>1 DEF WalkHolds
<1>4. /\ k \in Nat /\ size \in Nat /\ w.all \in Seq(IndexRows) /\ w.given \in Seq(IndexRows)
      /\ w.query \in Queries /\ most \in Nat \ {0}
  BY <1>2, <1>3, LimitIs DEF Walks
<1>5. PICK d, m \in Nat : size = k + d /\ m = (IF d <= most THEN d ELSE most)
  <2>1. PICK d \in Nat : size = k + d
    <3>1. size - k \in Nat /\ size = k + (size - k)
      BY <1>3, <1>4
    <3> QED
      BY <3>1
  <2> QED
    BY <1>4, <2>1
<1>6. m <= d /\ k + m <= Len(w.all) /\ page = SubSeq(w.all, k + 1, k + m) /\ Len(page) = m
  <2>1. /\ m <= d /\ k + m <= size
        /\ k + m = IF size - k <= most THEN size ELSE k + most
    BY <1>3, <1>4, <1>5
  <2>2. page = SubSeq(w.all, k + 1, k + m)
    BY <1>2, <1>3, <2>1 DEF PageOf
  <2>3. k + m <= Len(w.all)
    BY <1>2, <2>1
  <2> QED
    BY <1>4, <2>1, <2>2, <2>3, Part
<1>7. n \in Nat /\ n <= m /\ looked \in {n, n + 1} /\ looked <= m /\ (m = 0 <=> page = <<>>)
  <2>1. n \in 0..Len(page) /\ looked \in {n, n + 1} /\ looked <= Len(page)
    BY <1>2, <1>3, <1>4, FittingIs
  <2>2. Len(page) = 0 <=> page = <<>>
    BY <1>3, EmptySeq
  <2>3. Len(page) = m /\ m \in Nat
    BY <1>5, <1>6
  <2>4. n \in 0..m /\ looked <= m /\ (m = 0 <=> page = <<>>)
    BY <2>1, <2>2, <2>3
  <2> QED
    BY <2>1, <2>3, <2>4
<1>8. CASE Raise(p)
  BY <1>1, <1>8, RaiseKeeps
<1>9. PICK v : v = [w EXCEPT !.given = @ \o SubSeq(page, 1, n),
                             !.cursor = IF n > 0 THEN page[n].modified ELSE @,
                             !.cut = looked > n,
                             !.ended = ~(n > 0 /\ HasMore(w.query, page))]
  OBVIOUS
<1>10. CASE /\ n # 0 \/ page = <<>>
            /\ walk' = [walk EXCEPT ![p] = v]
            /\ step' = [step EXCEPT ![p] = "idle"] /\ search' = [search EXCEPT ![p] = NoCall]
  <2>1. PICK given, cursor, cut, ended :
           /\ given = w.given \o SubSeq(page, 1, n)
           /\ cursor = (IF n > 0 THEN page[n].modified ELSE w.cursor)
           /\ cut = (looked > n)
           /\ ended = ~(n > 0 /\ HasMore(w.query, page))
    OBVIOUS
  <2>2. given = SubSeq(w.all, 1, k + n) /\ given \in Seq(IndexRows) /\ Len(given) = k + n /\ k + n <= size
    <3>1. SubSeq(SubSeq(w.all, k + 1, k + m), 1, n) = SubSeq(w.all, k + 1, k + n)
      BY <1>4, <1>5, <1>6, <1>7, PartOfPart
    <3>2. k + n \in Nat /\ k + n <= size
      BY <1>4, <1>5, <1>6, <1>7
    <3>3. k + n <= Len(w.all)
      BY <1>2, <3>2
    <3>4. SubSeq(w.all, 1, k) \o SubSeq(w.all, k + 1, k + n) = SubSeq(w.all, 1, k + n)
      BY <1>4, <1>7, <3>3, PartsJoin
    <3>5. given = SubSeq(w.all, 1, k + n)
      BY <1>3, <1>6, <2>1, <3>1, <3>4
    <3> QED
      BY <1>4, <3>2, <3>3, <3>5, FirstPart
  <2>3. /\ cursor \in Nat \cup {Missing} /\ (cursor = Missing <=> k + n = 0)
        /\ cursor # Missing => cursor = given[k + n].modified
    <3>1. CASE n = 0
      <4>1. given = w.given /\ k + n = k /\ cursor = w.cursor
        BY <1>3, <1>4, <2>1, <2>2, <3>1
      <4> QED
        BY <1>3, <1>4, <3>1, <4>1 DEF Walks
    <3>2. CASE n > 0
      <4>1. page[n] \in IndexRows /\ page[n] = w.all[k + n] /\ given[k + n] = w.all[k + n]
        <5>1. n \in 1..m /\ k + n \in Nat /\ k + n \in 1..k + n /\ k + n <= Len(w.all)
          BY <1>2, <1>4, <1>5, <1>7, <2>2, <3>2
        <5>part. w.all \in Seq(IndexRows) /\ k \in Nat /\ m \in Nat /\ k + m <= Len(w.all)
          BY <1>4, <1>5, <1>6
        <5>2. /\ SubSeq(w.all, k + 1, k + m) \in Seq(IndexRows) /\ Len(SubSeq(w.all, k + 1, k + m)) = m
              /\ \A i \in 1..m : /\ SubSeq(w.all, k + 1, k + m)[i] = w.all[k + i]
                                 /\ w.all[k + i] \in IndexRows
          BY ONLY <5>part, Part
        <5>3. SubSeq(w.all, 1, k + n)[k + n] = w.all[k + n]
          BY <1>4, <5>1, FirstPart
        <5> QED
          BY <1>6, <2>2, <5>1, <5>2, <5>3
      <4>2. cursor = page[n].modified /\ cursor \in Nat
        BY <2>1, <3>2, <4>1 DEF IndexRows
      <4> QED
        BY <1>4, <1>7, <3>2, <4>1, <4>2, MissingIs
    <3> QED
      BY <1>7, <3>1, <3>2
  <2>4. /\ v \in Walks /\ v # Missing /\ v.given = given /\ v.cursor = cursor /\ v.all = w.all
        /\ v.cut = cut /\ v.ended = ended
    <3>1. v = [w EXCEPT !.given = given, !.cursor = cursor, !.cut = cut, !.ended = ended]
      BY <1>9, <2>1
    <3>2. cut \in BOOLEAN /\ ended \in BOOLEAN
      BY <2>1
    <3>3. /\ v \in Walks /\ v.given = given /\ v.cursor = cursor /\ v.all = w.all
          /\ v.cut = cut /\ v.ended = ended
      BY <1>3, <2>2, <2>3, <3>1, <3>2 DEF Walks
    <3> QED
      BY <3>3, MissingIs
  <2>5. ended => k + n = size - (IF cut THEN 1 ELSE 0)
    <3>1. CASE n = 0
      <4>1. m = 0
        BY <1>7, <1>10, <3>1
      <4>2. d = 0 /\ looked = 0
        BY <1>4, <1>5, <1>7, <4>1
      <4>3. cut = FALSE
        <5>1. (looked > n) = FALSE
          BY <3>1, <4>2
        <5> QED
          BY <2>1, <5>1
      <4> QED
        BY <1>4, <1>5, <3>1, <4>2, <4>3
    <3>2. CASE n > 0 /\ ~HasMore(w.query, page)
      <4>1. ~(m > looked) /\ ~(looked = most)
        <5>1. page # <<>>
          BY <1>7, <3>2
        <5> QED
          BY <1>2, <1>6, <3>2, <5>1 DEF HasMore
      <4>2. looked = m /\ m = d
        BY <1>4, <1>5, <1>7, <4>1
      <4>3. CASE looked = n
        <5>1. cut = FALSE
          <6>1. (looked > n) = FALSE
            BY <1>7, <4>3
          <6> QED
            BY <2>1, <6>1
        <5> QED
          BY <1>4, <1>5, <4>2, <4>3, <5>1
      <4>4. CASE looked = n + 1
        <5>1. cut = TRUE
          <6>1. (looked > n) = TRUE
            BY <1>7, <4>4
          <6> QED
            BY <2>1, <6>1
        <5>2. k + n = size - 1
          BY <1>4, <1>5, <1>7, <4>2, <4>4
        <5> QED
          BY <5>1, <5>2
      <4> QED
        BY <1>7, <4>3, <4>4
    <3>3. ended => n = 0 \/ ~HasMore(w.query, page)
      <4> SUFFICES ASSUME ended PROVE n = 0 \/ ~HasMore(w.query, page)
        OBVIOUS
      <4>1. ~(n > 0 /\ HasMore(w.query, page))
        BY <2>1
      <4> QED
        BY <1>7, <4>1
    <3>4. n = 0 \/ n > 0
      BY <1>7
    <3> QED
      BY <3>1, <3>2, <3>3, <3>4
  <2>6. step'[p] = "idle" /\ search'[p] = NoCall /\ walk'[p] = v
    BY <1>1, <1>10 DEF SearchTypes
  <2>7. Own(p, "idle", NoCall, v)
    BY <1>1, <1>10, <2>4, NoCallIs DEF Own, Steps
  <2>8. CallHolds(p)'
    <3>1. 0 <= signature
      BY <1>1 DEF SearchTypes
    <3> QED
      BY <1>1, <2>6, <3>1, NoCallIs DEF CallHolds, ColdStays
  <2>9. WalkHolds(p)'
    BY <1>2, <1>4, <2>2, <2>3, <2>4, <2>5, <2>6 DEF WalkHolds
  <2> QED
    BY <1>1, <1>10, <2>7, <2>8, <2>9, OwnStep
<1> QED
  BY <1>2, <1>8, <1>9, <1>10 DEF AnswerPage, Go

LEMMA SearchStarts == RecordIndexInit => SearchInv
<1> SUFFICES ASSUME RecordIndexInit PROVE SearchInv
  OBVIOUS
<1>1. /\ records = [r \in RecordIds |-> Missing] /\ signature = 0 /\ index = Missing
      /\ step = [p \in Searchers |-> "idle"] /\ search = [p \in Searchers |-> NoCall]
      /\ walk = [p \in Searchers |-> Missing]
  BY DEF RecordIndexInit
<1>2. SearchTypes
  BY <1>1, NoCallIs DEF SearchTypes, Steps
<1>3. Dated /\ IndexHolds
  BY <1>1 DEF Dated, IndexHolds
<1>4. ASSUME NEW p \in Searchers PROVE CallHolds(p) /\ WalkHolds(p)
  <2>1. step[p] = "idle" /\ search[p] = NoCall /\ walk[p] = Missing
    BY <1>1
  <2>2. CallHolds(p)
    <3>1. 0 <= signature
      BY <1>1
    <3> QED
      BY <2>1, <3>1, NoCallIs DEF CallHolds, ColdStays
  <2>3. WalkHolds(p)
    BY <2>1 DEF WalkHolds
  <2> QED
    BY <2>2, <2>3
<1> QED
  BY <1>2, <1>3, <1>4 DEF SearchInv

LEMMA SearchKeeps == SearchInv /\ [RecordIndexNext]_indexVars => SearchInv'
<1> SUFFICES ASSUME SearchInv, [RecordIndexNext]_indexVars PROVE SearchInv'
  OBVIOUS
<1>1. CASE Modify \/ Publish \/ RemoveHot
  BY <1>1, RecordsKeep
<1>2. ASSUME NEW p \in Searchers,
             \/ StartSearch(p) \/ Ensure(p) \/ ReadCold(p) \/ ReadHot(p) \/ ReplaceIndex(p)
             \/ Select(p) \/ AnswerPage(p) \/ LeaveWalk(p)
      PROVE  SearchInv'
  BY <1>2, StartSearchKeeps, EnsureKeeps, ReadColdKeeps, ReadHotKeeps, ReplaceIndexKeeps,
     SelectKeeps, AnswerPageKeeps, RaiseKeeps DEF LeaveWalk
<1>3. CASE UNCHANGED indexVars
  <2>1. UNCHANGED <<records, signature, index, step, search, walk>>
    BY <1>3 DEF indexVars
  <2>2. ASSUME NEW p \in Searchers PROVE CallHolds(p)' /\ WalkHolds(p)'
    BY <2>1 DEF SearchInv, CallHolds, WalkHolds, ColdStays, HasAll, Present, Row
  <2>3. IndexHolds'
    BY <2>1 DEF SearchInv, IndexHolds, HasAll, Present, Row
  <2> QED
    BY <2>1, <2>2, <2>3 DEF SearchInv, SearchTypes, Dated
<1> QED
  BY <1>1, <1>2, <1>3 DEF RecordIndexNext

\* A search overlooks no Record that has rested since the call began, unless the index was
\* replaced under it, and the pages of a walk add up to the rows of one index, but for a
\* last one that the budget cuts; for any Records, searchers, limits and budgets
\* (record_search.py, search; record_cli.py, _search).
THEOREM SearchSafe == RecordIndexSpec => []SearchAddsUp
<1>1. SearchInv => SearchAddsUp
  <2> SUFFICES ASSUME SearchInv, NEW p \in Searchers
               PROVE  /\ step[p] = "page" /\ ~search[p].replaced => search[p].missed = {}
                      /\ walk[p] # Missing =>
                           /\ IsPrefix(walk[p].given, walk[p].all)
                           /\ walk[p].ended => Len(walk[p].given)
                                 = Len(walk[p].all) - (IF walk[p].cut THEN 1 ELSE 0)
    BY DEF SearchAddsUp, SearchSeesAll, PagesAddUp
  <2>1. CallHolds(p) /\ WalkHolds(p) /\ SearchTypes
    BY DEF SearchInv
  <2>2. ASSUME walk[p] # Missing PROVE IsPrefix(walk[p].given, walk[p].all)
    <3>1. PICK w : w = walk[p] /\ w.given \in Seq(IndexRows)
      BY <2>1, <2>2 DEF SearchTypes, Walks
    <3>2. SubSeq(w.given, 1, Len(w.given)) = w.given
      BY <3>1
    <3> QED
      BY <2>1, <2>2, <3>1, <3>2 DEF WalkHolds, IsPrefix
  <2> QED
    BY <2>1, <2>2 DEF CallHolds, WalkHolds
<1> QED
  BY <1>1, SearchStarts, SearchKeeps, PTL DEF RecordIndexSpec
=============================================================================
