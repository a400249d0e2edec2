----------------------------- MODULE ReaderProofs ----------------------------
(***************************************************************************)
(* What readers without a lock are told: the answer of an exact lookup     *)
(* (Lookup), the reply of the HTTP host (Host) and the answer of a list or *)
(* search from the query cache (QueryCache), for any number of readers and *)
(* however the tasks or the Artifact move meanwhile.                       *)
(***************************************************************************)
EXTENDS Host, Lookup, QueryCache, FiniteSetTheorems, TLAPS

---------------------------------------------------------------------------
(* Lookup *)

Answers == Nat \cup {Gone} \cup BOOLEAN
Stages == {"audit", "identity", "dirty", "repair", "rebuild", "scan", "fill", "entry",
           "inventory", "again", "read", "last", "said"}
LookupCalls == [stage : Stages, answer : Answers, since : Nat, then : {"entry", "again", "last"},
                takenBack : BOOLEAN]

\* The task is in one tier at least, its pack is no newer than its file, and
\* while a move runs they are the same.
TaskInv ==
    /\ hot \in Nat \cup {Gone}
    /\ pack = Gone \/ pack \in [version : Nat, whole : BOOLEAN]
    /\ hot = Gone => Whole
    /\ hot # Gone /\ pack # Gone => pack.version <= hot
    /\ hot # Gone /\ pack # Gone /\ mover # Gone => pack.version = hot
    /\ mover # Gone => pack # Gone
    /\ mover \in {Gone, "pack", "pack back", "record"}
    /\ mover = "pack back" => hot # Gone
    /\ hot = Gone => mover # "record"
    /\ hot # Gone /\ Broken => mover # Gone

\* A call that did not find the file finds the pack, of a version that is not
\* older than the call, unless the file came back.
CallInv(l) ==
    lookup[l] # Gone =>
        LET call == lookup[l] IN
        /\ call \in LookupCalls
        /\ call.since <= Latest
        /\ call.stage = "audit" => call.answer \in call.since..Latest
        /\ call.stage = "said" => IF call.answer = Gone THEN call.takenBack
                                  ELSE call.answer \in call.since..Latest
        /\ call.stage \notin {"audit", "said"} =>
              /\ call.takenBack \/ hot = Gone
              /\ pack # Gone => call.since <= pack.version

LookupInv ==
    /\ TaskInv
    /\ lookup = [l \in Lookers |-> lookup[l]]
    /\ \A l \in Lookers : CallInv(l)

\* Gone is no version, no mover and no pack.
LEMMA GoneIsNothing ==
    /\ \A n \in Nat : n # Gone
    /\ "pack" # Gone /\ "pack back" # Gone /\ "record" # Gone
    /\ \A p \in [version : Nat, whole : BOOLEAN] : p # Gone
BY LookupAssumption DEF LookupAssumption

LEMMA AnswersAre == Nat \cup {Gone} \subseteq Answers /\ BOOLEAN \subseteq Answers
BY DEF Answers

\* Latest is a version.
LEMMA LatestIsVersion == TaskInv => Latest \in Nat
BY LookupAssumption DEF TaskInv, Latest, Whole

LEMMA LookupStarts == LookupInit => LookupInv
<1> SUFFICES ASSUME LookupInit PROVE LookupInv
    OBVIOUS
<1>1. hot = 0 /\ pack = Gone /\ mover = Gone /\ lookup = [l \in Lookers |-> Gone]
    BY DEF LookupInit
<1>2. TaskInv
    BY <1>1, GoneIsNothing DEF TaskInv, Whole, Broken
<1> QED BY <1>1, <1>2 DEF LookupInv, CallInv

\* What a call becomes by one of its own steps, with the task as it is.
LEMMA CallSteps ==
    ASSUME LookupInv, UNCHANGED task, NEW l \in Lookers, NEW call,
           Set(l, call),
           call # Gone =>
              /\ call \in LookupCalls
              /\ call.since <= Latest
              /\ call.stage = "audit" => call.answer \in call.since..Latest
              /\ call.stage = "said" => IF call.answer = Gone THEN call.takenBack
                                        ELSE call.answer \in call.since..Latest
              /\ call.stage \notin {"audit", "said"} =>
                    /\ call.takenBack \/ hot = Gone
                    /\ pack # Gone => call.since <= pack.version
    PROVE  LookupInv'
<1>1. UNCHANGED <<hot, pack, tracked, mover, moves>>
    BY DEF task
<1>2. TaskInv' /\ Latest' = Latest
    BY <1>1 DEF LookupInv, TaskInv, Whole, Broken, Latest
<1>3. lookup' = [k \in Lookers |-> lookup'[k]]
    BY DEF LookupInv, Set
<1>4. \A k \in Lookers : lookup'[k] = IF k = l THEN call ELSE lookup[k]
    BY DEF LookupInv, Set
<1>5. ASSUME NEW k \in Lookers PROVE CallInv(k)'
  <2>1. CASE k = l
    <3>1. lookup'[k] = call
        BY <1>4, <2>1
    <3> QED BY <1>1, <1>2, <3>1 DEF CallInv
  <2>2. CASE k # l
    <3>1. lookup'[k] = lookup[k] /\ CallInv(k)
        BY <1>4, <2>2 DEF LookupInv
    <3> QED BY <1>1, <1>2, <3>1 DEF CallInv
  <2> QED BY <2>1, <2>2
<1> QED BY <1>2, <1>3, <1>5 DEF LookupInv

\* A step of the task that no call can tell from none: it keeps the calls, its
\* versions do not fall, and it brings no file back.
LEMMA TaskSteps ==
    ASSUME LookupInv, TaskInv', lookup' = lookup, Latest <= Latest',
           hot = Gone => hot' = Gone,
           pack' # Gone => (pack # Gone /\ pack'.version = pack.version) \/ pack'.version = Latest
    PROVE  LookupInv'
<1>1. Latest \in Nat /\ Latest' \in Nat
    BY LatestIsVersion DEF LookupInv, TaskInv, Latest, Whole, LookupAssumption
<1>2. ASSUME NEW l \in Lookers, lookup[l] # Gone PROVE CallInv(l)'
  <2>1. CallInv(l) /\ lookup[l] \in LookupCalls
      BY <1>2 DEF LookupInv, CallInv
  <2>2. lookup[l].since \in Nat /\ lookup[l].since <= Latest'
      BY <1>1, <1>2, <2>1 DEF CallInv, LookupCalls
  <2>3. lookup[l].stage = "audit" => lookup[l].answer \in lookup[l].since..Latest'
      BY <1>1, <1>2, <2>1 DEF CallInv
  <2>4. lookup[l].stage = "said" =>
           IF lookup[l].answer = Gone THEN lookup[l].takenBack
           ELSE lookup[l].answer \in lookup[l].since..Latest'
      BY <1>1, <1>2, <2>1 DEF CallInv
  <2>5. lookup[l].stage \notin {"audit", "said"} =>
           /\ lookup[l].takenBack \/ hot' = Gone
           /\ pack' # Gone => lookup[l].since <= pack'.version
      BY <1>2, <2>1 DEF CallInv
  <2> QED BY <2>1, <2>2, <2>3, <2>4, <2>5 DEF CallInv
<1>3. \A l \in Lookers : CallInv(l)'
    BY <1>2 DEF CallInv
<1> QED BY <1>3 DEF LookupInv

\* The steps of the task.
LEMMA TaskKeeps ==
    ASSUME LookupInv,
           \/ UpdateTask \/ BeginMove \/ EndCopy \/ RemoveFile \/ CommitPack
           \/ CommitRecord \/ DropPack
    PROVE  LookupInv'
<1>0. TaskInv /\ Latest \in Nat
    BY LatestIsVersion DEF LookupInv
<1>1. CASE UpdateTask
  <2>1. /\ TaskInv' /\ lookup' = lookup /\ pack' = pack
        /\ hot # Gone /\ hot' = hot + 1 /\ hot' # Gone
    <3>1. /\ mover = Gone /\ mover' = Gone /\ lookup' = lookup /\ pack' = pack
          /\ hot # Gone /\ hot' = hot + 1 /\ hot \in Nat
        BY <1>0, <1>1 DEF UpdateTask, TaskInv
    <3>2. hot' \in Nat
        BY <3>1
    <3>3. hot' # Gone
        BY <3>2, GoneIsNothing
    <3>4. pack # Gone => pack'.version <= hot'
      <4>1. pack # Gone => pack.version \in Nat /\ pack.version <= hot
          BY <1>0, <3>1 DEF TaskInv
      <4> QED BY <3>1, <4>1
    <3>5. (Whole' <=> Whole) /\ (Broken' <=> Broken)
        BY <3>1 DEF Whole, Broken
    <3> QED BY <1>0, <3>1, <3>2, <3>3, <3>4, <3>5 DEF TaskInv
  <2>2. Latest' = Latest + 1
      BY <2>1 DEF Latest
  <2> QED BY <1>0, <2>1, <2>2, TaskSteps
<1>2. CASE BeginMove
  <2>1. /\ lookup' = lookup /\ hot # Gone /\ hot' = hot
        /\ pack' = [version |-> hot, whole |-> FALSE] /\ pack' # Gone
        /\ mover' \in {"pack", "record"}
      BY <1>0, <1>2, GoneIsNothing DEF BeginMove, TaskInv
  <2>2. TaskInv'
    <3>1. pack' \in [version : Nat, whole : BOOLEAN] /\ pack'.version = hot /\ ~pack'.whole
        BY <1>0, <2>1 DEF TaskInv
    <3>2. mover' # Gone /\ mover' # "pack back" /\ hot \in Nat
        BY <1>0, <2>1, GoneIsNothing DEF TaskInv
    <3>3. hot' \in Nat /\ hot' # Gone /\ pack'.version <= hot' /\ pack'.version = hot'
      <4>1. hot' = hot
          BY <2>1
      <4>2. \A n \in Nat : n <= n
          OBVIOUS
      <4>3. hot # Gone
          BY <2>1
      <4> QED BY <3>1, <3>2, <4>1, <4>2, <4>3
    <3>4. mover' \in {Gone, "pack", "pack back", "record"}
        BY <2>1
    <3> QED BY <2>1, <3>1, <3>2, <3>3, <3>4 DEF TaskInv
  <2>3. Latest = hot /\ Latest' = hot /\ pack'.version = hot
      BY <2>1 DEF Latest
  <2> QED BY <1>0, <2>1, <2>2, <2>3, TaskSteps
<1>3. CASE EndCopy
  <2>1. /\ lookup' = lookup /\ hot' = hot /\ mover' = mover
        /\ pack # Gone /\ pack' = [pack EXCEPT !.whole = TRUE]
      BY <1>3 DEF EndCopy, Broken
  <2>2. pack' \in [version : Nat, whole : BOOLEAN] /\ pack'.version = pack.version /\ pack'.whole
      BY <1>0, <2>1 DEF TaskInv
  <2>3. TaskInv' /\ Latest' = Latest
    <3>1. pack' # Gone
        BY <2>2, GoneIsNothing
    <3> QED BY <1>0, <2>1, <2>2, <3>1, GoneIsNothing DEF TaskInv, Latest, Whole, Broken
  <2> QED BY <1>0, <2>1, <2>2, <2>3, TaskSteps
<1>4. CASE RemoveFile
  <2>1. /\ lookup' = lookup /\ pack' = pack /\ pack # Gone /\ hot # Gone
        /\ hot' = Gone \/ hot' = hot
        /\ mover' = IF mover = "record" THEN Gone ELSE mover
        /\ mover \in {"pack", "record"} /\ Whole
      BY <1>4 DEF RemoveFile, Whole
  <2>2. TaskInv' /\ Latest' = Latest
      BY <1>0, <2>1, GoneIsNothing DEF TaskInv, Latest, Whole, Broken
  <2> QED BY <1>0, <2>1, <2>2, TaskSteps
<1>5. CASE CommitPack \/ CommitRecord
  <2>1. UNCHANGED <<hot, pack, lookup>> /\ mover' \in {mover, Gone} /\ Whole
      BY <1>0, <1>5 DEF CommitPack, CommitRecord, TaskInv
  <2>2. TaskInv' /\ Latest' = Latest
      BY <1>0, <2>1, GoneIsNothing DEF TaskInv, Latest, Whole, Broken
  <2> QED BY <1>0, <2>1, <2>2, TaskSteps
<1>6. CASE DropPack
  <2>1. /\ hot # Gone /\ hot' = hot /\ pack' = Gone /\ mover' = Gone /\ lookup' = lookup
      BY <1>0, <1>6 DEF DropPack, TaskInv, Whole, Broken
  <2>2. TaskInv' /\ Latest' = Latest
      BY <1>0, <2>1, GoneIsNothing DEF TaskInv, Latest, Whole, Broken
  <2> QED BY <1>0, <2>1, <2>2, TaskSteps
<1> QED BY <1>1, <1>2, <1>3, <1>4, <1>5, <1>6

\* The file comes back, and every call learns of it.
LEMMA PutBackKeeps == ASSUME LookupInv, PutBackFile PROVE LookupInv'
<1>0. TaskInv /\ Latest \in Nat
    BY LatestIsVersion DEF LookupInv
<1>1. /\ mover = "pack" /\ mover' = "pack back" /\ hot' = pack.version /\ pack' = pack
      /\ lookup' = [l \in Lookers |->
            IF lookup[l] = Gone THEN Gone ELSE [lookup[l] EXCEPT !.takenBack = TRUE]]
    BY DEF PutBackFile
<1>2. pack # Gone /\ pack \in [version : Nat, whole : BOOLEAN] /\ Latest = pack.version
    BY <1>0, <1>1, GoneIsNothing DEF TaskInv, Latest
<1>3. hot' \in Nat /\ hot' # Gone
    BY <1>1, <1>2, GoneIsNothing
<1>4. TaskInv' /\ Latest' = Latest
  <2>1. mover' # Gone /\ mover' # "record" /\ hot' = pack'.version /\ pack' # Gone
      BY <1>1, <1>2, GoneIsNothing
  <2>2. Latest' = hot'
      BY <1>3 DEF Latest
  <2>3. hot' <= hot'
      BY <1>3
  <2> QED BY <1>1, <1>2, <1>3, <2>1, <2>2, <2>3 DEF TaskInv
<1>5. ASSUME NEW l \in Lookers, lookup'[l] # Gone PROVE CallInv(l)'
  <2> DEFINE call == lookup[l]
  <2>1. call # Gone /\ lookup'[l] = [call EXCEPT !.takenBack = TRUE]
      BY <1>1, <1>5
  <2>2. CallInv(l) /\ call \in LookupCalls
      BY <2>1 DEF LookupInv, CallInv
  <2>3. /\ lookup'[l] \in LookupCalls
        /\ lookup'[l].stage = call.stage /\ lookup'[l].answer = call.answer
        /\ lookup'[l].since = call.since /\ lookup'[l].takenBack
      BY <2>1, <2>2 DEF LookupCalls
  <2> HIDE DEF call
  <2>4. lookup'[l].stage \notin {"audit", "said"} /\ pack' # Gone =>
           lookup'[l].since <= pack'.version
      BY <1>1, <2>1, <2>2, <2>3 DEF CallInv, call
  <2>5. /\ call.since <= Latest
        /\ call.stage = "audit" => call.answer \in call.since..Latest
        /\ call.stage = "said" /\ call.answer # Gone => call.answer \in call.since..Latest
      BY <2>1, <2>2 DEF CallInv, call
  <2> QED BY <1>4, <2>3, <2>4, <2>5 DEF CallInv
<1>6. lookup' = [l \in Lookers |-> lookup'[l]]
    BY <1>1
<1> QED BY <1>4, <1>5, <1>6 DEF LookupInv, CallInv

\* A call that has not found the file goes on, or repairs the index.
LEMMA CallGoesOn ==
    ASSUME LookupInv, UNCHANGED task, NEW l \in Lookers, NEW call \in LookupCalls,
           Set(l, call),
           lookup[l] # Gone, lookup[l].stage \notin {"audit", "said"},
           call.stage \notin {"audit", "said"},
           call.since = lookup[l].since, call.takenBack = lookup[l].takenBack
    PROVE  LookupInv'
<1>1. CallInv(l)
    BY DEF LookupInv
<1>2. /\ call.since <= Latest
      /\ call.takenBack \/ hot = Gone
      /\ pack # Gone => call.since <= pack.version
    BY <1>1 DEF CallInv
<1> QED BY <1>2, CallSteps

LEMMA CallBecomes ==
    ASSUME LookupInv, UNCHANGED task, NEW l \in Lookers, NEW s \in Stages,
           Become(l, s),
           lookup[l] # Gone, lookup[l].stage \notin {"audit", "said"},
           s \notin {"audit", "said"}
    PROVE  LookupInv'
<1> DEFINE call == [lookup[l] EXCEPT !.stage = s]
<1>1. lookup[l] \in LookupCalls
    BY DEF LookupInv, CallInv
<1>2. /\ call \in LookupCalls /\ call.stage = s
      /\ call.since = lookup[l].since /\ call.takenBack = lookup[l].takenBack
    BY <1>1 DEF LookupCalls
<1>3. Set(l, call)
    BY DEF Become
<1> HIDE DEF call
<1> QED BY <1>2, <1>3, CallGoesOn

LEMMA CallSays ==
    ASSUME LookupInv, UNCHANGED task, NEW l \in Lookers, NEW answer \in Nat \cup {Gone},
           Say(l, answer), lookup[l] # Gone,
           IF answer = Gone THEN lookup[l].takenBack ELSE answer \in lookup[l].since..Latest
    PROVE  LookupInv'
<1> DEFINE call == [lookup[l] EXCEPT !.stage = "said", !.answer = answer]
<1>1. CallInv(l) /\ lookup[l] \in LookupCalls
    BY DEF LookupInv, CallInv
<1>2. /\ call \in LookupCalls /\ call.stage = "said" /\ call.answer = answer
      /\ call.since = lookup[l].since /\ call.takenBack = lookup[l].takenBack
  <2>1. answer \in Answers /\ "said" \in Stages
      BY AnswersAre DEF Stages
  <2> QED BY <1>1, <2>1 DEF LookupCalls
<1>3. Set(l, call)
    BY DEF Say
<1>4. call.since <= Latest
    BY <1>1, <1>2 DEF CallInv
<1> HIDE DEF call
<1> QED BY <1>2, <1>3, <1>4, CallSteps

LEMMA CallEnds ==
    ASSUME LookupInv, UNCHANGED task, NEW l \in Lookers, Set(l, Gone)
    PROVE  LookupInv'
BY CallSteps

LEMMA LookerKeeps ==
    ASSUME LookupInv, NEW l \in Lookers,
           \/ LookHot(l) \/ Audit(l)
           \/ CompareTree(l) \/ CompareWorktree(l) \/ TakeLease(l)
           \/ ScanHot(l) \/ ScanPacks(l) \/ FillRows(l)
           \/ ReadIndex(l) \/ ReadManifests(l) \/ ReadIndexAgain(l) \/ ReadPack(l) \/ ReadLast(l)
           \/ EndLookup(l)
    PROVE  LookupInv'
<1>0. TaskInv /\ Latest \in Nat
    BY LatestIsVersion DEF LookupInv
<1>1. lookup[l] # Gone => CallInv(l) /\ lookup[l] \in LookupCalls
    BY DEF LookupInv, CallInv
<1>2. CASE LookHot(l)
  <2> DEFINE call == [stage |-> IF hot # Gone THEN "audit" ELSE "identity", answer |-> hot,
                      since |-> Latest, then |-> "entry", takenBack |-> FALSE]
  <2>1. UNCHANGED task /\ Set(l, call)
      BY <1>2 DEF LookHot
  <2>2. call \in LookupCalls
    <3>1. hot \in Answers
        BY <1>0, AnswersAre DEF TaskInv
    <3> QED BY <1>0, <3>1 DEF LookupCalls, Stages
  <2>3. call.since <= Latest
      BY <1>0
  <2>4. call.stage = "audit" => call.answer \in call.since..Latest
      BY <1>0 DEF Latest
  <2>5. call.stage \notin {"audit", "said"} =>
           /\ call.takenBack \/ hot = Gone
           /\ pack # Gone => call.since <= pack.version
      BY <1>0 DEF Latest
  <2>6. call.stage # "said"
      OBVIOUS
  <2> HIDE DEF call
  <2> QED BY <2>1, <2>2, <2>3, <2>4, <2>5, <2>6, CallSteps
<1>3. CASE Audit(l)
  <2>1. /\ UNCHANGED task /\ lookup[l] # Gone /\ lookup[l].stage = "audit"
        /\ Set(l, Gone) \/ Say(l, lookup[l].answer)
      BY <1>3 DEF Audit, In, Refuse
  <2>2. lookup[l].answer \in lookup[l].since..Latest /\ lookup[l].since \in Nat
      BY <1>1, <2>1 DEF CallInv, LookupCalls
  <2>3. lookup[l].answer \in Nat
      BY <1>0, <2>2
  <2> QED BY <2>1, <2>2, <2>3, GoneIsNothing, CallSays, CallEnds
<1>4. CASE CompareTree(l)
    BY <1>4, CallBecomes DEF CompareTree, In, task, Stages
<1>5. CASE CompareWorktree(l)
    BY <1>5, CallBecomes DEF CompareWorktree, In, Stages
<1>6. CASE TakeLease(l)
    BY <1>6, CallBecomes DEF TakeLease, In, Stages
<1>7. CASE ScanHot(l)
  <2> DEFINE call == [lookup[l] EXCEPT !.stage = "scan", !.answer = hot]
  <2>1. /\ UNCHANGED task /\ lookup[l] # Gone /\ lookup[l].stage = "rebuild" /\ Set(l, call)
      BY <1>7 DEF ScanHot, In
  <2>2. /\ call \in LookupCalls /\ call.stage = "scan"
        /\ call.since = lookup[l].since /\ call.takenBack = lookup[l].takenBack
    <3>1. hot \in Answers
        BY <1>0, AnswersAre DEF TaskInv
    <3> QED BY <1>1, <2>1, <3>1 DEF LookupCalls, Stages
  <2> HIDE DEF call
  <2> QED BY <2>1, <2>2, CallGoesOn
<1>8. CASE ScanPacks(l)
  <2> DEFINE call == [lookup[l] EXCEPT !.stage = "fill", !.answer = Whole]
  <2>1. /\ UNCHANGED task /\ lookup[l] # Gone /\ lookup[l].stage = "scan"
        /\ Set(l, Gone) \/ Set(l, call)
      BY <1>8 DEF ScanPacks, In, Refuse
  <2>2. Whole \in Answers
    <3>1. Whole \in BOOLEAN
        BY <1>0 DEF Whole, TaskInv
    <3> QED BY <3>1, AnswersAre
  <2>3. /\ call \in LookupCalls /\ call.stage = "fill"
        /\ call.since = lookup[l].since /\ call.takenBack = lookup[l].takenBack
      BY <1>1, <2>1, <2>2 DEF LookupCalls, Stages
  <2> HIDE DEF call
  <2> QED BY <2>1, <2>3, CallGoesOn, CallEnds
<1>9. CASE FillRows(l)
  <2>1. lookup[l] # Gone /\ lookup[l].then \in {"entry", "again", "last"}
      BY <1>1, <1>9 DEF FillRows, In, LookupCalls
  <2> QED BY <1>9, <2>1, CallBecomes DEF FillRows, In, Stages
<1>10. CASE ReadIndex(l)
    BY <1>10, CallBecomes DEF ReadIndex, In, Stages
<1>11. CASE ReadManifests(l)
  <2> DEFINE call == [lookup[l] EXCEPT !.stage = "repair", !.then = "again"]
  <2>1. /\ UNCHANGED task /\ lookup[l] # Gone /\ lookup[l].stage = "inventory"
        /\ Set(l, Gone) \/ Set(l, call) \/ (pack = Gone /\ Say(l, Gone))
      BY <1>11 DEF ReadManifests, In, Refuse, Whole, Broken
  <2>2. /\ call \in LookupCalls /\ call.stage = "repair"
        /\ call.since = lookup[l].since /\ call.takenBack = lookup[l].takenBack
      BY <1>1, <2>1 DEF LookupCalls, Stages
  <2> HIDE DEF call
  <2>3. pack = Gone => lookup[l].takenBack
      BY <1>0, <1>1, <2>1 DEF CallInv, TaskInv, Whole
  <2> QED BY <2>1, <2>2, <2>3, CallGoesOn, CallSays, CallEnds
<1>12. CASE ReadIndexAgain(l)
    BY <1>12, CallBecomes, CallEnds DEF ReadIndexAgain, In, Refuse, Stages
<1>13. ASSUME Whole, lookup[l] # Gone, lookup[l].stage \notin {"audit", "said"}
       PROVE  /\ pack.version \in Nat /\ pack.version # Gone
              /\ pack.version \in lookup[l].since..Latest
  <2>1. pack # Gone /\ pack.version \in Nat
      BY <1>0, <1>13 DEF TaskInv, Whole
  <2>2. pack.version <= Latest
    <3>1. CASE hot = Gone
        BY <2>1, <3>1 DEF Latest
    <3>2. CASE hot # Gone
        BY <1>0, <2>1, <3>2 DEF Latest, TaskInv
    <3> QED BY <3>1, <3>2
  <2>3. lookup[l].since \in Nat /\ lookup[l].since <= pack.version
      BY <1>1, <1>13, <2>1 DEF CallInv, LookupCalls
  <2>4. pack.version # Gone
      BY <2>1, GoneIsNothing
  <2>5. pack.version \in lookup[l].since..Latest
      BY <1>0, <2>1, <2>2, <2>3
  <2> QED BY <2>1, <2>4, <2>5
<1>14. CASE ReadPack(l)
  <2> DEFINE call == [lookup[l] EXCEPT !.stage = "repair", !.then = "last"]
  <2>1. /\ UNCHANGED task /\ lookup[l] # Gone /\ lookup[l].stage = "read"
        /\ Set(l, call) \/ (Whole /\ Say(l, pack.version))
      BY <1>14 DEF ReadPack, In
  <2>2. /\ call \in LookupCalls /\ call.stage = "repair"
        /\ call.since = lookup[l].since /\ call.takenBack = lookup[l].takenBack
      BY <1>1, <2>1 DEF LookupCalls, Stages
  <2> HIDE DEF call
  <2> QED BY <1>13, <2>1, <2>2, CallGoesOn, CallSays
<1>15. CASE ReadLast(l)
    BY <1>13, <1>15, CallSays, CallEnds DEF ReadLast, In, Refuse
<1>16. CASE EndLookup(l)
    BY <1>16, CallEnds DEF EndLookup
<1> QED BY <1>2, <1>3, <1>4, <1>5, <1>6, <1>7, <1>8, <1>9, <1>10, <1>11, <1>12, <1>14,
           <1>15, <1>16

LEMMA LookupKeeps == LookupInv /\ [LookupNext]_lookupVars => LookupInv'
<1> SUFFICES ASSUME LookupInv, [LookupNext]_lookupVars PROVE LookupInv'
    OBVIOUS
<1>1. CASE UNCHANGED lookupVars
    BY <1>1 DEF lookupVars, LookupInv, TaskInv, CallInv, Whole, Broken, Latest
<1> QED BY <1>1, TaskKeeps, PutBackKeeps, LookerKeeps DEF LookupNext

\* A lookup answers with what the task was at some time of the call; it misses the
\* task only when an archive-pack took its move back during the call.
THEOREM LookupSafe == LookupSpec => []AnswersAreTrue
<1>1. LookupInv => AnswersAreTrue
    BY DEF LookupInv, CallInv, AnswersAreTrue, In
<1> QED BY <1>1, LookupStarts, LookupKeeps, PTL DEF LookupSpec

---------------------------------------------------------------------------
(* Host *)

LEMMA MaxOfRange == \A m \in Nat, n \in Nat : m <= n => Max(m..n) = n /\ Min(m..n) = m
BY DEF Max, Min

LEMMA RangeHasFirst == \A n \in Nat : n >= 1 => 1 \in 1..n /\ 1..n # {}
OBVIOUS

\* The hot manifests end at the latest revision; some are gone only once the pack
\* is whole.  The events are complete, up to a revision under way, as long as there
\* is a manifest.
ArtifactInv ==
    /\ Serves \in Nat \ {0}
    /\ keeper \in {"free", "revise", "archive"}
    /\ packWhole \in BOOLEAN /\ (packWhole => keeper = "archive")
    /\ \E m \in 1..Serves + 1 : manifests = m..Serves /\ (~packWhole => m = 1)
    /\ keeper = "free" => sealedAt = 0 /\ eventFiles = 1..Serves
    /\ keeper = "revise" => sealedAt = 0 /\ Serves >= 2 /\ eventFiles = 1..Serves - 1
    /\ keeper = "archive" => sealedAt = Serves /\ eventFiles \subseteq 1..Serves
                             /\ (manifests # {} => eventFiles = 1..Serves)

Requests == [stage : {"tiers", "body", "sent"}, wants : {"record", "content", "history"},
             read : {{}, {"hot"}, {"hot", "cold"}}, hot : Nat, cold : Nat, tag : Nat,
             body : SUBSET Nat, seen : SUBSET Nat, removed : BOOLEAN]

\* What a request has read: a hot revision that was the latest, or none because the
\* pack is whole; and what it sends.
RequestInv(r) ==
    /\ r \in Requests
    /\ IsFiniteSet(r.seen) /\ Serves \in r.seen
    /\ r.hot # 0 => r.hot \in r.seen /\ (r.removed \/ r.hot \in manifests)
    /\ "hot" \in r.read /\ r.hot = 0 => manifests = {}
    /\ r.cold # 0 => packWhole /\ r.cold = sealedAt
    /\ "cold" \in r.read /\ r.hot = 0 => r.cold # 0
    /\ r.stage # "tiers" => r.tag \in r.seen
    /\ r.stage = "body" => \/ r.hot # 0 /\ r.cold = 0 /\ r.tag = r.hot
                           \/ r.hot = 0 /\ r.cold # 0 /\ r.tag = r.cold
    /\ r.stage = "sent" /\ r.wants = "content" => \E b \in r.seen : r.body = {b}
    /\ r.stage = "sent" /\ r.wants = "history" /\ ~r.removed =>
          1..r.tag - 1 \subseteq r.body /\ \A n \in r.body : \E latest \in r.seen : n <= latest

HostInv ==
    /\ ArtifactInv
    /\ reply = [h \in Threads |-> reply[h]]
    /\ \A h \in Threads : reply[h] # NoReply => RequestInv(reply[h])

\* No manifest: all of them are in the pack.
LEMMA ArtifactIs ==
    ASSUME ArtifactInv
    PROVE  /\ manifests = {} => packWhole /\ sealedAt = Serves
           /\ manifests # {} => Serves \in manifests /\ Newest = Serves
           /\ manifests \subseteq 1..Serves
           /\ ~packWhole => manifests = 1..Serves
<1>1. PICK m \in 1..Serves + 1 : manifests = m..Serves /\ (~packWhole => m = 1)
    BY DEF ArtifactInv
<1>2. Serves \in Nat \ {0} /\ packWhole \in BOOLEAN
    BY DEF ArtifactInv
<1>3. ~packWhole => manifests = 1..Serves
    BY <1>1
<1>4. manifests = {} => packWhole
    BY <1>2, <1>3
<1>5. manifests = {} => sealedAt = Serves
    BY DEF Serves
<1>6. manifests # {} => Serves \in manifests
    BY <1>1, <1>2
<1>7. manifests # {} => Newest = Serves
    BY DEF Serves
<1> QED BY <1>1, <1>2, <1>3, <1>4, <1>5, <1>6, <1>7

LEMMA HostStarts == HostInit => HostInv
<1> SUFFICES ASSUME HostInit PROVE HostInv
    OBVIOUS
<1>1. /\ manifests = {1} /\ eventFiles = {1} /\ sealedAt = 0 /\ packWhole = FALSE
      /\ keeper = "free" /\ reply = [h \in Threads |-> NoReply]
    BY DEF HostInit
<1>2. {1} = 1..1
    OBVIOUS
<1>3. Serves = 1
  <2>1. Max({1}) = 1
      BY DEF Max
  <2> QED BY <1>1, <2>1 DEF Serves, Newest
<1>4. \E m \in 1..Serves + 1 : manifests = m..Serves /\ (~packWhole => m = 1)
    BY <1>1, <1>2, <1>3
<1>5. ArtifactInv
  <2>1. Serves \in Nat \ {0} /\ eventFiles = 1..Serves
      BY <1>1, <1>2, <1>3
  <2> QED BY <1>1, <1>4, <2>1 DEF ArtifactInv
<1> QED BY <1>1, <1>5 DEF HostInv

\* A request that takes no step stays as good as it is, when the Artifact takes one
\* that it learns of.
LEMMA RequestStays ==
    ASSUME NEW r, RequestInv(r), NEW seen, NEW removed \in BOOLEAN,
           Serves' \in Nat, seen = r.seen \/ seen = r.seen \cup {Serves'}, Serves' \in seen,
           r.removed => removed,
           removed \/ manifests \subseteq manifests',
           manifests = {} => manifests' = {},
           packWhole => packWhole' /\ sealedAt' = sealedAt
    PROVE  RequestInv([r EXCEPT !.seen = seen, !.removed = removed])'
<1> DEFINE s == [r EXCEPT !.seen = seen, !.removed = removed]
<1>1. r \in Requests /\ IsFiniteSet(r.seen)
    BY DEF RequestInv
<1>2. r.seen \subseteq seen /\ seen \in SUBSET Nat
    BY <1>1 DEF Requests
<1>3. IsFiniteSet(seen)
    BY <1>1, FS_AddElement
<1>4. /\ s \in Requests
      /\ s.stage = r.stage /\ s.wants = r.wants /\ s.read = r.read /\ s.hot = r.hot
      /\ s.cold = r.cold /\ s.tag = r.tag /\ s.body = r.body
      /\ s.seen = seen /\ s.removed = removed
    BY <1>1, <1>2 DEF Requests
<1> HIDE DEF s
<1>5. s.hot # 0 => s.hot \in s.seen /\ (s.removed \/ s.hot \in manifests')
    BY <1>2, <1>4 DEF RequestInv
<1>6. /\ "hot" \in s.read /\ s.hot = 0 => manifests' = {}
      /\ s.cold # 0 => packWhole' /\ s.cold = sealedAt'
      /\ "cold" \in s.read /\ s.hot = 0 => s.cold # 0
      /\ s.stage # "tiers" => s.tag \in s.seen
      /\ s.stage = "body" => \/ s.hot # 0 /\ s.cold = 0 /\ s.tag = s.hot
                             \/ s.hot = 0 /\ s.cold # 0 /\ s.tag = s.cold
    BY <1>2, <1>4 DEF RequestInv
<1>7. s.stage = "sent" /\ s.wants = "content" => \E b \in s.seen : s.body = {b}
    BY <1>2, <1>4 DEF RequestInv
<1>8. s.stage = "sent" /\ s.wants = "history" /\ ~s.removed =>
         1..s.tag - 1 \subseteq s.body /\ \A n \in s.body : \E latest \in s.seen : n <= latest
    BY <1>2, <1>4 DEF RequestInv
<1>9. RequestInv(s)'
    BY <1>3, <1>4, <1>5, <1>6, <1>7, <1>8 DEF RequestInv
<1> QED BY <1>9 DEF s

\* Every step of the Artifact is one of these for its readers.
LEMMA ReadersLearn ==
    ASSUME HostInv, ArtifactInv', NEW removed \in BOOLEAN,
           Witness(Serves', removed) \/ (reply' = reply /\ Serves' = Serves),
           (removed /\ Witness(Serves', removed)) \/ manifests \subseteq manifests',
           manifests = {} => manifests' = {},
           packWhole => packWhole' /\ sealedAt' = sealedAt
    PROVE  HostInv'
<1>0. Serves' \in Nat
    BY DEF ArtifactInv
<1>1. CASE Witness(Serves', removed)
  <2>1. reply' = [h \in Threads |->
            IF reply[h] = NoReply THEN NoReply
            ELSE [reply[h] EXCEPT !.seen = @ \cup {Serves'}, !.removed = @ \/ removed]]
      BY <1>1 DEF Witness
  <2>2. ASSUME NEW h \in Threads, reply'[h] # NoReply PROVE RequestInv(reply[h])'
    <3>0. PICK r : r = reply[h]
        OBVIOUS
    <3>1. r # NoReply /\ reply'[h] = [r EXCEPT !.seen = @ \cup {Serves'}, !.removed = @ \/ removed]
        BY <2>1, <2>2, <3>0
    <3>2. RequestInv(r) /\ r.removed \in BOOLEAN
        BY <3>0, <3>1 DEF HostInv, RequestInv, Requests
    <3>3. PICK seen, gone : seen = r.seen \cup {Serves'} /\ gone = (r.removed \/ removed)
        OBVIOUS
    <3>4. /\ gone \in BOOLEAN /\ (r.removed => gone) /\ (gone \/ manifests \subseteq manifests')
          /\ Serves' \in seen
        BY <3>2, <3>3
    <3>5. reply'[h] = [r EXCEPT !.seen = seen, !.removed = gone]
        BY <3>1, <3>3
    <3>6. RequestInv([r EXCEPT !.seen = seen, !.removed = gone])'
        BY <1>0, <3>2, <3>3, <3>4, RequestStays
    <3> QED BY <3>5, <3>6
  <2>3. reply' = [h \in Threads |-> reply'[h]]
      BY <2>1
  <2> QED BY <2>2, <2>3 DEF HostInv
<1>2. CASE reply' = reply /\ Serves' = Serves /\ manifests \subseteq manifests'
  <2>1. ASSUME NEW h \in Threads, reply[h] # NoReply PROVE RequestInv(reply[h])'
    <3>0. PICK r : r = reply[h]
        OBVIOUS
    <3>1. RequestInv(r) /\ r \in Requests /\ r.removed \in BOOLEAN
        BY <2>1, <3>0 DEF HostInv, RequestInv, Requests
    <3>2. r = [r EXCEPT !.seen = r.seen, !.removed = r.removed]
        BY <3>1 DEF Requests
    <3>3. Serves' \in r.seen
        BY <1>2, <3>1 DEF RequestInv
    <3>4. RequestInv([r EXCEPT !.seen = r.seen, !.removed = r.removed])'
        BY <1>0, <1>2, <3>1, <3>3, RequestStays
    <3> QED BY <1>2, <3>0, <3>2, <3>4
  <2> QED BY <1>2, <2>1 DEF HostInv
<1> QED BY <1>1, <1>2

\* The steps of the Artifact.
LEMMA ArtifactKeeps ==
    ASSUME HostInv, WriteManifest \/ EndRevise \/ BeginPack \/ EndPack \/ Unlink
    PROVE  HostInv'
<1>0. ArtifactInv /\ Serves \in Nat \ {0}
    BY DEF HostInv, ArtifactInv
<1>1. CASE WriteManifest
  <2> DEFINE n == Serves
  <2>1. /\ keeper = "free" /\ sealedAt = 0 /\ ~packWhole /\ manifests = 1..n /\ Newest = n
      BY <1>0, <1>1, ArtifactIs DEF WriteManifest, ArtifactInv
  <2>2. /\ manifests' = 1..n + 1 /\ keeper' = "revise" /\ Witness(n + 1, FALSE)
        /\ eventFiles' = 1..n /\ sealedAt' = 0 /\ packWhole' = packWhole
    <3>1. manifests' = manifests \cup {n + 1} /\ Witness(n + 1, FALSE) /\ keeper' = "revise"
        BY <1>1, <2>1 DEF WriteManifest
    <3>2. UNCHANGED <<eventFiles, sealedAt, packWhole>> /\ eventFiles = 1..n
        BY <1>0, <1>1, <2>1 DEF WriteManifest, ArtifactInv
    <3>3. 1..n \cup {n + 1} = 1..n + 1
        BY <1>0
    <3> QED BY <2>1, <3>1, <3>2, <3>3
  <2>3. Serves' = n + 1
    <3>1. Max(1..n + 1) = n + 1 /\ 1..n + 1 # {}
        BY <1>0, MaxOfRange
    <3> QED BY <2>2, <3>1 DEF Serves, Newest
  <2>4. ArtifactInv'
      BY <1>0, <2>1, <2>2, <2>3 DEF ArtifactInv
  <2>5. manifests \subseteq manifests' /\ manifests # {}
    <3>1. 1..n \subseteq 1..n + 1 /\ 1..n # {}
        BY <1>0, RangeHasFirst
    <3> QED BY <2>1, <2>2, <3>1
  <2> QED BY <2>1, <2>2, <2>3, <2>4, <2>5, ReadersLearn
<1>2. CASE EndRevise
  <2> DEFINE n == Serves
  <2>1. /\ keeper = "revise" /\ sealedAt = 0 /\ ~packWhole /\ manifests = 1..n /\ Newest = n
        /\ n >= 2 /\ eventFiles = 1..n - 1
      BY <1>0, <1>2, ArtifactIs DEF EndRevise, ArtifactInv
  <2>2. keeper' = "free" /\ sealedAt' = 0 /\ packWhole' = packWhole
      BY <1>2, <2>1 DEF EndRevise
  <2>3. CASE eventFiles' = eventFiles \cup {Newest} /\ UNCHANGED <<manifests, reply>>
    <3>1. Serves' = n
        BY <2>1, <2>2, <2>3 DEF Serves, Newest
    <3>2. eventFiles' = 1..n
        BY <1>0, <2>1, <2>3
    <3>3. ArtifactInv'
        BY <1>0, <2>1, <2>2, <2>3, <3>1, <3>2 DEF ArtifactInv
    <3> QED BY <2>1, <2>3, <3>1, <3>3, ReadersLearn
  <2>4. CASE manifests' = manifests \ {Newest} /\ UNCHANGED eventFiles /\ Witness(Newest - 1, TRUE)
    <3>1. manifests' = 1..n - 1
        BY <1>0, <2>1, <2>4
    <3>2. Serves' = n - 1
      <4>1. Max(1..n - 1) = n - 1 /\ 1..n - 1 # {}
          BY <1>0, <2>1, MaxOfRange
      <4> QED BY <3>1, <4>1 DEF Serves, Newest
    <3>3. ArtifactInv'
        BY <1>0, <2>1, <2>2, <2>4, <3>1, <3>2 DEF ArtifactInv
    <3>4. Witness(Serves', TRUE) /\ manifests # {}
      <4>1. 1..n # {}
          BY <1>0, <2>1, RangeHasFirst
      <4> QED BY <2>1, <2>4, <3>2, <4>1
    <3> QED BY <2>1, <3>3, <3>4, ReadersLearn
  <2> QED BY <1>2, <2>3, <2>4 DEF EndRevise
<1>3. CASE BeginPack
  <2> DEFINE n == Serves
  <2>1. /\ keeper = "free" /\ ~packWhole /\ manifests = 1..n /\ Newest = n /\ eventFiles = 1..n
      BY <1>0, <1>3, ArtifactIs DEF BeginPack, ArtifactInv
  <2>2. /\ keeper' = "archive" /\ sealedAt' = n
        /\ UNCHANGED <<manifests, eventFiles, packWhole, reply>>
      BY <1>3, <2>1 DEF BeginPack
  <2>3. Serves' = n /\ manifests # {}
    <3>1. manifests # {}
        BY <1>0, <2>1, RangeHasFirst
    <3> QED BY <2>1, <2>2, <3>1 DEF Serves, Newest
  <2>4. ArtifactInv'
      BY <1>0, <2>1, <2>2, <2>3 DEF ArtifactInv
  <2> QED BY <2>1, <2>2, <2>3, <2>4, ReadersLearn
<1>4. CASE EndPack
  <2> DEFINE n == Serves
  <2>1. /\ keeper = "archive" /\ ~packWhole /\ manifests = 1..n /\ Newest = n
        /\ sealedAt = n /\ eventFiles = 1..n /\ manifests # {}
      BY <1>0, <1>4, ArtifactIs DEF EndPack, Torn, ArtifactInv
  <2>2. /\ UNCHANGED <<manifests, eventFiles, reply>>
        /\ \/ packWhole' = TRUE /\ sealedAt' = n /\ keeper' = keeper
           \/ sealedAt' = 0 /\ keeper' = "free" /\ packWhole' = packWhole
      BY <1>4, <2>1 DEF EndPack
  <2>3. Serves' = n
      BY <2>1, <2>2 DEF Serves, Newest
  <2>4. \E m \in 1..n + 1 : manifests = m..n /\ m = 1
      BY <1>0, <2>1
  <2>5. \E m \in 1..Serves' + 1 : manifests' = m..Serves' /\ (~packWhole' => m = 1)
      BY <1>0, <2>1, <2>2, <2>3, <2>4
  <2>6. /\ packWhole' \in BOOLEAN /\ (packWhole' => keeper' = "archive")
        /\ Serves' \in Nat \ {0} /\ eventFiles' = 1..Serves' /\ eventFiles' \subseteq 1..Serves'
        /\ keeper' = "archive" => sealedAt' = Serves'
        /\ keeper' = "free" => sealedAt' = 0
        /\ keeper' \in {"free", "archive"}
    <3>1. /\ Serves' \in Nat \ {0}
          /\ eventFiles' = 1..Serves' /\ eventFiles' \subseteq 1..Serves'
        BY <1>0, <2>1, <2>2, <2>3
    <3>2. CASE packWhole' = TRUE /\ sealedAt' = n /\ keeper' = keeper
        BY <2>1, <2>3, <3>1, <3>2
    <3>3. CASE sealedAt' = 0 /\ keeper' = "free" /\ packWhole' = packWhole
        BY <1>0, <2>1, <2>3, <3>1, <3>3 DEF ArtifactInv
    <3> QED BY <2>2, <3>2, <3>3
  <2>7. ArtifactInv'
      BY <2>5, <2>6 DEF ArtifactInv
  <2> QED BY <2>1, <2>2, <2>3, <2>7, ReadersLearn
<1>5. CASE Unlink
  <2> DEFINE n == Serves
  <2>1. /\ keeper = "archive" /\ packWhole /\ sealedAt = n /\ eventFiles \subseteq 1..n
        /\ manifests # {} => eventFiles = 1..n
      BY <1>0, <1>5 DEF Unlink, ArtifactInv
  <2>2. /\ UNCHANGED <<sealedAt, packWhole, keeper>>
        /\ Witness(IF manifests' = {} THEN sealedAt ELSE Newest, TRUE)
      BY <1>5 DEF Unlink
  <2>3. PICK m \in 1..n + 1 : manifests = m..n
      BY <1>0 DEF ArtifactInv
  <2>4. CASE manifests # {}
    <3>1. /\ m <= n /\ Newest = n /\ Min(manifests) = m
        BY <1>0, <2>3, <2>4, ArtifactIs, MaxOfRange
    <3>2. manifests' = m + 1..n /\ eventFiles' = eventFiles
      <4>1. manifests' = manifests \ {m} /\ eventFiles' = eventFiles
          BY <1>5, <2>4, <3>1 DEF Unlink
      <4> QED BY <1>0, <2>3, <3>1, <4>1
    <3>3. Serves' = n
      <4>1. CASE manifests' = {}
          BY <2>1, <2>2, <4>1 DEF Serves
      <4>2. CASE manifests' # {}
        <5>1. m + 1 <= n
            BY <1>0, <3>1, <3>2, <4>2
        <5>2. Max(m + 1..n) = n
            BY <1>0, <2>3, <5>1, MaxOfRange
        <5> QED BY <3>2, <4>2, <5>2 DEF Serves, Newest
      <4> QED BY <4>1, <4>2
    <3>4. Witness(Serves', TRUE)
        BY <2>1, <2>2, <3>1, <3>3
    <3>5. \E k \in 1..n + 1 : manifests' = k..n
        BY <1>0, <2>3, <3>1, <3>2
    <3>6. ArtifactInv'
        BY <1>0, <2>1, <2>2, <2>4, <3>2, <3>3, <3>5 DEF ArtifactInv
    <3> QED BY <2>2, <2>4, <3>4, <3>6, ReadersLearn
  <2>5. CASE manifests = {}
    <3>1. manifests' = {} /\ eventFiles' \subseteq eventFiles
        BY <1>5, <2>5 DEF Unlink
    <3>2. Serves' = n
        BY <2>1, <2>2, <3>1 DEF Serves
    <3>3. Witness(Serves', TRUE)
        BY <2>1, <2>2, <3>1, <3>2
    <3>4. ArtifactInv'
        BY <1>0, <2>1, <2>2, <2>3, <2>5, <3>1, <3>2 DEF ArtifactInv
    <3> QED BY <2>2, <2>5, <3>1, <3>3, <3>4, ReadersLearn
  <2> QED BY <2>4, <2>5
<1> QED BY <1>1, <1>2, <1>3, <1>4, <1>5

\* One tier after the other.
LEMMA TierCounts ==
    /\ Cardinality({}) = 0 /\ Cardinality({"hot"}) = 1 /\ Cardinality({"hot", "cold"}) = 2
    /\ TierOrder[1] = "hot" /\ TierOrder[2] = "cold"
<1>1. Cardinality({}) = 0
    BY FS_EmptySet
<1>2. Cardinality({"hot"}) = 1 /\ IsFiniteSet({"hot"})
    BY FS_Singleton
<1>3. Cardinality({"hot"} \cup {"cold"}) = Cardinality({"hot"}) + 1
  <2>1. "cold" \notin {"hot"}
      OBVIOUS
  <2> QED BY <1>2, <2>1, FS_AddElement
<1>4. {"hot"} \cup {"cold"} = {"hot", "cold"}
    OBVIOUS
<1>5. Cardinality({"hot", "cold"}) = 1 + 1
    BY <1>2, <1>3, <1>4
<1>6. TierOrder[1] = "hot" /\ TierOrder[2] = "cold"
    BY DEF TierOrder
<1> QED BY <1>1, <1>2, <1>5, <1>6

\* A step of one request: the Artifact and the other requests are as they were.
LEMMA RequestSteps ==
    ASSUME HostInv, Quiet, NEW h \in Threads, NEW r,
           reply' = [reply EXCEPT ![h] = r],
           r # NoReply => RequestInv(r)
    PROVE  HostInv'
<1>1. ArtifactInv'
    BY DEF HostInv, ArtifactInv, Quiet, Serves, Newest
<1>2. \A k \in Threads : reply'[k] = IF k = h THEN r ELSE reply[k]
    BY DEF HostInv
<1>3. \A q : RequestInv(q) => RequestInv(q)'
    BY DEF RequestInv, Quiet, Serves, Newest
<1>4. \A k \in Threads : reply'[k] # NoReply => RequestInv(reply[k])'
    BY <1>2, <1>3 DEF HostInv
<1>5. reply' = [k \in Threads |-> reply'[k]]
    BY DEF HostInv
<1> QED BY <1>1, <1>4, <1>5 DEF HostInv

LEMMA RequestKeeps ==
    ASSUME HostInv, NEW h \in Threads,
           \/ StartRequest(h) \/ ReadTier(h) \/ Resolve(h)
           \/ ReadContent(h) \/ ReadHistory(h) \/ EndRequest(h)
    PROVE  HostInv'
<1>0. ArtifactInv /\ Serves \in Nat \ {0}
    BY DEF HostInv, ArtifactInv
<1>1. CASE StartRequest(h)
  <2>1. PICK wants \in {"record", "content", "history"} :
           reply' = [reply EXCEPT ![h] =
             [stage |-> "tiers", wants |-> wants, read |-> {}, hot |-> 0, cold |-> 0,
              tag |-> 0, body |-> {}, seen |-> {Serves}, removed |-> FALSE]]
      BY <1>1 DEF StartRequest
  <2>2. PICK r : r = [stage |-> "tiers", wants |-> wants, read |-> {}, hot |-> 0, cold |-> 0,
                      tag |-> 0, body |-> {}, seen |-> {Serves}, removed |-> FALSE]
      OBVIOUS
  <2>3. r \in Requests /\ IsFiniteSet(r.seen)
      BY <1>0, <2>2, FS_Singleton DEF Requests
  <2>4. RequestInv(r)
      BY <2>2, <2>3 DEF RequestInv
  <2> QED BY <1>1, <2>1, <2>2, <2>4, RequestSteps DEF StartRequest, Quiet
<1>2. CASE ReadTier(h)
  <2>0. PICK r : r = reply[h]
      OBVIOUS
  <2>1. RequestInv(r) /\ r \in Requests /\ r.stage = "tiers" /\ Quiet
      BY <1>2, <2>0 DEF ReadTier, Doing, HostInv, RequestInv
  <2>2. r.read = {} \/ r.read = {"hot"}
    <3>1. Cardinality(r.read) < 2
        BY <1>2, <2>0 DEF ReadTier
    <3>2. r.read # {"hot", "cold"}
        BY <3>1, TierCounts
    <3> QED BY <2>1, <3>2 DEF Requests
  <2>3. CASE r.read = {}
    <3>1. TierOrder[Cardinality(r.read) + 1] = "hot"
      <4>1. Cardinality(r.read) + 1 = 1
          BY <2>3, TierCounts
      <4> QED BY <4>1, TierCounts
    <3>2. PICK s : s = [r EXCEPT !.read = @ \cup {"hot"}, !.hot = Newest]
        OBVIOUS
    <3>3. reply' = [reply EXCEPT ![h] = s]
      <4> DEFINE tier == TierOrder[Cardinality(reply[h].read) + 1]
      <4> DEFINE next == IF tier = "hot" THEN [reply[h] EXCEPT !.read = @ \cup {tier}, !.hot = Newest]
                         ELSE IF Torn THEN NoReply
                         ELSE [reply[h] EXCEPT !.read = @ \cup {tier}, !.cold = sealedAt]
      <4>0. reply' = [reply EXCEPT ![h] = next]
          BY <1>2 DEF ReadTier
      <4>2. tier = "hot"
          BY <2>0, <3>1
      <4> HIDE DEF tier
      <4>3. [reply[h] EXCEPT !.read = @ \cup {tier}, !.hot = Newest] = s
          BY <2>0, <3>2, <4>2
      <4>4. next = s
          BY <4>2, <4>3
      <4> HIDE DEF next
      <4> QED BY <4>0, <4>4
    <3>4. Newest = 0 \/ Newest = Serves
        BY <1>0, ArtifactIs DEF Newest
    <3>5. /\ s \in Requests /\ s.stage = "tiers" /\ s.read = {"hot"} /\ s.hot = Newest
          /\ s.cold = r.cold /\ s.seen = r.seen
      <4>1. Newest \in Nat /\ r.read \cup {"hot"} = {"hot"}
          BY <1>0, <2>3, <3>4
      <4> QED BY <2>1, <3>2, <4>1 DEF Requests
    <3>6. Newest = 0 => manifests = {}
        BY <1>0, ArtifactIs
    <3>7. Newest # 0 => Newest \in manifests
        BY <1>0, ArtifactIs DEF Newest
    <3>8. RequestInv(s)
        BY <2>1, <3>4, <3>5, <3>6, <3>7 DEF RequestInv
    <3> QED BY <2>1, <3>3, <3>8, RequestSteps
  <2>4. CASE r.read = {"hot"}
    <3>1. TierOrder[Cardinality(r.read) + 1] = "cold"
      <4>1. Cardinality(r.read) + 1 = 2
          BY <2>4, TierCounts
      <4> QED BY <4>1, TierCounts
    <3>2. PICK s : s = [r EXCEPT !.read = @ \cup {"cold"}, !.cold = sealedAt]
        OBVIOUS
    <3>3. \/ reply' = [reply EXCEPT ![h] = NoReply]
          \/ reply' = [reply EXCEPT ![h] = s] /\ ~Torn
      <4> DEFINE tier == TierOrder[Cardinality(reply[h].read) + 1]
      <4> DEFINE next == IF tier = "hot" THEN [reply[h] EXCEPT !.read = @ \cup {tier}, !.hot = Newest]
                         ELSE IF Torn THEN NoReply
                         ELSE [reply[h] EXCEPT !.read = @ \cup {tier}, !.cold = sealedAt]
      <4>0. reply' = [reply EXCEPT ![h] = next]
          BY <1>2 DEF ReadTier
      <4>2. tier = "cold"
          BY <2>0, <3>1
      <4> HIDE DEF tier
      <4>3. [reply[h] EXCEPT !.read = @ \cup {tier}, !.cold = sealedAt] = s
          BY <2>0, <3>2, <4>2
      <4>4. tier # "hot"
          BY <4>2
      <4>5. next = IF Torn THEN NoReply ELSE s
          BY <4>3, <4>4
      <4> HIDE DEF next
      <4> QED BY <4>0, <4>5
    <3>4. CASE ~Torn
      <4>1. sealedAt # 0 => packWhole
          BY <3>4 DEF Torn
      <4>2. sealedAt \in Nat
          BY <1>0 DEF ArtifactInv
      <4>3. /\ s \in Requests /\ s.stage = "tiers" /\ s.read = {"hot", "cold"}
            /\ s.hot = r.hot /\ s.cold = sealedAt /\ s.seen = r.seen /\ s.removed = r.removed
          BY <2>1, <2>4, <3>2, <4>2 DEF Requests
      <4>4. r.hot = 0 => manifests = {} /\ sealedAt # 0
          BY <1>0, <2>1, <2>4, ArtifactIs DEF RequestInv
      <4>5. RequestInv(s)
          BY <2>1, <2>4, <4>1, <4>3, <4>4 DEF RequestInv
      <4> QED BY <2>1, <3>3, <4>5, RequestSteps
    <3> QED BY <2>1, <3>3, <3>4, RequestSteps
  <2> QED BY <2>2, <2>3, <2>4
<1>3. CASE Resolve(h)
  <2>0. PICK r : r = reply[h]
      OBVIOUS
  <2>1. RequestInv(r) /\ r \in Requests /\ r.stage = "tiers" /\ Quiet
      BY <1>3, <2>0 DEF Resolve, Doing, HostInv, RequestInv
  <2>2. r.read = {"hot", "cold"}
    <3>1. Cardinality(r.read) = 2
        BY <1>3, <2>0 DEF Resolve
    <3>2. r.read # {} /\ r.read # {"hot"}
        BY <3>1, TierCounts
    <3> QED BY <2>1, <3>2 DEF Requests
  <2>3. PICK value : value = IF r.hot # 0 THEN r.hot ELSE r.cold
      OBVIOUS
  <2>4. value \in Nat /\ value # 0 /\ value \in r.seen
    <3>1. CASE r.hot # 0
        BY <2>1, <2>3, <3>1 DEF RequestInv, Requests
    <3>2. CASE r.hot = 0
        BY <1>0, <2>1, <2>2, <2>3, <3>2, ArtifactIs DEF RequestInv, Requests
    <3> QED BY <3>1, <3>2
  <2>5. PICK s, b : /\ s = [r EXCEPT !.stage = "sent", !.tag = value, !.body = {value}]
                    /\ b = [r EXCEPT !.stage = "body", !.tag = value]
      OBVIOUS
  <2>6. /\ s \in Requests /\ s.stage = "sent" /\ s.wants = r.wants /\ s.read = r.read
        /\ s.hot = r.hot /\ s.cold = r.cold /\ s.tag = value /\ s.body = {value}
        /\ s.seen = r.seen /\ s.removed = r.removed
      BY <2>1, <2>4, <2>5 DEF Requests
  <2>7. /\ b \in Requests /\ b.stage = "body" /\ b.wants = r.wants /\ b.read = r.read
        /\ b.hot = r.hot /\ b.cold = r.cold /\ b.tag = value
        /\ b.seen = r.seen /\ b.removed = r.removed
      BY <2>1, <2>4, <2>5 DEF Requests
  <2>8. \/ reply' = [reply EXCEPT ![h] = NoReply]
        \/ reply' = [reply EXCEPT ![h] = s] /\ r.wants = "record"
        \/ reply' = [reply EXCEPT ![h] = b] /\ ~(r.hot # 0 /\ r.cold # 0)
      BY <1>3, <2>0, <2>3, <2>4, <2>5 DEF Resolve
  <2>9. r.wants = "record" => RequestInv(s)
      BY <2>1, <2>4, <2>6 DEF RequestInv
  <2>10. ~(r.hot # 0 /\ r.cold # 0) => RequestInv(b)
      BY <2>1, <2>3, <2>4, <2>7 DEF RequestInv
  <2> QED BY <2>1, <2>8, <2>9, <2>10, RequestSteps
<1>4. CASE ReadContent(h)
  <2>0. PICK r : r = reply[h]
      OBVIOUS
  <2>1. RequestInv(r) /\ r \in Requests /\ r.stage = "body" /\ r.wants = "content" /\ Quiet
      BY <1>4, <2>0 DEF ReadContent, Doing, HostInv, RequestInv
  <2>2. PICK s : s = [r EXCEPT !.stage = "sent", !.body = {Serves}]
      OBVIOUS
  <2>3. reply' = [reply EXCEPT ![h] = NoReply] \/ reply' = [reply EXCEPT ![h] = s]
      BY <1>4, <2>0, <2>2 DEF ReadContent
  <2>4. /\ s \in Requests /\ s.stage = "sent" /\ s.wants = "content" /\ s.read = r.read
        /\ s.hot = r.hot /\ s.cold = r.cold /\ s.tag = r.tag /\ s.body = {Serves}
        /\ s.seen = r.seen /\ s.removed = r.removed
      BY <1>0, <2>1, <2>2 DEF Requests
  <2>5. RequestInv(s)
      BY <2>1, <2>4 DEF RequestInv
  <2> QED BY <2>1, <2>3, <2>5, RequestSteps
<1>5. CASE ReadHistory(h)
  <2>0. PICK r : r = reply[h]
      OBVIOUS
  <2>1. RequestInv(r) /\ r \in Requests /\ r.stage = "body" /\ r.wants = "history" /\ Quiet
      BY <1>5, <2>0 DEF ReadHistory, Doing, HostInv, RequestInv
  <2>2. PICK past : past = IF r.cold # 0 THEN 1..r.cold ELSE eventFiles
      OBVIOUS
  <2>3. PICK s : s = [r EXCEPT !.stage = "sent", !.body = past]
      OBVIOUS
  <2>4. reply' = [reply EXCEPT ![h] = s]
      BY <1>5, <2>0, <2>2, <2>3 DEF ReadHistory
  <2>5. eventFiles \subseteq 1..Serves
      BY <1>0 DEF ArtifactInv
  <2>6. past \in SUBSET Nat
      BY <1>0, <2>1, <2>2, <2>5 DEF Requests
  <2>7. \A n \in past : \E latest \in r.seen : n <= latest
    <3>1. CASE r.cold # 0
        BY <2>1, <2>2, <3>1 DEF RequestInv, Requests
    <3>2. CASE r.cold = 0
        BY <1>0, <2>1, <2>2, <2>5, <3>2 DEF RequestInv
    <3> QED BY <3>1, <3>2
  <2>8. ~r.removed => 1..r.tag - 1 \subseteq past
    <3>1. CASE r.cold # 0
        BY <2>1, <2>2, <3>1 DEF RequestInv, Requests
    <3>2. CASE r.cold = 0 /\ ~r.removed
      <4>1. r.tag = r.hot /\ r.hot \in manifests
          BY <2>1, <3>2 DEF RequestInv
      <4>2. r.tag \in 1..Serves
          BY <1>0, <4>1, ArtifactIs
      <4>3. eventFiles = 1..Serves \/ eventFiles = 1..Serves - 1
          BY <1>0, <4>1 DEF ArtifactInv
      <4> QED BY <1>0, <2>2, <3>2, <4>2, <4>3
    <3> QED BY <3>1, <3>2
  <2>9. /\ s \in Requests /\ s.stage = "sent" /\ s.wants = "history" /\ s.read = r.read
        /\ s.hot = r.hot /\ s.cold = r.cold /\ s.tag = r.tag /\ s.body = past
        /\ s.seen = r.seen /\ s.removed = r.removed
      BY <2>1, <2>3, <2>6 DEF Requests
  <2>10. RequestInv(s)
      BY <2>1, <2>7, <2>8, <2>9 DEF RequestInv
  <2> QED BY <2>1, <2>4, <2>10, RequestSteps
<1>6. CASE EndRequest(h)
    BY <1>6, RequestSteps DEF EndRequest
<1> QED BY <1>1, <1>2, <1>3, <1>4, <1>5, <1>6

LEMMA HostKeeps == HostInv /\ [HostNext]_hostVars => HostInv'
<1> SUFFICES ASSUME HostInv, [HostNext]_hostVars PROVE HostInv'
    OBVIOUS
<1>1. CASE UNCHANGED hostVars
    BY <1>1 DEF hostVars, HostInv, ArtifactInv, RequestInv, Serves, Newest
<1> QED BY <1>1, ArtifactKeeps, RequestKeeps DEF HostNext

\* The host tells the truth, whoever revises or archives the Artifact during a
\* request, and however many requests there are.
THEOREM HostSafe == HostSpec => []HostTellsTheTruth
<1>1. HostInv => HostTellsTheTruth
  <2> SUFFICES ASSUME HostInv, NEW h \in Threads, Doing(h, "sent")
               PROVE  LET r == reply[h] IN
                      /\ r.tag \in r.seen
                      /\ r.wants = "content" => /\ r.body \subseteq r.seen
                                                /\ Cardinality(r.seen) = 1 => r.body = {r.tag}
                      /\ r.wants = "history" /\ ~r.removed =>
                            /\ 1..r.tag - 1 \subseteq r.body
                            /\ \A n \in r.body : \E latest \in r.seen : n <= latest
      BY DEF HostTellsTheTruth
  <2>1. PICK r : r = reply[h]
      OBVIOUS
  <2>2. RequestInv(r) /\ r.stage = "sent"
      BY <2>1 DEF HostInv, Doing
  <2>3. r.wants = "content" => \E b \in r.seen : r.body = {b}
      BY <2>2 DEF RequestInv
  <2>4. r.tag \in r.seen /\ IsFiniteSet(r.seen)
      BY <2>2 DEF RequestInv
  <2>5. Cardinality(r.seen) = 1 => \A b \in r.seen : b = r.tag
      BY <2>4, FS_Singleton
  <2>6. r.wants = "content" /\ Cardinality(r.seen) = 1 => r.body = {r.tag}
      BY <2>3, <2>5
  <2>7. r.wants = "history" /\ ~r.removed =>
           1..r.tag - 1 \subseteq r.body /\ \A n \in r.body : \E latest \in r.seen : n <= latest
      BY <2>2 DEF RequestInv
  <2> QED BY <2>1, <2>3, <2>4, <2>6, <2>7
<1> QED BY <1>1, HostStarts, HostKeeps, PTL DEF HostSpec

---------------------------------------------------------------------------
(* QueryCache *)

CacheTypes ==
    /\ files \in Trees /\ commits \in Seq(Trees) /\ head \in DOMAIN commits
    /\ cache \in Databases \cup {None} /\ touched \in BOOLEAN
    /\ lease \in Readers \cup {None} /\ op \in [Readers -> Commands \cup {None}]
    /\ writer \in Mutations \cup {None}
    /\ unnoticed \subseteq Tasks

\* A rebuild has finished it.
Sealed == cache # None /\ cache.sealed

\* A clean file that is in no difference of commits and not as its row is named, and the
\* untracked files are known or a directory has changed since.
Accounted ==
    Sealed =>
        /\ cache.valid /\ cache.head \in DOMAIN commits
        /\ touched \/ Untracked \subseteq cache.untracked
        /\ \A t \in Tasks :
              files[t] = Tree[t] /\ files[t] = commits[cache.head][t] /\ cache.row[t] # files[t]
                  => t \in unnoticed

\* One command at most is at work on the cache, and it owns the lease.
Busy == {"refresh", "store", "collect", "erase", "fill"}
Leases == \A r \in Readers : (lease = r) <=> (op[r] # None /\ op[r].at \in Busy)

\* What the row of t has for r: something its reader saw, or an excuse.
Covered(r, t) == cache.row[t] \in op[r].seen[t] \/ t \in unnoticed \cup op[r].excused

\* The rows that a command has validated are good for it until it is answered.
Progress(r) ==
    /\ \A t \in Tasks : files[t] \in op[r].seen[t]
    /\ op[r].at \in {"refresh", "store"} /\ Sealed => \A t \in Tasks \ op[r].changed : Covered(r, t)
    /\ op[r].at = "ready" /\ Sealed => \A t \in Tasks : Covered(r, t)
    /\ op[r].at = "answered" => \A t \in Tasks \ op[r].excused : op[r].answer[t] \in op[r].seen[t]

\* What the owner p of the lease has read and will store, r has seen.
Known(p, r) ==
    /\ op[p].at = "store" => \A t \in op[p].changed : op[p].copy[t] \in op[r].seen[t]
    /\ op[p].at \in {"erase", "fill"} => \A t \in Tasks : op[p].copy[t] \in op[r].seen[t]
    /\ op[p].at = "fill" =>
          /\ cache # None
          /\ \A t \in Tasks : cache.row[t] \in op[r].seen[t] \cup {None} \/ t \in op[r].excused

CacheInv ==
    /\ CacheTypes /\ Accounted /\ Leases
    /\ \A r \in Readers : op[r] # None => Progress(r)
    /\ \A p, r \in Readers : lease = p /\ (r = p \/ At(r, "ready")) => Known(p, r)

---------------------------------------------------------------------------

LEMMA CacheNoneIs ==
    /\ None \notin Databases /\ None \notin Commands /\ None \notin Mutations
    /\ None \notin Readers /\ None \notin Tasks /\ None \notin Contents
    /\ Content = Contents \cup {None} /\ NoRows \in Trees
    /\ \A t \in Tasks : NoRows[t] = None
BY NoneAssumption, NoRecordAssumption DEF Content, NoRows, Trees

\* A row that is not as its file is read again, or named.
LEMMA StaleIsCandidate ==
    ASSUME CacheTypes, Accounted, Sealed, NEW t \in Tasks, cache.row[t] # files[t]
    PROVE  t \in Candidates \cup unnoticed
<1>1. /\ cache.head \in DOMAIN commits
      /\ (touched \/ Untracked \subseteq cache.untracked)
      /\ (files[t] = Tree[t] /\ files[t] = commits[cache.head][t]) => t \in unnoticed
  BY DEF Accounted
<1>2. CASE files[t] = Tree[t]
  BY <1>1, <1>2 DEF Candidates, Between, Tree
<1>3. CASE files[t] # Tree[t] /\ Tracked(t)
  BY <1>3 DEF Candidates, Dirty
<1>4. CASE files[t] # Tree[t] /\ ~Tracked(t)
  <2>1. t \in Untracked
    BY <1>4 DEF Untracked, Tracked
  <2> QED
    BY <1>1, <2>1 DEF Candidates
<1> QED
  BY <1>2, <1>3, <1>4

\* A step leaves r's command what it is, and its reader may have seen more.
Carried(r) ==
    /\ op[r] # None /\ op'[r] # None
    /\ op'[r].at = op[r].at /\ op'[r].changed = op[r].changed
    /\ op'[r].copy = op[r].copy /\ op'[r].answer = op[r].answer
    /\ op[r].excused \subseteq op'[r].excused
    /\ \A t \in Tasks : op[r].seen[t] \subseteq op'[r].seen[t] /\ files'[t] \in op'[r].seen[t]

\* Its rows are as good for it as before.
Good(r) == Sealed' => Sealed /\ \A t \in Tasks : Covered(r, t) => Covered(r, t)'

LEMMA ProgressCarried ==
    ASSUME NEW r \in Readers, Progress(r), Carried(r), Good(r)
    PROVE  Progress(r)'
<1>1. \A t \in Tasks : files'[t] \in op'[r].seen[t]
  BY DEF Carried
<1>2. op'[r].at \in {"refresh", "store"} /\ Sealed' => \A t \in Tasks \ op'[r].changed : Covered(r, t)'
  BY DEF Progress, Carried, Good
<1>3. op'[r].at = "ready" /\ Sealed' => \A t \in Tasks : Covered(r, t)'
  BY DEF Progress, Carried, Good
<1>4. op'[r].at = "answered" => \A t \in Tasks \ op'[r].excused : op'[r].answer[t] \in op'[r].seen[t]
  BY DEF Progress, Carried
<1> QED
  BY <1>1, <1>2, <1>3, <1>4 DEF Progress

\* What a rebuild finds in the database it has just made.
Refills(r) ==
    /\ cache # None => cache' # None
    /\ cache # None => \A t \in Tasks :
          \/ cache'.row[t] = cache.row[t]
          \/ cache'.row[t] \in op'[r].seen[t] \/ t \in op'[r].excused

LEMMA KnownCarried ==
    ASSUME CacheTypes, NEW p \in Readers, NEW r \in Readers, Known(p, r),
           Carried(p), Carried(r), Refills(r)
    PROVE  Known(p, r)'
<1>1. op'[p].at = "store" => \A t \in op'[p].changed : op'[p].copy[t] \in op'[r].seen[t]
  <2>1. op[p].changed \subseteq Tasks
    BY DEF CacheTypes, Commands, Carried
  <2> QED
    BY <2>1 DEF Known, Carried
<1>2. op'[p].at \in {"erase", "fill"} => \A t \in Tasks : op'[p].copy[t] \in op'[r].seen[t]
  BY DEF Known, Carried
<1>3. op'[p].at = "fill" =>
         /\ cache' # None
         /\ \A t \in Tasks : cache'.row[t] \in op'[r].seen[t] \cup {None} \/ t \in op'[r].excused
  BY DEF Known, Carried, Refills
<1> QED
  BY <1>1, <1>2, <1>3 DEF Known

---------------------------------------------------------------------------
(* What people, Git and mutations do to the files *)

\* Every step of theirs: the files and HEAD may change, commits are only added, what
\* appears in a directory touches it, readers take note and `unnoticed` is kept.
FilesMove ==
    /\ files' \in Trees /\ commits' \in Seq(Trees) /\ head' \in DOMAIN commits'
    /\ DOMAIN commits \subseteq DOMAIN commits'
    /\ \A i \in DOMAIN commits : commits'[i] = commits[i]
    /\ touched' \in BOOLEAN /\ (touched => touched')
    /\ touched' \/ Untracked' \subseteq Untracked
    /\ UNCHANGED <<cache, lease>>
    /\ Unshown

LEMMA FilesMoveAccounted ==
    ASSUME CacheTypes, Accounted, FilesMove
    PROVE  Accounted' /\ unnoticed \subseteq unnoticed' /\ unnoticed' \subseteq Tasks
<1>1. PICK S : /\ unnoticed' = unnoticed \cup S
               /\ S = {t \in Tasks : /\ cache # None /\ cache.valid
                         /\ <<files'[t], head'>> # <<files[t], head>>
                         /\ files'[t] = commits'[head'][t]
                         /\ files'[t] = commits[cache.head][t]
                         /\ files'[t] # cache.row[t]}
  BY DEF FilesMove, Unshown
<1>2. ASSUME Sealed, NEW t \in Tasks,
             files'[t] = commits'[head'][t], files'[t] = commits'[cache.head][t], cache.row[t] # files'[t]
      PROVE  t \in unnoticed'
  <2>1. /\ cache # None /\ cache.valid /\ cache.head \in DOMAIN commits
        /\ files'[t] = commits[cache.head][t]
    BY <1>2 DEF Accounted, Sealed, FilesMove
  <2>2. CASE <<files'[t], head'>> # <<files[t], head>>
    BY <1>1, <1>2, <2>1, <2>2
  <2>3. CASE files'[t] = files[t] /\ head' = head
    <3>1. files[t] = commits[head][t]
      BY <1>2, <2>3 DEF CacheTypes, FilesMove
    <3>2. t \in unnoticed
      BY <1>2, <2>1, <2>3, <3>1 DEF Accounted, Tree
    <3> QED
      BY <1>1, <3>2
  <2> QED
    BY <2>2, <2>3
<1>3. ASSUME Sealed'
      PROVE  /\ cache'.valid /\ cache'.head \in DOMAIN commits'
             /\ touched' \/ Untracked' \subseteq cache'.untracked
  BY <1>3 DEF Accounted, Sealed, FilesMove
<1>4. Accounted'
  BY <1>2, <1>3 DEF Accounted, Sealed, FilesMove, Tree
<1> QED
  BY <1>1, <1>4 DEF CacheTypes

\* What readers note of it.
LEMMA NoteIs ==
    ASSUME CacheTypes, files' \in Trees, Note \/ (UNCHANGED <<files, op>> /\ \A r \in Readers :
              op[r] # None => \A t \in Tasks : files[t] \in op[r].seen[t])
    PROVE  /\ op' \in [Readers -> Commands \cup {None}]
           /\ \A r \in Readers : (op'[r] = None <=> op[r] = None) /\ (op[r] # None => Carried(r))
<1>1. CASE Note
  <2>1. op' = [r \in Readers |-> IF op[r] = None THEN None
                  ELSE [op[r] EXCEPT !.seen = [t \in Tasks |-> @[t] \cup {files'[t]}]]]
    BY <1>1 DEF Note
  <2>2. ASSUME NEW r \in Readers, op[r] # None
        PROVE  op'[r] \in Commands /\ Carried(r)
    <3>1. PICK o, p : o = op[r] /\ p = op'[r]
      OBVIOUS
    <3>2. o \in Commands /\ o # None
      BY <2>2, <3>1 DEF CacheTypes
    <3>3. PICK s : s = [t \in Tasks |-> o.seen[t] \cup {files'[t]}]
      OBVIOUS
    <3>4. p = [o EXCEPT !.seen = s]
      BY <2>1, <2>2, <3>1, <3>3
    <3>5. s \in [Tasks -> SUBSET Content]
      BY <3>2, <3>3 DEF Commands, Trees
    <3>6. /\ p \in Commands /\ p.seen = s /\ p.at = o.at /\ p.changed = o.changed
          /\ p.copy = o.copy /\ p.answer = o.answer /\ p.excused = o.excused
      BY <3>2, <3>4, <3>5 DEF Commands
    <3>7. p # None
      BY <3>6, CacheNoneIs
    <3>8. \A t \in Tasks : o.seen[t] \subseteq p.seen[t] /\ files'[t] \in p.seen[t]
      BY <3>3, <3>6
    <3> QED
      BY <3>1, <3>2, <3>6, <3>7, <3>8 DEF Carried
  <2> QED
    BY <2>1, <2>2, CacheNoneIs DEF Carried
<1>2. CASE UNCHANGED <<files, op>> /\ \A r \in Readers :
              op[r] # None => \A t \in Tasks : files[t] \in op[r].seen[t]
  BY <1>2 DEF CacheTypes, Carried
<1> QED
  BY <1>1, <1>2

\* All commands go on.
LEMMA AllCarried ==
    ASSUME CacheInv, CacheTypes', Accounted', UNCHANGED lease,
           \A r \in Readers : (op'[r] = None <=> op[r] = None) /\ (op[r] # None => Carried(r) /\ Good(r)),
           \A r \in Readers : op[r] # None => Refills(r)
    PROVE  CacheInv'
<1>1. Leases'
  BY DEF CacheInv, Leases, Carried
<1>2. ASSUME NEW r \in Readers, op'[r] # None PROVE Progress(r)'
  BY <1>2, ProgressCarried DEF CacheInv
<1>3. ASSUME NEW p \in Readers, NEW r \in Readers, lease' = p, r = p \/ At(r, "ready")'
      PROVE  Known(p, r)'
  <2>1. op[p] # None
    BY <1>3 DEF CacheInv, Leases
  <2>2. op[r] # None /\ (r = p \/ At(r, "ready"))
    BY <1>3, <2>1 DEF At, Carried
  <2>3. Known(p, r)
    BY <1>3, <2>2 DEF CacheInv
  <2> QED
    BY <2>1, <2>2, <2>3, KnownCarried DEF CacheInv
<1> QED
  BY <1>1, <1>2, <1>3 DEF CacheInv

\* The files move and the database stays.
LEMMA FilesMoveKeeps ==
    ASSUME CacheInv, FilesMove, writer' \in Mutations \cup {None},
           Note \/ UNCHANGED <<files, op>>
    PROVE  CacheInv'
<1>1. /\ op' \in [Readers -> Commands \cup {None}]
      /\ \A r \in Readers : (op'[r] = None <=> op[r] = None) /\ (op[r] # None => Carried(r))
  <2>1. \A r \in Readers : op[r] # None => \A t \in Tasks : files[t] \in op[r].seen[t]
    BY DEF CacheInv, Progress
  <2> QED
    BY <2>1, NoteIs DEF CacheInv, FilesMove
<1>2. Accounted' /\ unnoticed \subseteq unnoticed' /\ unnoticed' \subseteq Tasks
  BY FilesMoveAccounted DEF CacheInv
<1>3. CacheTypes'
  BY <1>1, <1>2 DEF CacheInv, CacheTypes, FilesMove
<1>4. ASSUME NEW r \in Readers, op[r] # None PROVE Good(r) /\ Refills(r)
  <2>1. Carried(r) /\ cache' = cache
    BY <1>1, <1>4 DEF FilesMove
  <2> QED
    BY <1>2, <2>1 DEF Good, Refills, Covered, Carried, Sealed
<1> QED
  BY <1>1, <1>2, <1>3, <1>4, AllCarried DEF FilesMove

LEMMA PeopleKeep ==
    ASSUME CacheInv, Edit \/ Remove \/ Commit \/ Checkout \/ Restore
    PROVE  CacheInv'
<1>0. /\ files \in Trees /\ commits \in Seq(Trees) /\ head \in DOMAIN commits /\ touched \in BOOLEAN
      /\ writer \in Mutations \cup {None} /\ Tree \in Trees
  BY DEF CacheInv, CacheTypes, Tree
<1>1. CASE Edit
  <2>1. PICK t \in Tasks, c \in Content \ {None}, renamed \in BOOLEAN :
           /\ files' = [files EXCEPT ![t] = c]
           /\ touched' = (touched \/ renamed \/ files[t] = None)
    BY <1>1 DEF Edit
  <2>2. /\ UNCHANGED <<commits, head, cache, lease, writer>> /\ Unshown /\ Note
    BY <1>1 DEF Edit
  <2>3. files' \in Trees
    BY <1>0, <2>1 DEF Trees
  <2>4. touched' \/ Untracked' \subseteq Untracked
    BY <1>0, <2>1, <2>2 DEF Untracked, Tracked, Tree, Trees
  <2> QED
    BY <1>0, <2>1, <2>2, <2>3, <2>4, FilesMoveKeeps DEF FilesMove
<1>2. CASE Remove
  <2>1. PICK t \in Tasks : files' = [files EXCEPT ![t] = None]
    BY <1>2 DEF Remove
  <2>2. /\ UNCHANGED <<commits, head, cache, lease, writer>> /\ Unshown /\ Note /\ touched' = TRUE
    BY <1>2 DEF Remove
  <2>3. files' \in Trees
    BY <1>0, <2>1 DEF Trees, Content
  <2> QED
    BY <1>0, <2>2, <2>3, FilesMoveKeeps DEF FilesMove
<1>3. CASE Commit
  <2>1. PICK S \in SUBSET Tasks :
           commits' = Append(commits, [t \in Tasks |-> IF t \in S THEN files[t] ELSE Tree[t]])
    BY <1>3 DEF Commit
  <2>2. /\ UNCHANGED <<files, cache, touched, lease, op, writer>> /\ Unshown /\ head' = Len(commits')
    BY <1>3 DEF Commit
  <2>3. PICK tree : /\ tree = [t \in Tasks |-> IF t \in S THEN files[t] ELSE Tree[t]]
                    /\ commits' = Append(commits, tree)
    BY <2>1
  <2>4. tree \in Trees
    BY <1>0, <2>3 DEF Trees
  <2>5. /\ commits' \in Seq(Trees) /\ Len(commits') = Len(commits) + 1
        /\ Len(commits) \in Nat
        /\ \A i \in 1..Len(commits) : commits'[i] = commits[i]
        /\ commits'[Len(commits) + 1] = tree
    BY <1>0, <2>3, <2>4
  <2>6. /\ head' \in DOMAIN commits' /\ DOMAIN commits \subseteq DOMAIN commits'
        /\ \A i \in DOMAIN commits : commits'[i] = commits[i]
        /\ Tree' = tree
    BY <1>0, <2>2, <2>5 DEF Tree
  <2>7. Untracked' \subseteq Untracked
    BY <1>0, <2>2, <2>3, <2>6 DEF Untracked, Tracked, Trees
  <2> QED
    BY <1>0, <2>2, <2>5, <2>6, <2>7, FilesMoveKeeps DEF FilesMove
<1>4. CASE Checkout
  <2>1. PICK c \in DOMAIN commits \ {head} :
           /\ files' = [t \in Tasks |-> IF t \in Between(head, c) THEN commits[c][t] ELSE files[t]]
           /\ head' = c /\ touched' = (touched \/ Between(head, c) # {})
    BY <1>4 DEF Checkout
  <2>2. /\ UNCHANGED <<commits, cache, lease, writer>> /\ Unshown /\ Note
    BY <1>4 DEF Checkout
  <2>3. files' \in Trees /\ commits[c] \in Trees
    BY <1>0, <2>1 DEF Trees
  <2>4. touched' \/ Untracked' \subseteq Untracked
    BY <1>0, <2>1, <2>2 DEF Untracked, Tracked, Tree, Trees, Between
  <2> QED
    BY <1>0, <2>1, <2>2, <2>3, <2>4, FilesMoveKeeps DEF FilesMove
<1>5. CASE Restore
  <2>1. PICK t \in Tasks : files' = [files EXCEPT ![t] = Tree[t]]
    BY <1>5 DEF Restore, Dirty
  <2>2. /\ UNCHANGED <<commits, head, cache, lease, writer>> /\ Unshown /\ Note /\ touched' = TRUE
    BY <1>5 DEF Restore
  <2>3. files' \in Trees
    BY <1>0, <2>1 DEF Trees
  <2> QED
    BY <1>0, <2>2, <2>3, FilesMoveKeeps DEF FilesMove
<1> QED
  BY <1>1, <1>2, <1>3, <1>4, <1>5

LEMMA ActivateKeeps ==
    ASSUME CacheInv, Activate
    PROVE  CacheInv'
<1>0. /\ files \in Trees /\ commits \in Seq(Trees) /\ head \in DOMAIN commits /\ touched \in BOOLEAN
  BY DEF CacheInv, CacheTypes
<1>1. PICK t \in Tasks, c \in Contents :
         /\ files' = [files EXCEPT ![t] = c] /\ writer' = [task |-> t, content |-> c]
  BY DEF Activate
<1>2. /\ UNCHANGED <<commits, head, cache, lease>> /\ Unshown /\ Note /\ touched' = TRUE
  BY DEF Activate
<1>3. files' \in Trees /\ writer' \in Mutations
  BY <1>0, <1>1 DEF Trees, Content, Mutations
<1> QED
  BY <1>0, <1>2, <1>3, FilesMoveKeeps DEF FilesMove

\* Nothing that the commands depend on.
LEMMA UntouchedAccounted ==
    ASSUME Accounted, UNCHANGED <<board, cache, touched, unnoticed>>
    PROVE  Accounted'
BY DEF Accounted, board, Sealed, Untracked, Tracked, Tree

LEMMA DropsKeep ==
    ASSUME CacheInv, DropCache \/ UpsertFails
    PROVE  CacheInv'
<1>1. /\ UNCHANGED <<files, commits, head, touched, lease, op, unnoticed>>
      /\ writer' \in Mutations \cup {None}
      /\ cache' = cache \/ (lease = None /\ cache' = None)
  BY DEF DropCache, UpsertFails, board, CacheInv, CacheTypes
<1>2. CacheTypes'
  BY <1>1 DEF CacheInv, CacheTypes
<1>3. CASE cache' = cache
  <2>1. Accounted'
    BY <1>1, <1>3, UntouchedAccounted DEF CacheInv, board
  <2>2. ASSUME NEW r \in Readers, op[r] # None PROVE Carried(r) /\ Good(r) /\ Refills(r)
    <3>1. Progress(r)
      BY <2>2 DEF CacheInv
    <3> QED
      BY <1>1, <1>3, <2>2, <3>1 DEF Carried, Good, Refills, Progress, Covered, Sealed
  <2> QED
    BY <1>1, <1>2, <2>1, <2>2, AllCarried
<1>4. CASE lease = None /\ cache' = None
  <2>1. ~Sealed' /\ Accounted' /\ Leases'
    BY <1>1, <1>4 DEF CacheInv, Accounted, Leases, Sealed
  <2>2. ASSUME NEW r \in Readers, op'[r] # None PROVE Progress(r)'
    <3>1. Progress(r) /\ op'[r] = op[r] /\ files' = files
      BY <1>1, <2>2 DEF CacheInv
    <3> QED
      BY <2>1, <3>1 DEF Progress
  <2>3. \A p \in Readers : lease' # p
    BY <1>1, <1>4, CacheNoneIs
  <2> QED
    BY <1>2, <2>1, <2>2, <2>3 DEF CacheInv
<1> QED
  BY <1>1, <1>3, <1>4

\* What settles is what its row agrees with.
LEMMA SettleIs ==
    ASSUME NEW suspects \in SUBSET Tasks, NEW copied \in SUBSET Tasks, Settle(suspects, copied), cache' # None
    PROVE  /\ unnoticed' \subseteq Tasks
           /\ \A t \in suspects : t \in unnoticed' \/ cache'.row[t] = files[t]
           /\ \A t \in copied : files[t] = Tree[t] => t \in unnoticed' \/ cache'.row[t] = files[t]
BY DEF Settle

LEMMA EmptyIs ==
    /\ EmptyDatabase \in Databases /\ EmptyDatabase # None
    /\ EmptyDatabase.row = NoRows /\ ~EmptyDatabase.sealed /\ ~EmptyDatabase.valid
<1>1. EmptyDatabase \in Databases
  BY CacheNoneIs DEF EmptyDatabase, Databases
<1>2. EmptyDatabase.row = NoRows /\ EmptyDatabase.sealed = FALSE /\ EmptyDatabase.valid = FALSE
  BY DEF EmptyDatabase
<1> QED
  BY <1>1, <1>2, CacheNoneIs

\* A mutation stores its row: a command that is under way has seen it, or is excused.
LEMMA UpsertKeeps ==
    ASSUME CacheInv, Upsert
    PROVE  CacheInv'
<1>0. /\ files \in Trees /\ commits \in Seq(Trees) /\ head \in DOMAIN commits /\ touched \in BOOLEAN
      /\ cache \in Databases \cup {None} /\ unnoticed \subseteq Tasks
      /\ op \in [Readers -> Commands \cup {None}] /\ Accounted
      /\ UNCHANGED <<files, commits, head, lease>> /\ writer' = None
  BY DEF CacheInv, CacheTypes, Upsert, board
<1>1. PICK t, c : t = writer.task /\ c = writer.content
  OBVIOUS
<1>2. writer \in Mutations
  BY DEF Upsert, CacheInv, CacheTypes
<1>3. t \in Tasks /\ c \in Content /\ files[t] # None
  BY <1>1, <1>2, CacheNoneIs DEF Mutations, Upsert
<1>4. PICK db : db = IF cache = None THEN EmptyDatabase ELSE cache
  OBVIOUS
<1>5. PICK put : put = [db EXCEPT !.row = [@ EXCEPT ![t] = c]]
  OBVIOUS
<1>6. PICK skipped : skipped = IF db.valid THEN Between(db.head, head) ELSE {}
  OBVIOUS
<1>7. /\ IF db.row[t] = c
         THEN cache' = put /\ UNCHANGED touched /\ Settle(unnoticed, {t})
         ELSE /\ cache' = FinishedFor(put, t)
              /\ touched' = (touched /\ db.valid)
              /\ Settle(unnoticed \cup skipped, {t})
      /\ op' = [r \in Readers |->
                   IF op[r] = None \/ files[t] = c THEN op[r]
                   ELSE [op[r] EXCEPT !.excused = @ \cup {t}]]
  BY <1>1, <1>4, <1>5, <1>6 DEF Upsert
<1>8. /\ db \in Databases /\ (cache # None => db = cache) /\ (db.sealed => cache # None)
      /\ skipped \in SUBSET Tasks /\ head \in Nat
  BY <1>0, <1>4, <1>6, EmptyIs DEF Between
<1>9. /\ put \in Databases /\ put.head = db.head /\ put.untracked = db.untracked
      /\ put.valid = db.valid /\ put.sealed = db.sealed
      /\ put.row \in Trees /\ put.row[t] = c /\ \A s \in Tasks \ {t} : put.row[s] = db.row[s]
      /\ db.row[t] = c => put.row = db.row
  BY <1>3, <1>5, <1>8 DEF Databases, Trees
<1>10. PICK fin : fin = FinishedFor(put, t)
  OBVIOUS
<1>11. /\ fin \in Databases /\ fin.head = head /\ fin.valid /\ fin.sealed = put.sealed
       /\ fin.row = put.row
       /\ fin.untracked = IF ~Tracked(t) /\ files[t] # None THEN put.untracked \cup {t}
                          ELSE put.untracked \ {t}
  BY <1>3, <1>8, <1>9, <1>10 DEF FinishedFor, Databases
<1>12. PICK now : now = cache'
  OBVIOUS
<1>13. /\ now \in Databases /\ now # None /\ now.sealed = db.sealed
       /\ now.row[t] = c /\ \A s \in Tasks \ {t} : now.row[s] = db.row[s]
  BY <1>7, <1>9, <1>10, <1>11, <1>12, CacheNoneIs
<1>14. /\ unnoticed' \subseteq Tasks
       /\ \A s \in unnoticed : s \in unnoticed' \/ now.row[s] = files[s]
       /\ files[t] = Tree[t] => t \in unnoticed' \/ now.row[t] = files[t]
  <2>1. CASE db.row[t] = c
    <3>1. Settle(unnoticed, {t})
      BY <1>7, <2>1
    <3> QED
      BY <1>0, <1>3, <1>12, <1>13, <3>1, SettleIs
  <2>2. CASE db.row[t] # c
    <3>1. Settle(unnoticed \cup skipped, {t}) /\ unnoticed \cup skipped \in SUBSET Tasks
      BY <1>0, <1>7, <1>8, <2>2
    <3> QED
      BY <1>3, <1>12, <1>13, <3>1, SettleIs
  <2> QED
    BY <2>1, <2>2
<1>15. /\ op' \in [Readers -> Commands \cup {None}]
       /\ \A r \in Readers : (op'[r] = None <=> op[r] = None) /\ (op[r] # None => Carried(r))
       /\ \A r \in Readers : op[r] # None => c \in op'[r].seen[t] \/ t \in op'[r].excused
  <2>1. ASSUME NEW r \in Readers, op[r] # None
        PROVE  /\ op'[r] \in Commands /\ Carried(r)
               /\ c \in op'[r].seen[t] \/ t \in op'[r].excused
    <3>1. PICK o, p : o = op[r] /\ p = op'[r]
      OBVIOUS
    <3>2. o \in Commands /\ \A s \in Tasks : files[s] \in o.seen[s]
      BY <1>0, <2>1, <3>1 DEF CacheInv, Progress
    <3>3. p = o \/ p = [o EXCEPT !.excused = @ \cup {t}]
      BY <1>7, <2>1, <3>1
    <3>4. /\ p \in Commands /\ p.seen = o.seen /\ p.at = o.at /\ p.changed = o.changed
          /\ p.copy = o.copy /\ p.answer = o.answer /\ o.excused \subseteq p.excused
      BY <1>3, <3>2, <3>3 DEF Commands
    <3>5. CASE files[t] = c
      BY <1>0, <1>3, <2>1, <3>1, <3>2, <3>4, <3>5, CacheNoneIs DEF Carried
    <3>6. CASE files[t] # c
      <4>1. p = [o EXCEPT !.excused = @ \cup {t}]
        BY <1>7, <2>1, <3>1, <3>6
      <4>2. t \in p.excused
        BY <3>2, <4>1 DEF Commands
      <4> QED
        BY <1>0, <2>1, <3>1, <3>2, <3>4, <4>2, CacheNoneIs DEF Carried
    <3> QED
      BY <3>5, <3>6
  <2>2. op' \in [Readers -> Commands \cup {None}]
    BY <1>0, <1>7, <2>1
  <2> QED
    BY <1>7, <2>1, <2>2, CacheNoneIs DEF Carried
<1>16. touched' \in BOOLEAN /\ (db.valid => touched' = touched)
  BY <1>0, <1>7, <1>8 DEF Databases
<1>17. CacheTypes'
  BY <1>0, <1>12, <1>13, <1>14, <1>15, <1>16 DEF CacheInv, CacheTypes
<1>18. Accounted'
  <2>1. SUFFICES ASSUME now.sealed
                 PROVE  /\ now.valid /\ now.head \in DOMAIN commits
                        /\ touched \/ Untracked \subseteq now.untracked
                        /\ \A s \in Tasks : files[s] = Tree[s] /\ files[s] = commits[now.head][s]
                                            /\ now.row[s] # files[s] => s \in unnoticed'
    <3>1. touched' = touched \/ ~now.sealed
      BY <1>8, <1>13, <1>16, <1>0 DEF Accounted, Sealed
    <3> QED
      BY <1>0, <1>12, <3>1 DEF Accounted, Sealed, Untracked, Tracked, Tree
  <2>2. /\ db = cache /\ db.valid /\ db.head \in DOMAIN commits
        /\ touched \/ Untracked \subseteq db.untracked
        /\ \A s \in Tasks : files[s] = Tree[s] /\ files[s] = commits[db.head][s] /\ db.row[s] # files[s]
                               => s \in unnoticed
    BY <1>0, <1>8, <1>13, <2>1 DEF Accounted, Sealed
  <2>3. CASE db.row[t] = c
    <3>1. now = put /\ now.row = db.row
      BY <1>7, <1>9, <1>12, <2>3
    <3> QED
      BY <1>9, <1>14, <2>2, <3>1
  <2>4. CASE db.row[t] # c
    <3>1. now = fin /\ Settle(unnoticed \cup skipped, {t})
      BY <1>7, <1>10, <1>12, <2>4
    <3>2. touched \/ Untracked \subseteq now.untracked
      BY <1>9, <1>11, <2>2, <3>1 DEF Untracked
    <3>3. skipped = Between(db.head, head)
      BY <1>6, <2>2
    <3>4. \A s \in skipped : s \in unnoticed' \/ now.row[s] = files[s]
      <4>1. unnoticed \cup skipped \in SUBSET Tasks
        BY <1>0, <1>8
      <4> QED
        BY <1>3, <1>12, <1>13, <3>1, <4>1, SettleIs
    <3>5. ASSUME NEW s \in Tasks, files[s] = Tree[s], now.row[s] # files[s]
          PROVE  s \in unnoticed'
      <4>1. CASE s = t
        BY <1>14, <3>5, <4>1
      <4>2. CASE s # t /\ files[s] = commits[db.head][s]
        BY <1>13, <1>14, <2>2, <3>5, <4>2
      <4>3. CASE files[s] # commits[db.head][s]
        <5>1. s \in skipped
          BY <3>3, <3>5, <4>3 DEF Between, Tree
        <5> QED
          BY <3>4, <3>5, <5>1
      <4> QED
        BY <4>1, <4>2, <4>3
    <3> QED
      BY <1>0, <1>11, <3>1, <3>2, <3>5
  <2> QED
    BY <2>3, <2>4
<1>19. ASSUME NEW r \in Readers, op[r] # None
       PROVE  Good(r) /\ Refills(r)
  <2>1. /\ op[r].excused \subseteq op'[r].excused
        /\ \A s \in Tasks : op[r].seen[s] \subseteq op'[r].seen[s] /\ files[s] \in op'[r].seen[s]
        /\ c \in op'[r].seen[t] \/ t \in op'[r].excused
    BY <1>0, <1>15, <1>19 DEF Carried
  <2>2. ASSUME Sealed, NEW s \in Tasks, Covered(r, s) PROVE Covered(r, s)'
    <3>1. CASE s = t
      BY <1>12, <1>13, <2>1, <3>1 DEF Covered
    <3>2. CASE s # t
      <4>1. now.row[s] = cache.row[s]
        BY <1>8, <1>13, <2>2, <3>2 DEF Sealed
      <4> QED
        BY <1>12, <1>14, <2>1, <2>2, <4>1 DEF Covered
    <3> QED
      BY <3>1, <3>2
  <2>3. Good(r)
    BY <1>8, <1>12, <1>13, <2>2 DEF Good, Sealed
  <2>4. Refills(r)
    BY <1>8, <1>12, <1>13, <2>1 DEF Refills
  <2> QED
    BY <2>3, <2>4
<1> QED
  BY <1>0, <1>15, <1>17, <1>18, <1>19, AllCarried

---------------------------------------------------------------------------
(* What a reader does *)

\* A step of r, which concerns the others by the database only.
LEMMA ReaderStep ==
    ASSUME CacheInv, CacheTypes', Accounted', NEW r \in Readers,
           \A q \in Readers \ {r} : op'[q] = op[q],
           lease' = lease \/ (lease \in {None, r} /\ lease' \in {None, r}),
           lease' \notin {None, r} /\ cache # None => cache' = cache,
           (lease' = r) <=> (op'[r] # None /\ op'[r].at \in Busy),
           At(r, "ready")' => lease' = None,
           \A q \in Readers \ {r} : op[q] # None => Progress(q)',
           op'[r] # None => Progress(r)',
           lease' = r => \A q \in Readers : (q = r \/ At(q, "ready")) => Known(r, q)'
    PROVE  CacheInv'
<1>1. Leases'
  <2>1. ASSUME NEW q \in Readers \ {r} PROVE (lease' = q) <=> (op'[q] # None /\ op'[q].at \in Busy)
    <3>1. (lease' = q) <=> (lease = q)
      BY <2>1, CacheNoneIs
    <3> QED
      BY <2>1, <3>1 DEF CacheInv, Leases
  <2> QED
    BY <2>1 DEF Leases
<1>2. ASSUME NEW q \in Readers, op'[q] # None PROVE Progress(q)'
  BY <1>2
<1>3. ASSUME NEW p \in Readers, NEW q \in Readers, lease' = p, q = p \/ At(q, "ready")'
      PROVE  Known(p, q)'
  <2>1. CASE p = r
    <3>1. q = r \/ At(q, "ready")
      BY <1>3, <2>1 DEF At
    <3> QED
      BY <1>3, <2>1, <3>1
  <2>2. CASE p # r
    <3>1. lease' \notin {None, r} /\ lease = p /\ q # r
      BY <1>3, <2>2, CacheNoneIs
    <3>2. op'[p] = op[p] /\ op'[q] = op[q] /\ (q = p \/ At(q, "ready"))
      BY <1>3, <2>2, <3>1 DEF At
    <3>3. Known(p, q)
      BY <3>1, <3>2 DEF CacheInv
    <3>4. cache # None => cache' = cache
      BY <3>1
    <3> QED
      BY <3>2, <3>3, <3>4 DEF Known
  <2> QED
    BY <2>1, <2>2
<1> QED
  BY <1>1, <1>2, <1>3 DEF CacheInv

\* The others' progress stands as long as the files and their rows do.
LEMMA OthersProgress ==
    ASSUME NEW q, Progress(q), op'[q] = op[q], UNCHANGED files,
           Sealed' => Sealed /\ \A t \in Tasks : Covered(q, t) => Covered(q, t)'
    PROVE  Progress(q)'
BY DEF Progress

\* Nobody's database has changed.
LEMMA OthersStay ==
    ASSUME CacheInv, NEW r \in Readers, \A q \in Readers \ {r} : op'[q] = op[q],
           UNCHANGED <<files, unnoticed>>, cache' = cache \/ ~Sealed'
    PROVE  \A q \in Readers \ {r} : op[q] # None => Progress(q)'
<1> SUFFICES ASSUME NEW q \in Readers \ {r}, op[q] # None PROVE Progress(q)'
  OBVIOUS
<1>1. Progress(q) /\ op'[q] = op[q]
  BY DEF CacheInv
<1>2. CASE cache' = cache
  BY <1>1, <1>2, OthersProgress DEF Sealed, Covered
<1>3. CASE ~Sealed'
  BY <1>1, <1>3, OthersProgress
<1> QED
  BY <1>2, <1>3

LEMMA BeginKeeps ==
    ASSUME CacheInv, NEW r \in Readers, Begin(r)
    PROVE  CacheInv'
<1>1. /\ op[r] = None /\ UNCHANGED <<board, cache, touched, lease, writer, unnoticed>>
      /\ UNCHANGED files
  BY DEF Begin, board
<1>2. PICK kind \in {"query", "all"} :
          op' = [op EXCEPT ![r] =
              [kind |-> kind, at |-> "wait", seen |-> [t \in Tasks |-> {files[t]}],
               head |-> 0, changed |-> {}, due |-> FALSE, copy |-> NoRows,
               answer |-> NoRows, excused |-> {}]]
  BY DEF Begin
<1>3. PICK o : o = [kind |-> kind, at |-> "wait", seen |-> [t \in Tasks |-> {files[t]}],
                    head |-> 0, changed |-> {}, due |-> FALSE, copy |-> NoRows,
                    answer |-> NoRows, excused |-> {}]
  OBVIOUS
<1>4. o \in Commands /\ o.at = "wait" /\ \A t \in Tasks : files[t] \in o.seen[t]
  BY <1>3, CacheNoneIs DEF Commands, CacheInv, CacheTypes, Trees
<1>5. op' = [op EXCEPT ![r] = o]
  BY <1>2, <1>3
<1>6. /\ op' \in [Readers -> Commands \cup {None}] /\ op'[r] = o
      /\ \A q \in Readers \ {r} : op'[q] = op[q]
  BY <1>4, <1>5 DEF CacheInv, CacheTypes
<1>7. CacheTypes' /\ Accounted'
  BY <1>1, <1>6, UntouchedAccounted DEF CacheInv, CacheTypes, board
<1>8. lease' # r
  BY <1>1 DEF CacheInv, Leases
<1>9. Progress(r)'
  BY <1>1, <1>4, <1>6 DEF Progress
<1>10. \A q \in Readers \ {r} : op[q] # None => Progress(q)'
  BY <1>1, <1>6, OthersStay
<1> QED
  BY <1>1, <1>4, <1>6, <1>7, <1>8, <1>9, <1>10, ReaderStep DEF Busy, At

\* The tasks whose rows are not read again are covered.
LEMMA ExamineKeeps ==
    ASSUME CacheInv, NEW r \in Readers, Examine(r)
    PROVE  CacheInv'
<1>1. /\ op[r] # None /\ op[r].at = "wait" /\ lease = None /\ lease' = r
      /\ UNCHANGED <<board, cache, touched, writer, unnoticed>> /\ UNCHANGED files
  BY DEF Examine, At, board
<1>2. PICK o, p : o = op[r] /\ p = op'[r]
  OBVIOUS
<1>3. o \in Commands /\ \A t \in Tasks : files[t] \in o.seen[t]
  BY <1>1, <1>2 DEF CacheInv, CacheTypes, Progress
<1>4. /\ \/ p = [o EXCEPT !.at = "collect"]
         \/ /\ cache # None
            /\ \E indexed \in BOOLEAN :
                  p = [o EXCEPT !.at = "refresh", !.head = head, !.changed = Candidates,
                                !.due = indexed \/ touched \/ cache.head # head]
      /\ \A q \in Readers \ {r} : op'[q] = op[q]
      /\ op' \in [Readers -> {op[q] : q \in Readers} \cup {p}]
  <2>1. op \in [Readers -> Commands \cup {None}]
    BY DEF CacheInv, CacheTypes
  <2>2. CASE op' = [op EXCEPT ![r].at = "collect"]
    BY <1>2, <2>1, <2>2
  <2>3. ASSUME cache # None, NEW indexed \in BOOLEAN,
               op' = [op EXCEPT ![r].at = "refresh", ![r].head = head, ![r].changed = Candidates,
                                ![r].due = indexed \/ touched \/ cache.head # head]
        PROVE  /\ p = [o EXCEPT !.at = "refresh", !.head = head, !.changed = Candidates,
                                !.due = indexed \/ touched \/ cache.head # head]
               /\ \A q \in Readers \ {r} : op'[q] = op[q]
               /\ op' \in [Readers -> {op[q] : q \in Readers} \cup {p}]
    BY <1>2, <2>1, <2>3
  <2> QED
    BY <2>2, <2>3 DEF Examine
<1>5. CASE p = [o EXCEPT !.at = "collect"]
  <2>1. p \in Commands /\ p.at = "collect" /\ p.seen = o.seen
    BY <1>3, <1>5 DEF Commands
  <2>2. op' \in [Readers -> Commands \cup {None}] /\ p # None
    BY <1>2, <1>4, <2>1, CacheNoneIs DEF CacheInv, CacheTypes
  <2>3. CacheTypes' /\ Accounted'
    BY <1>1, <2>2, UntouchedAccounted DEF CacheInv, CacheTypes, board
  <2>4. Progress(r)'
    BY <1>1, <1>2, <1>3, <2>1 DEF Progress
  <2>5. \A q \in Readers \ {r} : op[q] # None => Progress(q)'
    BY <1>1, <1>4, OthersStay
  <2>6. \A q \in Readers : Known(r, q)'
    BY <1>2, <2>1 DEF Known
  <2> QED
    BY <1>1, <1>2, <1>4, <2>1, <2>2, <2>3, <2>4, <2>5, <2>6, ReaderStep DEF Busy, At
<1>6. ASSUME NEW indexed \in BOOLEAN, cache # None,
             p = [o EXCEPT !.at = "refresh", !.head = head, !.changed = Candidates,
                           !.due = indexed \/ touched \/ cache.head # head]
      PROVE  CacheInv'
  <2>1. /\ Candidates \in SUBSET Tasks /\ head \in Nat
        /\ (indexed \/ touched \/ cache.head # head) \in BOOLEAN
    <3>1. cache.untracked \subseteq Tasks
      BY <1>6 DEF CacheInv, CacheTypes, Databases
    <3> QED
      BY <3>1 DEF Candidates, Between, Dirty, Untracked, CacheInv, CacheTypes
  <2>2. p \in Commands /\ p.at = "refresh" /\ p.seen = o.seen /\ p.changed = Candidates
        /\ p.excused = o.excused
    BY <1>3, <1>6, <2>1 DEF Commands
  <2>3. op' \in [Readers -> Commands \cup {None}] /\ p # None
    BY <1>2, <1>4, <2>2, CacheNoneIs DEF CacheInv, CacheTypes
  <2>4. CacheTypes' /\ Accounted'
    BY <1>1, <2>3, UntouchedAccounted DEF CacheInv, CacheTypes, board
  <2>5. Progress(r)'
    <3>1. ASSUME Sealed', NEW t \in Tasks \ p.changed PROVE Covered(r, t)'
      <4>1. Sealed /\ t \notin Candidates
        BY <1>1, <2>2, <3>1 DEF Sealed
      <4>2. cache.row[t] = files[t] \/ t \in unnoticed
        BY <4>1, StaleIsCandidate DEF CacheInv
      <4> QED
        BY <1>1, <1>2, <1>3, <2>2, <4>2 DEF Covered
    <3> QED
      BY <1>1, <1>2, <1>3, <2>2, <3>1 DEF Progress
  <2>6. \A q \in Readers \ {r} : op[q] # None => Progress(q)'
    BY <1>1, <1>4, OthersStay
  <2>7. \A q \in Readers : Known(r, q)'
    BY <1>2, <2>2 DEF Known
  <2> QED
    BY <1>1, <1>2, <1>4, <2>2, <2>3, <2>4, <2>5, <2>6, <2>7, ReaderStep DEF Busy, At
<1> QED
  BY <1>4, <1>5, <1>6

LEMMA ReadChangedKeeps ==
    ASSUME CacheInv, NEW r \in Readers, ReadChanged(r)
    PROVE  CacheInv'
<1>1. /\ op[r] # None /\ op[r].at = "refresh"
      /\ UNCHANGED <<board, cache, touched, lease, writer, unnoticed>> /\ UNCHANGED files
      /\ lease = r
  BY DEF ReadChanged, At, board, CacheInv, Leases, Busy
<1>2. PICK o, p : o = op[r] /\ p = op'[r]
  OBVIOUS
<1>3. o \in Commands
  BY <1>1, <1>2 DEF CacheInv, CacheTypes
<1>4. PICK c : c = [t \in Tasks |-> IF t \in o.changed THEN files[t] ELSE None]
  OBVIOUS
<1>5. /\ p = [o EXCEPT !.at = "store", !.copy = c]
      /\ \A q \in Readers \ {r} : op'[q] = op[q]
      /\ op' \in [Readers -> {op[q] : q \in Readers} \cup {p}]
  BY <1>2, <1>4 DEF ReadChanged, CacheInv, CacheTypes
<1>6. c \in Trees /\ \A t \in o.changed : c[t] = files[t] /\ t \in Tasks
  BY <1>3, <1>4, CacheNoneIs DEF Trees, CacheInv, CacheTypes, Commands
<1>7. /\ p \in Commands /\ p.at = "store" /\ p.seen = o.seen /\ p.changed = o.changed
      /\ p.copy = c /\ p.excused = o.excused
  BY <1>3, <1>5, <1>6 DEF Commands
<1>8. op' \in [Readers -> Commands \cup {None}] /\ p # None
  BY <1>2, <1>5, <1>7, CacheNoneIs DEF CacheInv, CacheTypes
<1>9. CacheTypes' /\ Accounted'
  BY <1>1, <1>8, UntouchedAccounted DEF CacheInv, CacheTypes, board
<1>10. Progress(r)'
  <2>1. Progress(r)
    BY <1>1 DEF CacheInv
  <2> QED
    BY <1>1, <1>2, <1>7, <2>1 DEF Progress, Covered, Sealed
<1>11. \A q \in Readers \ {r} : op[q] # None => Progress(q)'
  BY <1>1, <1>5, OthersStay
<1>12. ASSUME NEW q \in Readers, q = r \/ At(q, "ready") PROVE Known(r, q)'
  <2>1. op[q] # None /\ \A t \in Tasks : files[t] \in op[q].seen[t]
    BY <1>1, <1>12 DEF At, CacheInv, Progress
  <2>2. op'[q].seen = op[q].seen
    BY <1>2, <1>5, <1>7
  <2> QED
    BY <1>2, <1>6, <1>7, <2>1, <2>2 DEF Known
<1> QED
  BY <1>1, <1>2, <1>5, <1>7, <1>8, <1>9, <1>10, <1>11, <1>12, ReaderStep DEF Busy, At

LEMMA DoneIs ==
    ASSUME CacheTypes, NEW r \in Readers, op[r] # None, NEW s \in {"collect", "ready"}, Done(r, s)
    PROVE  /\ op' \in [Readers -> Commands \cup {None}]
           /\ \A q \in Readers \ {r} : op'[q] = op[q]
           /\ op'[r] # None /\ op'[r].at = s
           /\ op'[r].seen = op[r].seen /\ op'[r].excused = op[r].excused
           /\ op'[r].answer = op[r].answer
<1>1. op \in [Readers -> Commands \cup {None}] /\ op[r] \in Commands
  BY DEF CacheTypes
<1>2. op' = [op EXCEPT ![r].at = s, ![r].head = 0, ![r].changed = {}, ![r].due = FALSE, ![r].copy = NoRows]
  BY DEF Done
<1>3. PICK o, p : o = op[r] /\ p = op'[r]
  OBVIOUS
<1>4. p = [o EXCEPT !.at = s, !.head = 0, !.changed = {}, !.due = FALSE, !.copy = NoRows]
  BY <1>1, <1>2, <1>3
<1>5. /\ p \in Commands /\ p.at = s /\ p.seen = o.seen /\ p.excused = o.excused
      /\ p.answer = o.answer
  <2>1. o \in Commands /\ NoRows \in Trees
    BY <1>1, <1>3, CacheNoneIs
  <2>2. PICK e : e = NoRows /\ e \in Trees
    BY <2>1
  <2>3. p = [o EXCEPT !.at = s, !.head = 0, !.changed = {}, !.due = FALSE, !.copy = e]
    BY <1>4, <2>2
  <2> QED
    BY <2>1, <2>2, <2>3 DEF Commands
<1>6. /\ \A q \in Readers \ {r} : op'[q] = op[q]
      /\ op' \in [Readers -> {op[q] : q \in Readers} \cup {p}]
  BY <1>1, <1>2, <1>3
<1>7. op' \in [Readers -> Commands \cup {None}]
  BY <1>1, <1>5, <1>6
<1> QED
  BY <1>3, <1>5, <1>6, <1>7, CacheNoneIs

\* The database is as good as its rows for q, once it is sealed.
Told(q) == Sealed' => \A t \in Tasks : cache'.row[t] \in op[q].seen[t] \/ t \in unnoticed' \cup op[q].excused

\* The owner of the lease replaces rows: whoever is ready to query is told the truth.
LEMMA OwnerProgress ==
    ASSUME CacheInv, NEW r \in Readers, lease = r, \A q \in Readers \ {r} : op'[q] = op[q],
           UNCHANGED files, \A q \in Readers : At(q, "ready") => Told(q)
    PROVE  \A q \in Readers \ {r} : op[q] # None => Progress(q)'
<1> SUFFICES ASSUME NEW q \in Readers \ {r}, op[q] # None PROVE Progress(q)'
  OBVIOUS
<1>1. Progress(q) /\ op'[q] = op[q] /\ op[q].at \notin Busy
  BY DEF CacheInv, Leases
<1>2. op[q].at = "ready" => Told(q)
  BY DEF At
<1>3. op'[q].at = "ready" /\ Sealed' => \A t \in Tasks : Covered(q, t)'
  BY <1>1, <1>2 DEF Told, Covered
<1> QED
  BY <1>1, <1>3 DEF Progress, Busy

\* So is the owner, when it is done with its work.
LEMMA DoneProgress ==
    ASSUME CacheInv, NEW r \in Readers, op[r] # None, NEW s \in {"collect", "ready"}, Done(r, s),
           UNCHANGED files, s = "ready" => Told(r)
    PROVE  Progress(r)'
<1>1. /\ op'[r].at = s /\ op'[r].seen = op[r].seen /\ op'[r].excused = op[r].excused
  BY DoneIs DEF CacheInv
<1>2. \A t \in Tasks : files[t] \in op[r].seen[t]
  BY DEF CacheInv, Progress
<1>3. op'[r].at = "ready" /\ Sealed' => \A t \in Tasks : Covered(r, t)'
  BY <1>1 DEF Told, Covered
<1> QED
  BY <1>1, <1>2, <1>3 DEF Progress

\* A refresh that stores the rows it has read again.
LEMMA StoreKeeps ==
    ASSUME CacheInv, NEW r \in Readers, Store(r)
    PROVE  CacheInv'
<1>1. /\ op[r] # None /\ op[r].at = "store" /\ cache # None /\ lease = r
      /\ UNCHANGED <<files, commits, head, writer>>
      /\ files \in Trees /\ commits \in Seq(Trees) /\ head \in DOMAIN commits /\ touched \in BOOLEAN
      /\ cache \in Databases /\ unnoticed \subseteq Tasks
      /\ Accounted /\ Progress(r) /\ CacheTypes
  BY DEF Store, At, board, CacheInv, CacheTypes, Leases, Busy
<1>2. PICK o : o = op[r]
  OBVIOUS
<1>3. o \in Commands /\ o.changed \subseteq Tasks /\ o.copy \in Trees
  BY <1>1, <1>2 DEF CacheTypes, Commands
<1>4. PICK row : row = [t \in Tasks |-> IF t \in o.changed THEN o.copy[t] ELSE cache.row[t]]
  OBVIOUS
<1>5. PICK db : db = [cache EXCEPT !.row = row]
  OBVIOUS
<1>6. /\ IF o.due \/ row # cache.row
         THEN /\ cache' = Finished(db)
              /\ touched' = FALSE
              /\ Settle(unnoticed \cup Between(o.head, head) \cup Between(cache.head, head), o.changed)
         ELSE cache' = db /\ UNCHANGED touched /\ Settle(unnoticed, o.changed)
      /\ Validated(r)
  BY <1>2, <1>4, <1>5 DEF Store
<1>7. row \in Trees /\ cache.row \in Trees
  BY <1>1, <1>3, <1>4 DEF Trees, Databases
<1>8. /\ db \in Databases /\ db.row = row /\ db.sealed = cache.sealed /\ db.valid = cache.valid
      /\ db.head = cache.head /\ db.untracked = cache.untracked
  BY <1>1, <1>5, <1>7 DEF Databases
<1>9. PICK fin : fin = Finished(db)
  OBVIOUS
<1>10. /\ fin \in Databases /\ fin.row = row /\ fin.sealed = cache.sealed /\ fin.valid = cache.valid
       /\ fin.head = head /\ fin.untracked = IF touched THEN Untracked ELSE cache.untracked
  <2>1. head \in Nat /\ Untracked \subseteq Tasks
    BY <1>1 DEF Untracked
  <2> QED
    BY <1>8, <1>9, <2>1 DEF Finished, Databases
<1>11. PICK now : now = cache'
  OBVIOUS
<1>12. /\ now \in Databases /\ now # None /\ now.row = row /\ now.sealed = cache.sealed
       /\ touched' \in BOOLEAN
  BY <1>1, <1>6, <1>8, <1>9, <1>10, <1>11, CacheNoneIs
<1>13. /\ unnoticed' \subseteq Tasks
       /\ \A t \in unnoticed : t \in unnoticed' \/ row[t] = files[t]
       /\ \A t \in o.changed : files[t] = Tree[t] => t \in unnoticed' \/ row[t] = files[t]
       /\ now = fin => \A t \in Between(cache.head, head) : t \in unnoticed' \/ row[t] = files[t]
       /\ \/ now = fin /\ touched' = FALSE
          \/ now = db /\ row = cache.row /\ touched' = touched
  <2>1. CASE o.due \/ row # cache.row
    <3>1. PICK S : S = unnoticed \cup Between(o.head, head) \cup Between(cache.head, head)
      OBVIOUS
    <3>2. S \in SUBSET Tasks /\ Settle(S, o.changed)
      BY <1>1, <1>6, <2>1, <3>1 DEF Between
    <3>3. /\ unnoticed' \subseteq Tasks
          /\ \A t \in S : t \in unnoticed' \/ row[t] = files[t]
          /\ \A t \in o.changed : files[t] = Tree[t] => t \in unnoticed' \/ row[t] = files[t]
      BY <1>3, <1>11, <1>12, <3>2, SettleIs
    <3> QED
      BY <1>6, <1>9, <1>11, <2>1, <3>1, <3>3
  <2>2. CASE ~(o.due \/ row # cache.row)
    <3>1. Settle(unnoticed, o.changed) /\ now = db /\ row = cache.row /\ touched' = touched
      BY <1>6, <1>11, <2>2
    <3>2. /\ unnoticed' \subseteq Tasks
          /\ \A t \in unnoticed : t \in unnoticed' \/ row[t] = files[t]
          /\ \A t \in o.changed : files[t] = Tree[t] => t \in unnoticed' \/ row[t] = files[t]
      BY <1>1, <1>3, <1>11, <1>12, <3>1, SettleIs
    <3>3. now = fin => \A t \in Between(cache.head, head) : t \in unnoticed' \/ row[t] = files[t]
      BY <1>8, <1>10, <3>1 DEF Between
    <3> QED
      BY <3>1, <3>2, <3>3
  <2> QED
    BY <2>1, <2>2
<1>14. Accounted'
  <2>1. SUFFICES ASSUME now.sealed
                 PROVE  /\ now.valid /\ now.head \in DOMAIN commits
                        /\ touched' \/ Untracked \subseteq now.untracked
                        /\ \A t \in Tasks : files[t] = Tree[t] /\ files[t] = commits[now.head][t]
                                            /\ row[t] # files[t] => t \in unnoticed'
    BY <1>1, <1>11, <1>12 DEF Accounted, Sealed, Untracked, Tracked, Tree
  <2>2. /\ cache.valid /\ cache.head \in DOMAIN commits
        /\ touched \/ Untracked \subseteq cache.untracked
        /\ \A t \in Tasks : files[t] = Tree[t] /\ files[t] = commits[cache.head][t] /\ cache.row[t] # files[t]
                               => t \in unnoticed
    BY <1>1, <1>12, <2>1 DEF Accounted, Sealed
  <2>3. /\ now.valid /\ now.head \in DOMAIN commits
        /\ touched' \/ Untracked \subseteq now.untracked
    BY <1>1, <1>8, <1>10, <1>13, <2>2
  <2>4. ASSUME NEW t \in Tasks, files[t] = Tree[t], files[t] = commits[now.head][t], row[t] # files[t]
        PROVE  t \in unnoticed'
    <3>1. CASE t \in o.changed
      BY <1>13, <2>4, <3>1
    <3>2. CASE t \notin o.changed
      <4>1. cache.row[t] # files[t]
        BY <1>4, <2>4, <3>2
      <4>2. CASE files[t] = commits[cache.head][t]
        BY <1>13, <2>2, <2>4, <4>1, <4>2
      <4>3. CASE files[t] # commits[cache.head][t]
        <5>1. now = fin
          BY <1>8, <1>13, <2>4, <4>3
        <5>2. t \in Between(cache.head, head)
          BY <2>4, <4>3 DEF Between, Tree
        <5> QED
          BY <1>13, <2>4, <5>1, <5>2
      <4> QED
        BY <4>2, <4>3
    <3> QED
      BY <3>1, <3>2
  <2> QED
    BY <2>3, <2>4
<1>15. ASSUME NEW q \in Readers, q = r \/ At(q, "ready") PROVE Told(q)
  <2>1. SUFFICES ASSUME Sealed, NEW t \in Tasks
                 PROVE  row[t] \in op[q].seen[t] \/ t \in unnoticed' \cup op[q].excused
    BY <1>1, <1>11, <1>12 DEF Told, Sealed
  <2>2. Known(r, q) /\ op[q] # None
    BY <1>1, <1>15 DEF CacheInv, At
  <2>3. CASE t \in o.changed
    BY <1>1, <1>2, <1>4, <2>2, <2>3 DEF Known
  <2>4. CASE t \notin o.changed
    <3>1. Progress(q) /\ Covered(q, t)
      BY <1>1, <1>2, <1>15, <2>1, <2>2, <2>4 DEF CacheInv, Progress, At
    <3>2. row[t] = cache.row[t] /\ files[t] \in op[q].seen[t]
      BY <1>4, <2>4, <3>1 DEF Progress
    <3> QED
      BY <1>13, <3>1, <3>2 DEF Covered
  <2> QED
    BY <2>3, <2>4
<1>16. ASSUME NEW s \in {"collect", "ready"}, Done(r, s), s = "collect" => lease' = r, s = "ready" => lease' = None
       PROVE  CacheInv'
  <2>1. /\ op' \in [Readers -> Commands \cup {None}]
        /\ \A q \in Readers \ {r} : op'[q] = op[q]
        /\ op'[r] # None /\ op'[r].at = s
    BY <1>1, <1>16, DoneIs
  <2>2. lease' \in {None, r} /\ (lease' = r <=> s = "collect")
    BY <1>16, CacheNoneIs
  <2>3. CacheTypes'
    BY <1>1, <1>11, <1>12, <1>13, <2>1, <2>2 DEF CacheTypes
  <2>4. \A q \in Readers \ {r} : op[q] # None => Progress(q)'
    BY <1>1, <1>15, <2>1, OwnerProgress
  <2>5. Progress(r)'
    BY <1>1, <1>15, <1>16, DoneProgress
  <2>6. lease' = r => \A q \in Readers : Known(r, q)'
    BY <2>1, <2>2 DEF Known
  <2> QED
    BY <1>1, <1>14, <2>1, <2>2, <2>3, <2>4, <2>5, <2>6, ReaderStep DEF Busy, At
<1> QED
  BY <1>1, <1>6, <1>16 DEF Validated

\* A rebuild has read every file.
LEMMA CollectKeeps ==
    ASSUME CacheInv, NEW r \in Readers, Collect(r)
    PROVE  CacheInv'
<1>1. /\ op[r] # None /\ op[r].at = "collect" /\ lease = r
      /\ UNCHANGED <<board, cache, touched, lease, writer, unnoticed>> /\ UNCHANGED files
      /\ files \in Trees /\ head \in Nat
  BY DEF Collect, At, board, CacheInv, CacheTypes, Leases, Busy
<1>2. PICK o, p : o = op[r] /\ p = op'[r]
  OBVIOUS
<1>3. o \in Commands
  BY <1>1, <1>2 DEF CacheInv, CacheTypes
<1>4. /\ p = [o EXCEPT !.at = "erase", !.copy = files, !.head = head]
      /\ \A q \in Readers \ {r} : op'[q] = op[q]
      /\ op' \in [Readers -> {op[q] : q \in Readers} \cup {p}]
  <2>1. op \in [Readers -> Commands \cup {None}]
    BY DEF CacheInv, CacheTypes
  <2>2. op' = [op EXCEPT ![r].at = "erase", ![r].copy = files, ![r].head = head]
    BY DEF Collect
  <2> QED
    BY <1>2, <2>1, <2>2
<1>5. /\ p \in Commands /\ p.at = "erase" /\ p.seen = o.seen /\ p.copy = files
  BY <1>1, <1>3, <1>4 DEF Commands
<1>6. op' \in [Readers -> Commands \cup {None}] /\ p # None
  BY <1>2, <1>4, <1>5, CacheNoneIs DEF CacheInv, CacheTypes
<1>7. CacheTypes' /\ Accounted'
  BY <1>1, <1>6, UntouchedAccounted DEF CacheInv, CacheTypes, board
<1>8. Progress(r)'
  BY <1>1, <1>2, <1>5 DEF Progress, CacheInv
<1>9. \A q \in Readers \ {r} : op[q] # None => Progress(q)'
  BY <1>1, <1>4, OthersStay
<1>10. ASSUME NEW q \in Readers, q = r \/ At(q, "ready") PROVE Known(r, q)'
  <2>1. op[q] # None /\ \A t \in Tasks : files[t] \in op[q].seen[t]
    BY <1>1, <1>10 DEF At, CacheInv, Progress
  <2>2. op'[q].seen = op[q].seen
    BY <1>2, <1>4, <1>5
  <2> QED
    BY <1>2, <1>5, <2>1, <2>2 DEF Known
<1> QED
  BY <1>1, <1>2, <1>4, <1>5, <1>6, <1>7, <1>8, <1>9, <1>10, ReaderStep DEF Busy, At

\* The database is empty, and tells nobody anything.
LEMMA EraseKeeps ==
    ASSUME CacheInv, NEW r \in Readers, Erase(r)
    PROVE  CacheInv'
<1>1. /\ op[r] # None /\ op[r].at = "erase" /\ lease = r /\ cache' = EmptyDatabase
      /\ UNCHANGED <<board, touched, lease, writer, unnoticed>> /\ UNCHANGED <<files, commits, head>>
  BY DEF Erase, At, board, CacheInv, Leases, Busy
<1>2. PICK o, p : o = op[r] /\ p = op'[r]
  OBVIOUS
<1>3. o \in Commands
  BY <1>1, <1>2 DEF CacheInv, CacheTypes
<1>4. /\ p = [o EXCEPT !.at = "fill"]
      /\ \A q \in Readers \ {r} : op'[q] = op[q]
      /\ op' \in [Readers -> {op[q] : q \in Readers} \cup {p}]
  BY <1>2 DEF Erase, Goto, CacheInv, CacheTypes
<1>5. p \in Commands /\ p.at = "fill" /\ p.seen = o.seen /\ p.copy = o.copy
  BY <1>3, <1>4 DEF Commands
<1>6. op' \in [Readers -> Commands \cup {None}] /\ p # None
  BY <1>2, <1>4, <1>5, CacheNoneIs DEF CacheInv, CacheTypes
<1>7. PICK now : now = cache' /\ now \in Databases /\ now # None /\ now.row = NoRows /\ ~now.sealed
  BY <1>1, EmptyIs
<1>8. CacheTypes'
  BY <1>1, <1>6, <1>7 DEF CacheInv, CacheTypes
<1>9. ~Sealed' /\ Accounted'
  BY <1>7 DEF Accounted, Sealed
<1>10. Progress(r)'
  BY <1>1, <1>2, <1>5 DEF Progress, CacheInv
<1>11. \A q \in Readers \ {r} : op[q] # None => Progress(q)'
  BY <1>1, <1>4, <1>9, OthersStay
<1>12. ASSUME NEW q \in Readers, q = r \/ At(q, "ready") PROVE Known(r, q)'
  <2>1. \A t \in Tasks : o.copy[t] \in op[q].seen[t]
    BY <1>1, <1>2, <1>12 DEF CacheInv, Known
  <2>2. op'[q].seen = op[q].seen
    BY <1>2, <1>4, <1>5
  <2>3. \A t \in Tasks : now.row[t] = None
    BY <1>7, CacheNoneIs
  <2> QED
    BY <1>2, <1>5, <1>7, <2>1, <2>2, <2>3 DEF Known
<1> QED
  BY <1>1, <1>2, <1>4, <1>5, <1>6, <1>8, <1>9, <1>10, <1>11, <1>12, ReaderStep DEF Busy, At

\* The database is whole again.
LEMMA FillKeeps ==
    ASSUME CacheInv, NEW r \in Readers, Fill(r)
    PROVE  CacheInv'
<1>1. /\ op[r] # None /\ op[r].at = "fill" /\ lease = r /\ lease' = None
      /\ UNCHANGED <<files, commits, head, writer>> /\ touched' = FALSE
      /\ files \in Trees /\ commits \in Seq(Trees) /\ head \in DOMAIN commits
      /\ unnoticed \subseteq Tasks /\ Done(r, "ready") /\ CacheTypes
      /\ Known(r, r)
  BY DEF Fill, At, board, CacheInv, CacheTypes, Leases, Busy
<1>2. PICK o : o = op[r]
  OBVIOUS
<1>3. o \in Commands /\ cache # None /\ cache.row \in Trees
  BY <1>1, <1>2 DEF CacheTypes, Known, Databases
<1>4. PICK row : row = [t \in Tasks |-> IF o.copy[t] = None THEN cache.row[t] ELSE o.copy[t]]
  OBVIOUS
<1>5. /\ cache' = [row |-> row, head |-> head, untracked |-> Untracked, valid |-> TRUE, sealed |-> TRUE]
      /\ Settle(unnoticed \cup Between(o.head, head), Tasks)
  BY <1>2, <1>3, <1>4 DEF Fill
<1>6. PICK now : now = cache'
  OBVIOUS
<1>7. /\ now \in Databases /\ now # None /\ now.row = row /\ now.head = head
      /\ now.untracked = Untracked /\ now.valid /\ now.sealed
  <2>1. row \in Trees
    BY <1>3, <1>4 DEF Trees, Commands
  <2>2. head \in Nat /\ Untracked \subseteq Tasks
    BY <1>1 DEF Untracked
  <2>3. now = [row |-> row, head |-> head, untracked |-> Untracked, valid |-> TRUE, sealed |-> TRUE]
    BY <1>5, <1>6
  <2>4. now \in Databases
    BY <2>1, <2>2, <2>3 DEF Databases
  <2> QED
    BY <2>3, <2>4, CacheNoneIs
<1>8. /\ unnoticed' \subseteq Tasks
      /\ \A t \in Tasks : files[t] = Tree[t] => t \in unnoticed' \/ row[t] = files[t]
  <2>1. PICK S : S = unnoticed \cup Between(o.head, head)
    OBVIOUS
  <2>2. S \in SUBSET Tasks /\ Settle(S, Tasks)
    BY <1>1, <1>5, <2>1 DEF Between
  <2> QED
    BY <1>6, <1>7, <2>2, SettleIs
<1>9. Accounted'
  BY <1>1, <1>6, <1>7, <1>8 DEF Accounted, Untracked, Tracked, Tree
<1>10. ASSUME NEW q \in Readers, q = r \/ At(q, "ready") PROVE Told(q)
  <2>1. Known(r, q)
    BY <1>1, <1>10 DEF CacheInv
  <2>2. ASSUME NEW t \in Tasks PROVE row[t] \in op[q].seen[t] \/ t \in op[q].excused
    <3>1. /\ o.copy[t] \in op[q].seen[t]
          /\ cache.row[t] \in op[q].seen[t] \cup {None} \/ t \in op[q].excused
      BY <1>1, <1>2, <2>1 DEF Known
    <3> QED
      BY <1>4, <3>1
  <2> QED
    BY <1>6, <1>7, <2>2 DEF Told
<1>11. /\ op' \in [Readers -> Commands \cup {None}]
       /\ \A q \in Readers \ {r} : op'[q] = op[q]
       /\ op'[r] # None /\ op'[r].at = "ready"
  BY <1>1, DoneIs
<1>12. CacheTypes'
  BY <1>1, <1>6, <1>7, <1>8, <1>11 DEF CacheTypes
<1>13. \A q \in Readers \ {r} : op[q] # None => Progress(q)'
  BY <1>1, <1>10, <1>11, OwnerProgress
<1>14. Progress(r)'
  BY <1>1, <1>10, DoneProgress
<1> QED
  BY <1>1, <1>9, <1>11, <1>12, <1>13, <1>14, ReaderStep, CacheNoneIs DEF Busy, At

\* The answer.
LEMMA QueryKeeps ==
    ASSUME CacheInv, NEW r \in Readers, Query(r)
    PROVE  CacheInv'
<1>1. /\ op[r] # None /\ op[r].at = "ready" /\ lease # r
      /\ UNCHANGED <<board, touched, lease, writer, unnoticed>> /\ UNCHANGED <<files, commits, head>>
      /\ files \in Trees /\ cache \in Databases \cup {None} /\ unnoticed \subseteq Tasks
      /\ cache' = IF cache = None /\ op[r].kind = "query" THEN EmptyDatabase ELSE cache
      /\ Progress(r)
  BY DEF Query, At, board, CacheInv, CacheTypes, Leases, Busy
<1>2. PICK o, p : o = op[r] /\ p = op'[r]
  OBVIOUS
<1>3. o \in Commands
  BY <1>1, <1>2 DEF CacheInv, CacheTypes
<1>4. PICK a, e : a = Answer(r) /\ e = Excused(r)
  OBVIOUS
<1>5. a \in Trees /\ e \in SUBSET Tasks
  BY <1>1, <1>4, CacheNoneIs DEF Answer, Excused, Databases
<1>6. /\ p = [o EXCEPT !.at = "answered", !.answer = a, !.excused = @ \cup e]
      /\ \A q \in Readers \ {r} : op'[q] = op[q]
      /\ op' \in [Readers -> {op[q] : q \in Readers} \cup {p}]
  <2>1. op \in [Readers -> Commands \cup {None}]
    BY DEF CacheInv, CacheTypes
  <2>2. op' = [op EXCEPT ![r].at = "answered", ![r].answer = a, ![r].excused = @ \cup e]
    BY <1>4 DEF Query
  <2> QED
    BY <1>2, <2>1, <2>2
<1>7. /\ p \in Commands /\ p.at = "answered" /\ p.seen = o.seen /\ p.answer = a
      /\ p.excused = o.excused \cup e
  BY <1>3, <1>5, <1>6 DEF Commands
<1>8. op' \in [Readers -> Commands \cup {None}] /\ p # None
  BY <1>2, <1>6, <1>7, CacheNoneIs DEF CacheInv, CacheTypes
<1>9. cache' \in Databases \cup {None} /\ (cache' = cache \/ ~Sealed')
  <2>1. CASE cache' = cache
    BY <1>1, <2>1
  <2>2. CASE cache' = EmptyDatabase
    <3>1. PICK now : now = cache' /\ now \in Databases /\ ~now.sealed
      BY <2>2, EmptyIs
    <3> QED
      BY <3>1 DEF Sealed
  <2> QED
    BY <1>1, <2>1, <2>2
<1>10. CacheTypes'
  BY <1>1, <1>8, <1>9 DEF CacheInv, CacheTypes, board
<1>11. Accounted'
  <2>1. CASE cache' = cache
    BY <1>1, <2>1, UntouchedAccounted DEF CacheInv
  <2>2. CASE ~Sealed'
    BY <2>2 DEF Accounted
  <2> QED
    BY <1>9, <2>1, <2>2
<1>12. \A q \in Readers \ {r} : op[q] # None => Progress(q)'
  BY <1>1, <1>6, <1>9, OthersStay
<1>13. ASSUME NEW t \in Tasks, t \notin p.excused PROVE a[t] \in p.seen[t]
  <2>1. t \notin o.excused /\ t \notin e /\ files[t] \in o.seen[t]
    BY <1>1, <1>2, <1>7, <1>13 DEF Progress
  <2>2. cache # None /\ cache.valid /\ cache.sealed /\ e = unnoticed
    BY <1>4, <1>13, <2>1 DEF Excused
  <2>3. a = cache.row
    BY <1>4, <2>2 DEF Answer
  <2>4. Covered(r, t)
    BY <1>1, <2>2 DEF Progress, Sealed
  <2> QED
    BY <1>2, <1>7, <2>1, <2>2, <2>3, <2>4 DEF Covered
<1>14. Progress(r)'
  BY <1>1, <1>2, <1>7, <1>13 DEF Progress
<1>15. lease' \notin {None, r} /\ cache # None => cache' = cache
  BY <1>1
<1> QED
  BY <1>1, <1>2, <1>6, <1>7, <1>8, <1>10, <1>11, <1>12, <1>14, <1>15, ReaderStep DEF Busy, At

\* A command ends, or is killed with its lease.
LEMMA EndKeeps ==
    ASSUME CacheInv, NEW r \in Readers, Leave(r) \/ Kill(r)
    PROVE  CacheInv'
<1>1. /\ UNCHANGED <<board, cache, touched, writer, unnoticed>> /\ UNCHANGED files
      /\ op' = [op EXCEPT ![r] = None]
      /\ (lease # r /\ lease' = lease) \/ (lease = r /\ lease' = None)
  BY DEF Leave, Kill, board, At, CacheInv, Leases, Busy
<1>2. /\ op' \in [Readers -> Commands \cup {None}] /\ op'[r] = None
      /\ \A q \in Readers \ {r} : op'[q] = op[q]
  BY <1>1 DEF CacheInv, CacheTypes
<1>3. CacheTypes' /\ Accounted'
  BY <1>1, <1>2, UntouchedAccounted DEF CacheInv, CacheTypes, board
<1>4. \A q \in Readers \ {r} : op[q] # None => Progress(q)'
  BY <1>1, <1>2, OthersStay
<1>5. lease' # r
  BY <1>1, CacheNoneIs
<1> QED
  BY <1>1, <1>2, <1>3, <1>4, <1>5, ReaderStep DEF At

---------------------------------------------------------------------------

LEMMA CacheStarts == Init => CacheInv
<1> SUFFICES ASSUME Init PROVE CacheInv
  OBVIOUS
<1>1. /\ files \in Trees /\ commits = <<files>> /\ head = 1 /\ cache = None /\ touched = FALSE
      /\ lease = None /\ op = [r \in Readers |-> None] /\ writer = None /\ unnoticed = {}
  BY DEF Init
<1>2. commits \in Seq(Trees) /\ head \in DOMAIN commits
  BY <1>1
<1>3. CacheTypes
  BY <1>1, <1>2 DEF CacheTypes
<1>4. Accounted /\ Leases
  BY <1>1, CacheNoneIs DEF Accounted, Sealed, Leases
<1>5. \A r \in Readers : op[r] = None /\ lease # r
  BY <1>1, CacheNoneIs
<1> QED
  BY <1>3, <1>4, <1>5 DEF CacheInv

LEMMA CacheKeeps == CacheInv /\ [Next]_vars => CacheInv'
<1> SUFFICES ASSUME CacheInv, [Next]_vars PROVE CacheInv'
  OBVIOUS
<1>1. CASE Edit \/ Remove \/ Commit \/ Checkout \/ Restore
  BY <1>1, PeopleKeep
<1>2. CASE DropCache \/ UpsertFails
  BY <1>2, DropsKeep
<1>3. CASE Activate
  BY <1>3, ActivateKeeps
<1>4. CASE Upsert
  BY <1>4, UpsertKeeps
<1>5. ASSUME NEW r \in Readers,
             \/ Begin(r) \/ Examine(r) \/ ReadChanged(r) \/ Store(r)
             \/ Collect(r) \/ Erase(r) \/ Fill(r) \/ Query(r) \/ Leave(r) \/ Kill(r)
      PROVE  CacheInv'
  BY <1>5, BeginKeeps, ExamineKeeps, ReadChangedKeeps, StoreKeeps, CollectKeeps, EraseKeeps,
     FillKeeps, QueryKeeps, EndKeeps
<1>6. CASE UNCHANGED vars
  <2>1. UNCHANGED <<files, commits, head, cache, touched, lease, op, writer, unnoticed>>
    BY <1>6 DEF vars, board
  <2>2. CacheTypes' /\ Accounted' /\ Leases'
    BY <2>1, UntouchedAccounted DEF CacheInv, CacheTypes, Leases, board
  <2>3. ASSUME NEW r \in Readers, op'[r] # None PROVE Progress(r)'
    BY <2>1, <2>3 DEF CacheInv, Progress, Covered, Sealed
  <2>4. ASSUME NEW p \in Readers, NEW r \in Readers, lease' = p, r = p \/ At(r, "ready")'
        PROVE  Known(p, r)'
    BY <2>1, <2>4 DEF CacheInv, Known, At
  <2> QED
    BY <2>2, <2>3, <2>4 DEF CacheInv
<1> QED
  BY <1>1, <1>2, <1>3, <1>4, <1>5, <1>6 DEF Next

\* What a list, a search or a show is told of a task its file has said at some moment of
\* the command, for any numbers of readers and tasks and however people, Git and mutations
\* (cache.py, storage.py) change them meanwhile, apart from the windows that `excused`
\* names: an unfinished database, a change no signature shows, a late row of a mutation.
THEOREM CacheSafe == Spec => []ReadsAreExplained
<1>1. CacheInv => ReadsAreExplained
  BY DEF CacheInv, Progress, ReadsAreExplained, At
<1> QED
  BY <1>1, CacheStarts, CacheKeeps, PTL DEF Spec

=============================================================================
