----------------------------- MODULE SkillInstall -----------------------------
(***************************************************************************)
(* Installation of the agent skills in a project (skills.py, install).     *)
(* Each skill directory is set aside and replaced, recorded skills of old  *)
(* releases are set aside, the install record is written, and the copies   *)
(* set aside go.  An exception undoes it; Ctrl-C and a kill do not.        *)
(* Nothing is locked: another install, or the user, may come between.      *)
(***************************************************************************)
EXTENDS Naturals, Sequences, SequencesExt, Ordering

CONSTANTS
    Installers,   \* processes
    SkillSpots,   \* numbers of the skill directories, in DESTINATIONS' order
    LegacySpots,  \* numbers of the directories that old releases used
    Releases,     \* releases to install
    OldRelease,   \* the release that filled the legacy directories
    Edited,       \* what the user has made of a directory
    Nothing,      \* no directory, no record, no call
    MaxInstalls,  \* bound: calls
    MaxEdits      \* bound: edits of the user

ASSUME SkillInstallAssumption ==
    /\ SkillSpots \cup LegacySpots \subseteq Nat \ {0} /\ SkillSpots \cap LegacySpots = {}
    /\ IsFiniteSet(SkillSpots \cup LegacySpots)
    /\ {MaxInstalls, MaxEdits} \subseteq Nat
    /\ {OldRelease, Edited, Nothing} \cap Releases = {}
    /\ OldRelease # Edited /\ OldRelease # Nothing /\ Edited # Nothing
    /\ Nothing \notin Installers

\* What a directory may hold, what is set aside of one, and a call.
Contents == Releases \cup {OldRelease, Edited, Nothing}
Spots == SkillSpots \cup LegacySpots
TheRecord == 0
SetAsides == [spot : Spots, was : Contents, legacy : BOOLEAN]
Installations ==
    [stage : {"swap", "put", "clean", "undo", "undone"}, release : Releases, force : BOOLEAN,
     planned : Seq(SkillSpots), retired : Seq(LegacySpots), aside : Seq(SetAsides),
     before : [Spots -> Contents], record : Contents, disturbed : SUBSET (Spots \cup {TheRecord})]

ASSUME NothingAssumption == Nothing \notin Installations

VARIABLES
    found,      \* directory -> the release it is of, Edited or Nothing
    recorded,   \* the release of the install record, or Nothing
    install,    \* installer -> its call
    installs,   \* calls so far
    edits,      \* edits so far
    destroyed   \* history: edits, older than the call, that an unforced call deleted

skillVars == <<found, recorded, install, installs, edits, destroyed>>

\* The other calls learn, for the properties, that a directory, or the record, has changed.
Disturbing(i, s, calls) ==
    [j \in Installers |-> IF j = i \/ calls[j] = Nothing THEN calls[j]
                          ELSE [calls[j] EXCEPT !.disturbed = @ \cup {s}]]

\* A legacy directory is retired when the record has its exact bytes.
RetirableAny == {s \in LegacySpots : found[s] # Nothing /\ recorded = OldRelease}
Retirable == {s \in LegacySpots : found[s] = OldRelease /\ recorded = OldRelease}

\* Record and directories are looked at in one step; a change from outside
\* between two looks is as one just after.  The copies to put in place are made.
StartInstall(i) ==
    /\ install[i] = Nothing /\ installs < MaxInstalls
    /\ \E release \in Releases, force \in BOOLEAN :
          LET planned == {s \in SkillSpots : found[s] # release} IN
          /\ force \/ \A s \in planned : found[s] = Nothing
          /\ install' = [install EXCEPT ![i] =
                [stage |-> "swap", release |-> release, force |-> force,
                 planned |-> Ascending(planned), retired |-> Ascending(Retirable),
                 aside |-> <<>>, before |-> found, record |-> recorded, disturbed |-> {}]]
    /\ installs' = installs + 1
    /\ UNCHANGED <<found, recorded, edits, destroyed>>

At(i, stage) == install[i] # Nothing /\ install[i].stage = stage

\* The call goes on: its stage, what is left of its lists and what it has set aside.
GoesOn(i, stage, planned, retired, aside) ==
    [install EXCEPT ![i] =
        [stage |-> stage, planned |-> planned, retired |-> retired, aside |-> aside,
         release |-> install[i].release, force |-> install[i].force,
         before |-> install[i].before, record |-> install[i].record,
         disturbed |-> install[i].disturbed]]

\* It goes on to another stage, or with less set aside.
Enters(i, stage) ==
    GoesOn(i, stage, install[i].planned, install[i].retired, install[i].aside)
Keeps(i, aside) ==
    GoesOn(i, install[i].stage, install[i].planned, install[i].retired, aside)

\* What is set aside of a directory, for the undo and the end of the call.
Aside(i, s, legacy) == [spot |-> s, was |-> found[s], legacy |-> legacy]

\* The directory is looked at again, and whatever is there is set aside.
SetAside(i) ==
    /\ At(i, "swap") /\ install[i].planned # <<>>
    /\ LET s == Head(install[i].planned) IN
       /\ found' = [found EXCEPT ![s] = Nothing]
       /\ install' = Disturbing(i, s, GoesOn(i, "put", install[i].planned,
             install[i].retired, Append(install[i].aside, Aside(i, s, FALSE))))
    /\ UNCHANGED <<recorded, installs, edits, destroyed>>

PutNew(i) ==
    /\ At(i, "put")
    /\ LET s == Head(install[i].planned) IN
       IF found[s] = Nothing
       THEN /\ found' = [found EXCEPT ![s] = install[i].release]
            /\ install' = Disturbing(i, s, GoesOn(i, "swap", Tail(install[i].planned),
                  install[i].retired, install[i].aside))
       ELSE install' = Enters(i, "undo") /\ UNCHANGED found
    /\ UNCHANGED <<recorded, installs, edits, destroyed>>

RetireOld(i) ==
    /\ At(i, "swap") /\ install[i].planned = <<>> /\ install[i].retired # <<>>
    /\ LET s == Head(install[i].retired) IN
       IF found[s] # Nothing
       THEN /\ found' = [found EXCEPT ![s] = Nothing]
            /\ install' = Disturbing(i, s, GoesOn(i, "swap", install[i].planned,
                  Tail(install[i].retired), Append(install[i].aside, Aside(i, s, TRUE))))
       ELSE install' = Enters(i, "undo") /\ UNCHANGED found
    /\ UNCHANGED <<recorded, installs, edits, destroyed>>

WriteRecord(i) ==
    /\ At(i, "swap") /\ install[i].planned = <<>> /\ install[i].retired = <<>>
    /\ recorded' = install[i].release
    /\ install' = Disturbing(i, TheRecord, Enters(i, "clean"))
    /\ UNCHANGED <<found, installs, edits, destroyed>>

\* The user's, in the directory since before the call, which was not forced.
Mourned(i, s, content) ==
    IF content = Edited /\ ~install[i].force /\ s \notin install[i].disturbed
    THEN destroyed \cup {s} ELSE destroyed

Clean(i) ==
    /\ At(i, "clean")
    /\ IF install[i].aside = <<>>
       THEN install' = [install EXCEPT ![i] = Nothing] /\ UNCHANGED destroyed
       ELSE LET a == Head(install[i].aside) IN
            /\ destroyed' = Mourned(i, a.spot, a.was)
            /\ install' = Keeps(i, Tail(install[i].aside))
    /\ UNCHANGED <<found, recorded, installs, edits>>

---------------------------------------------------------------------------
(* Failures *)

\* Any exception.
FailInstall(i) ==
    /\ install[i] # Nothing /\ install[i].stage \in {"swap", "put"}
    /\ install' = Enters(i, "undo")
    /\ UNCHANGED <<found, recorded, installs, edits, destroyed>>

\* Wrong: a directory that did not exist before stays.
PutBackOld(i) ==
    LET a == Last(install[i].aside) IN
    /\ At(i, "undo") /\ install[i].aside # <<>>
    /\ found' = [found EXCEPT ![a.spot] = IF a.was = Nothing THEN @ ELSE a.was]
    /\ install' = Disturbing(i, a.spot, Keeps(i, Front(install[i].aside)))
    /\ UNCHANGED <<recorded, installs, edits, destroyed>>

\* In reverse order.  A new directory is deleted, with what the user did to it;
\* a retired one cannot be put back over a directory, and the undo ends there.
PutBack(i) ==
    LET a == Last(install[i].aside)  taken == found[a.spot] # Nothing IN
    /\ At(i, "undo") /\ install[i].aside # <<>>
    /\ IF a.legacy /\ taken
       THEN install' = [install EXCEPT ![i] = Nothing] /\ UNCHANGED <<found, destroyed>>
       ELSE /\ found' = [found EXCEPT ![a.spot] = a.was]
            /\ install' = Disturbing(i, a.spot, Keeps(i, Front(install[i].aside)))
            /\ destroyed' = Mourned(i, a.spot, found[a.spot])
    /\ UNCHANGED <<recorded, installs, edits>>

PutBackRecord(i) ==
    /\ At(i, "undo") /\ install[i].aside = <<>>
    /\ recorded' = install[i].record
    /\ install' = Disturbing(i, TheRecord, Enters(i, "undone"))
    /\ UNCHANGED <<found, installs, edits, destroyed>>

\* An undone call ends; Ctrl-C or a kill ends any, and leaves what it set aside.
EndInstall(i) ==
    /\ install[i] # Nothing
    /\ install' = [install EXCEPT ![i] = Nothing]
    /\ UNCHANGED <<found, recorded, installs, edits, destroyed>>

\* The user edits or deletes a directory.
EditSkill ==
    /\ edits < MaxEdits /\ edits' = edits + 1
    /\ \E s \in Spots, content \in {Edited, Nothing} :
          /\ found[s] \notin {content, Nothing}
          /\ found' = [found EXCEPT ![s] = content]
          /\ install' = Disturbing(Nothing, s, install)
    /\ UNCHANGED <<recorded, installs, destroyed>>

\* Skills were never installed, or by the release that filled the legacy
\* directories.
SkillInit ==
    /\ recorded \in {Nothing, OldRelease}
    /\ found = [s \in Spots |-> IF s \in LegacySpots THEN OldRelease ELSE Nothing]
    /\ install = [i \in Installers |-> Nothing]
    /\ installs = 0 /\ edits = 0 /\ destroyed = {}

SkillNext ==
    \/ \E i \in Installers :
          \/ StartInstall(i) \/ SetAside(i) \/ PutNew(i) \/ RetireOld(i)
          \/ WriteRecord(i) \/ Clean(i)
          \/ FailInstall(i) \/ PutBack(i) \/ PutBackRecord(i) \/ EndInstall(i)
    \/ EditSkill

SkillSpec == SkillInit /\ [][SkillNext]_skillVars

---------------------------------------------------------------------------
(* Properties *)

\* A call that fails leaves every directory, and the record, as it found them,
\* unless somebody else wrote them in the meantime; however far it had come.
FailureRestores ==
    \A i \in Installers :
        At(i, "undone") =>
            /\ \A s \in Spots \ install[i].disturbed : found[s] = install[i].before[s]
            /\ TheRecord \notin install[i].disturbed => recorded = install[i].record

\* Without --force nothing that the user had made of a directory, skill or
\* legacy, before the call is deleted, whoever installs or undoes at the time.
EditsKept == destroyed = {}

\* An install either happens or leaves things as they were, and keeps the
\* user's work.
InstallKeepsWork == FailureRestores /\ EditsKept

=============================================================================
