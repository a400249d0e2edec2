----------------------------- MODULE MCCommands -----------------------------
(***************************************************************************)
(* Commands that share nothing, in one run: task edits that compute from   *)
(* an unlocked read, the end of the compatibility window, record search,   *)
(* publication of a package wiki, installation of skills, the project      *)
(* registry, and lookups of a task on the move.  A behaviour picks one,    *)
(* and the others rest in one initial state.                               *)
(***************************************************************************)
EXTENDS Sessions, Window, RecordIndex, Publication, SkillInstall, Registry, Lookup,
        Host, TLC

CONSTANTS p1, p2

VARIABLE machine
commandsVars ==
    <<machine, sessionVars, windowVars, indexVars, publicationVars, skillVars, registryVars, lookupVars, hostVars>>

\* Manifests that share a Document; the first and the last entry of a
\* manifest may share a lock.
TwoManifests == << {1, 2}, {2, 3} >>
ThreeLocks == << 1, 2, 1 >>

\* A page of one row, and a page that its budget cuts.
OneAndTwo == {[limit |-> 1, budget |-> 4], [limit |-> 2, budget |-> 2]}

\* Every machine treats its processes alike.
ProcessSymmetry == Permutations({p1, p2})

CommandsInit ==
    /\ machine \in {"sessions", "window", "search", "wiki", "skills", "registry", "lookup",
                    "host"}
    /\ machine # "window" => shapes = [c \in Cards |-> {}]
    /\ machine # "skills" => recorded = Nothing
    /\ SessionsInit /\ WindowInit /\ RecordIndexInit /\ PublicationInit
    /\ SkillInit /\ RegistryInit /\ LookupInit /\ HostInit

CommandsNext ==
    /\ machine' = machine
    /\ \/ /\ machine = "sessions" /\ SessionsNext
          /\ UNCHANGED <<windowVars, indexVars, publicationVars,
                         skillVars, registryVars, lookupVars, hostVars>>
       \/ /\ machine = "window" /\ WindowNext
          /\ UNCHANGED <<sessionVars, indexVars, publicationVars,
                         skillVars, registryVars, lookupVars, hostVars>>
       \/ /\ machine = "search" /\ RecordIndexNext
          /\ UNCHANGED <<sessionVars, windowVars, publicationVars,
                         skillVars, registryVars, lookupVars, hostVars>>
       \/ /\ machine = "wiki" /\ PublicationNext
          /\ UNCHANGED <<sessionVars, windowVars, indexVars,
                         skillVars, registryVars, lookupVars, hostVars>>
       \/ /\ machine = "skills" /\ SkillNext
          /\ UNCHANGED <<sessionVars, windowVars, indexVars,
                         publicationVars, registryVars, lookupVars, hostVars>>
       \/ /\ machine = "registry" /\ RegistryNext
          /\ UNCHANGED <<sessionVars, windowVars, indexVars,
                         publicationVars, skillVars, lookupVars, hostVars>>
       \/ /\ machine = "lookup" /\ LookupNext
          /\ UNCHANGED <<sessionVars, windowVars, indexVars,
                         publicationVars, skillVars, registryVars, hostVars>>
       \/ /\ machine = "host" /\ HostNext
          /\ UNCHANGED <<sessionVars, windowVars, indexVars,
                         publicationVars, skillVars, registryVars, lookupVars>>

CommandsSpec == CommandsInit /\ [][CommandsNext]_commandsVars
=============================================================================
