------------------------------- MODULE Registry -------------------------------
(***************************************************************************)
(* The machine-wide registry of projects (project_registry.py): one JSON   *)
(* file, replaced as a whole under a lock that callers give up waiting     *)
(* for.  Listing and routing to a project read it without the lock.        *)
(***************************************************************************)
EXTENDS Naturals

CONSTANTS
    Callers,    \* processes
    Aliases,    \* names of projects
    Projects,   \* directories of projects
    Nowhere,    \* no entry, no call
    MaxCalls    \* bound: calls

\* What the file may hold, and what a call asks for and has read.
RegistryContents == [Aliases -> Projects \cup {Nowhere}]
ChangeRequests ==
    [stage : {"wait", "look", "saved"}, alias : Aliases, to : Projects \cup {Nowhere},
     replace : BOOLEAN, read : RegistryContents]

ASSUME RegistryAssumption ==
    MaxCalls \in Nat /\ Nowhere \notin Projects \cup Callers \cup ChangeRequests

VARIABLES
    registry,   \* alias -> the project, or Nowhere
    gate,       \* holder of the registry's lock
    request,    \* caller -> its call
    calls,      \* calls so far
    confirmed,  \* history: the registry as the confirmed calls add it up
    unsure      \* history: aliases of which a failed call has saved the change

registryVars == <<registry, gate, request, calls, confirmed, unsure>>

\* The alias and the project have been validated.  `to`: Nowhere for remove.
AskChange(c) ==
    /\ request[c] = Nowhere /\ calls < MaxCalls /\ calls' = calls + 1
    /\ \E alias \in Aliases, to \in Projects \cup {Nowhere}, replace \in BOOLEAN :
          request' = [request EXCEPT ![c] =
             [stage |-> "wait", alias |-> alias, to |-> to, replace |-> replace, read |-> registry]]
    /\ UNCHANGED <<registry, gate, confirmed, unsure>>

\* Wrong: works on the registry as it was before the wait.
TakeGateStale(c) ==
    /\ request[c] # Nowhere /\ request[c].stage = "wait" /\ gate = Nowhere
    /\ gate' = c /\ request' = [request EXCEPT ![c].stage = "look"]
    /\ UNCHANGED <<registry, calls, confirmed, unsure>>

\* And reads the registry under it.
TakeGate(c) ==
    /\ request[c] # Nowhere /\ request[c].stage = "wait" /\ gate = Nowhere
    /\ gate' = c /\ request' = [request EXCEPT ![c].stage = "look", ![c].read = registry]
    /\ UNCHANGED <<registry, calls, confirmed, unsure>>

\* The lock goes with the process: the wait is over, an error, Ctrl-C or a kill.
\* Once the file is replaced the change stays.
StopRequest(c) ==
    /\ request[c] # Nowhere /\ request' = [request EXCEPT ![c] = Nowhere]
    /\ gate' = IF gate = c THEN Nowhere ELSE gate
    /\ unsure' = IF request[c].stage = "saved" THEN unsure \cup {request[c].alias} ELSE unsure
    /\ UNCHANGED <<registry, calls, confirmed>>

\* add without --replace refuses a known alias, remove an unknown one.
Allowed(c) ==
    LET r == request[c] IN
    IF r.to = Nowhere THEN r.read[r.alias] # Nowhere ELSE r.read[r.alias] = Nowhere \/ r.replace

\* A temporary file is written and takes the registry's place.
SaveRegistry(c) ==
    LET r == request[c] IN
    /\ r # Nowhere /\ r.stage = "look" /\ Allowed(c)
    /\ registry' = [r.read EXCEPT ![r.alias] = r.to]
    /\ request' = [request EXCEPT ![c].stage = "saved"]
    /\ UNCHANGED <<gate, calls, confirmed, unsure>>

ConfirmChange(c) ==
    LET r == request[c] IN
    /\ r # Nowhere /\ r.stage = "saved"
    /\ confirmed' = [confirmed EXCEPT ![r.alias] = r.to]
    /\ unsure' = unsure \ {r.alias}
    /\ gate' = Nowhere /\ request' = [request EXCEPT ![c] = Nowhere]
    /\ UNCHANGED <<registry, calls>>

RegistryInit ==
    /\ registry = [a \in Aliases |-> Nowhere] /\ gate = Nowhere
    /\ request = [c \in Callers |-> Nowhere] /\ calls = 0
    /\ confirmed = registry /\ unsure = {}

RegistryNext ==
    \E c \in Callers :
        AskChange(c) \/ TakeGate(c) \/ StopRequest(c) \/ SaveRegistry(c) \/ ConfirmChange(c)

RegistrySpec == RegistryInit /\ [][RegistryNext]_registryVars

---------------------------------------------------------------------------
(* Properties *)

\* Whenever no call holds the lock, what list and route read (they do not take
\* it) is what the confirmed calls add up to, but for an alias that a failed
\* call had saved already.
ConfirmedChangesStay ==
    gate = Nowhere => \A a \in Aliases \ unsure : registry[a] = confirmed[a]

=============================================================================
