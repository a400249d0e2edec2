SPECIFICATION Spec
CONSTANTS
    Tasks = {1}
    p1 = p1
    p2 = p2
    c1 = c1
    c2 = c2
    Procs = {p1, p2}
    Contents = {c1, c2}
    None = None
    Tombstone = Tombstone
    Kinds = {"create", "update", "exact-replace", "delete"}
    Reconcilers = {p1, p2}
    Editable = {1}
    MaxEvents = 3
    MaxHead = 1
    MaxCrashes = 1
SYMMETRY Symmetric
INVARIANTS
    TypeOK
    Restorable
    LedgerSpeaks
    
    Protocol
PROPERTIES
    CommittedHistorySurvives
