SPECIFICATION FairSpec
CONSTANTS
    Tasks = {1, 2}
    p1 = p1
    p2 = p2
    c1 = c1
    c2 = c2
    Procs = {p1, p2}
    Contents = {c1, c2}
    None = None
    Tombstone = Tombstone
    Kinds = {"create", "umbrella-finalize"}
    Reconcilers = {}
    Editable = {}
    MaxEvents = 2
    MaxHead = 1
    MaxCrashes = 2
INVARIANTS
    SingleTransaction
PROPERTIES
    ImplementsAtomicBoard
    IntentResolved
