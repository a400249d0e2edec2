SPECIFICATION FairSpec
CONSTANTS
    Tasks = {1}
    p1 = p1
    p2 = p2
    c1 = c1
    c2 = c2
    Procs = {p1, p2}
    Contents = {c1, c2}
    None = None
    Tombstone = Tombstone
    Kinds = {"update"}
    Reconcilers = {p2}
    Editable = {}
    MaxEvents = 3
    MaxHead = 0
    MaxCrashes = 1
PROPERTIES
    IntentResolved
