CONSTANTS
    w1 = w1
    w2 = w2
    None = None
    Creators = {w1}
    Updaters = {w2}
    MaxRuns = 1
SPECIFICATION Spec
INVARIANT FaultsRestore
CHECK_DEADLOCK FALSE
