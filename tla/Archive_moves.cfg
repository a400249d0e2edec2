SPECIFICATION Spec
CONSTANTS
    t1 = t1
    t2 = t2
    w1 = w1
    w2 = w2
    Tasks = {t1, t2}
    Writers = {w1}
    None = None
    MaxVersion = 1
    MaxHead = 2
    Interrupts = TRUE
    Kills = TRUE
    Recorders = TRUE
SYMMETRY Symmetric
INVARIANTS
    ExactlyOnce
    HeadHoldsFrozen
PROPERTIES
    CommittedPacksStay
CHECK_DEADLOCK FALSE
