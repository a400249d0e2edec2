SPECIFICATION PartSpec
CONSTANTS
    t1 = t1
    t2 = t2
    t3 = t3
    p1 = p1
    p2 = p2
    Tasks = {t1, t2, t3}
    Procs = {p1, p2}
    None = None
    Statuses = {"todo", "done"}
    Umbrellas = {t1}
    Unchecked = {"delete", "exact-replace", "replace-record"}
SYMMETRY Symmetric
INVARIANTS
    TypeOK
    DoneIsUnblocked
    
CHECK_DEADLOCK FALSE
