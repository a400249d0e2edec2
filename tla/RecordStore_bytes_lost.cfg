SPECIFICATION Spec
CONSTANTS
    r1 = r1
    r2 = r2
    c1 = c1
    c2 = c2
    c3 = c3
    b1 = b1
    b2 = b2
    Records = {r1, r2}
    Clients = {c1, c2}
    Contents = {b1, b2}
    None = None
    MaxRevision = 2
    Kills = FALSE
SYMMETRY Symmetric
INVARIANT
    ReferencedBytesExist
CHECK_DEADLOCK FALSE
