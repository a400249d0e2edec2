CONSTANTS
    t1 = t1
    t2 = t2
    r1 = r1
    r2 = r2
    c1 = c1
    c2 = c2
    None = None
    Tasks = {t1, t2}
    Readers = {r1}
    Contents = {c1, c2}
    MaxCommits = 1
    MaxChanges = 2
SPECIFICATION Spec
INVARIANT ReadsAreFresh
SYMMETRY SmallSymmetry
