\* The machines; symmetry among the movers of the migration, which no
\* other machine names.  Each may end: an order is printed, a bound is reached.
CONSTANTS
    None = None
    w1 = w1  w2 = w2
    Creators = {w1}
    Updaters = {w2}
    MaxRuns = 3
    g1 = g1  g2 = g2  g3 = g3  v1 = v1  v2 = v2  y1 = y1  y2 = y2  y3 = y3
    NumSources = 2
    Ids = {g1, g2, g3}
    Candidates <- SameCandidates
    Movers = {v1, v2}
    Selections <- OneOrAll
    Nil = Nil
    MaxEvents = 1
    NumNodes = 4
    DoneBlockers <- FirstOnly
    Limit = 6
    Sizes <- SomeSizes
    Nobody = Nobody
    MaxLines = 5
    Rows = {y1, y2, y3}
    PageSize = 1
    NoCursor = NoCursor
    MaxStamp = 5
    NumBoards = 2
    MergeIds = {1, 2}
    BlockedBy <- SecondOnFirst
    MaxTime = 2
    Absent = Absent
    NumRecords = 3
    MaxBytes = 4
SPECIFICATION ToolsSpec
SYMMETRY MoverSymmetry
CHECK_DEADLOCK FALSE
INVARIANTS
    AcknowledgedSurvive
    WholeOrUndone
    MergeAddsUp
    VerifiedHolds
    OneRecordPerSource
    
    CriticalPathIsLongest
    SegmentsWithinLimit
    LedgerIsLog
    WalkIsExact
    PacksFollowThePlan
