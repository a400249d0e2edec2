\* The machines; all processes are of one set, which the symmetry is about.
\* Each may end: a bound is reached.
CONSTANTS
    p1 = p1  p2 = p2
    Clients = {p1, p2}
    BlockerIds = {1, 2}
    FieldNames = {1, 2}
    Idle = Idle
    MaxWrites = 3
    MaxTasks = 3
    Cards = {1, 2}
    Shapes = {1}
    Gates = {1, 2}
    Unset = Unset
    MaxWork = 1
    Searchers = {p1, p2}
    RecordIds = {1, 2, 3}
    TaskIds = {1}
    Queries <- OneAndTwo
    MaxCandidates = 3
    Missing = Missing
    MaxFileChanges = 3
    Publishers = {p1, p2}
    Manifests <- TwoManifests
    LockOf <- ThreeLocks
    Project = Project
    Free = Free
    MaxRevision = 2
    Installers = {p1, p2}
    SkillSpots = {1, 2}
    LegacySpots = {3}
    Releases = {1, 2}
    OldRelease = OldRelease
    Edited = Edited
    Nothing = Nothing
    MaxInstalls = 2
    MaxEdits = 1
    Callers = {p1, p2}
    Aliases = {1, 2}
    Projects = {1, 2}
    Nowhere = Nowhere
    MaxCalls = 4
    Lookers = {p1, p2}
    Gone = Gone
    MaxVersion = 2
    MaxMoves = 2
    Threads = {p1, p2}
    NoReply = NoReply
    MaxHosted = 3
SPECIFICATION CommandsSpec
SYMMETRY ProcessSymmetry
CHECK_DEADLOCK FALSE
INVARIANTS
    EditsAddUp
    
    LiftIsEarned
    SearchAddsUp
    
    NoCircularWait
    InstallKeepsWork
    ConfirmedChangesStay
    AnswersAreTrue
    HostTellsTheTruth
