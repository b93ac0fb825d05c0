CONSTANTS
    m1 = m1
    m2 = m2
    r1 = r1
    None = None
    Commands = {m1, m2, r1}
    Kind <- MCKind
    Amount <- MCAmount
    Positions <- MCPositions
    RestPose = 0
    Capacity = 2
    Steps = 1
    SeenLimit = 2
    SetModes = {"active", "error"}
    MaxSubmits <- MCSubmits
    MaxImmediate = 1
    MaxFailures = 1
    MayClose = TRUE
SPECIFICATION FairSpec
INVARIANTS
    TypeOK
    Bookkeeping
    RestInterrupts
PROPERTIES
    LifecycleSpec
    RevisionsInOrder
    EveryAcceptedFinishes
