CONSTANTS
    m1 = m1
    m2 = m2
    r1 = r1
    None = None
    Commands = {m1, m2, r1}
    Kind <- MCKind
    Amount <- MCAmount
    Positions <- MCPositions
    RestPose = 0
    Capacity = 2
    Steps = 1
    SeenLimit = 5
    SetModes = {"active", "error"}
    MaxSubmits <- MCSubmits
    MaxImmediate = 0
    MaxFailures = 0
    MayClose = FALSE
SPECIFICATION Spec
PROPERTIES
    CancelledOnlyForRest
