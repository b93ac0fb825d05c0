SPECIFICATION FairSpec
CONSTANTS
    Joints = {yaw}
    Values = {v1}
    Home = Home
    None = None
    MaxEdits = 2
    MaxEpoch = 2
    MaxEvents = 1
    MayRefuse = TRUE
INVARIANTS
    
    SentAsMeant
PROPERTIES
    ReleaseIsKept
    PreviewEnds
CHECK_DEADLOCK FALSE
