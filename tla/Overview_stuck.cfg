SPECIFICATION FairSpec
CONSTANTS
    Joints = {yaw}
    Values = {v1}
    Home = Home
    None = None
    MaxEdits = 2
    MaxEpoch = 1
    MaxEvents = 0
    MayRefuse = FALSE
PROPERTIES
    CommitsEnd
CHECK_DEADLOCK FALSE
