SPECIFICATION FairSpec
CONSTANTS
    Rests = {}
    Motions = {m1}
    Lights = {}
    MaxRevision = 2
    MaxEpoch = 2
    MaxFaults = 1
    MaxInFlight = 2
    RemoteEpochs = {2}
    MayReset = FALSE
PROPERTIES
    PageConverges
    
