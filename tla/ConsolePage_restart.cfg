SPECIFICATION FairSpec
CONSTANTS
    Rests = {}
    Motions = {m1}
    Lights = {}
    MaxRevision = 2
    MaxEpoch = 1
    MaxFaults = 1
    MaxInFlight = 1
    RemoteEpochs = {1}
    MayReset = TRUE
PROPERTIES
    PageConverges
