SPECIFICATION Spec
CONSTANTS
    Rests = {r1}
    Motions = {m1, r1}
    Lights = {l1}
    MaxRevision = 2
    MaxEpoch = 2
    MaxFaults = 1
    MaxInFlight = 1
    RemoteEpochs = {2}
    MayReset = TRUE
INVARIANTS
    ObserverAgrees
    ControllerRenews
    ShownOutcomeIsTrue
PROPERTIES
    NeverGoesBack
