SPECIFICATION FairSpec
CONSTANTS
    None = None
    MaxEpoch = 1
    MaxFaults = 2
INVARIANTS
    BothEndsAgree
    NothingLeaks
    SceneIsTrue
PROPERTIES
    DrawsNewest
    FadeEnds
CHECK_DEADLOCK FALSE
