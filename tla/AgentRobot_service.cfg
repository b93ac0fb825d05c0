SPECIFICATION FairSpec
CONSTANTS
    Tools = {t1, t2}
    None = None
    Asked = {"nod", "wake", "rest"}
    Foreign = {"rest"}
    Capacity = 1
    MaxFlight = 0
    Limits <- MCLimits
    MaxEvents = 4
INVARIANTS
    NothingMissed
PROPERTIES
    RestIsKept
    ThinkingEnds
    EverybodyIsServed
