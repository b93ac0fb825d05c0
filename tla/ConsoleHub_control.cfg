CONSTANTS
    Sessions = {s1, s2}
    NoGrant = NoGrant
    Ttl = 2
    OutboundCapacity = 1
    DeviceErrors = {"motion_failed", "invalid_control_lease"}
    MaxTime = 3
    MaxGrants = 3
SPECIFICATION FairSpec
CHECK_DEADLOCK FALSE
INVARIANTS
    TypeOK
    BelieverHolds
PROPERTIES
    TakeoverTransfers
    LostClientLeaves
