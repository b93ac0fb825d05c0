SPECIFICATION FairSpec
CONSTANTS
    MaxChanges = 2
    MaxDrops = 1
    MaxRestarts = 1
    MaxCommands = 1
    MaxTimeouts = 1
    MayClose = TRUE
INVARIANTS
    TypeOK
    StaleIsWatched
    HeardIsKept
    OutcomeIsTrue
PROPERTIES
    StaleIsRepaired
    CloseIsFinal
CHECK_DEADLOCK FALSE
