SPECIFICATION FairSpec
CONSTANTS
    Requests = {r1}
    Others = {o1}
    None = None
    Tooled = {r1}
    Capacity = 1
    MaxParts = 2
    MaxFlight = 3
    MaxFaults = 1
INVARIANTS
    ConversationIsTrue
    AcceptedIsShown
PROPERTIES
    ComposerFrees
    ResponsesEnd
    AnswersAreShown
CHECK_DEADLOCK FALSE
