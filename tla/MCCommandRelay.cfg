SPECIFICATION FairSpec

CONSTANTS
    a = a
    b = b
    c = c
    Remotes = {a, b, c}
    Agents = {a, b}
    Desk = Desk
    StreamsAtFirst <- Streams
    Class = Class
    Active = Active
    Nobody = Nobody
    Count = 2
    Scenarios <- SmallScenarios
    Denied <- SmallDenied
    RequestBurst = 2
    MaxRefills = 1
    MaxHops = 8
    MaxMoves = 1
    MaxFaults = 1

CHECK_DEADLOCK FALSE

INVARIANTS
    SuccessMeansExecuted
    FocusRestored

PROPERTIES
    CommandIsAnswered
