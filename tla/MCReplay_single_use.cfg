SPECIFICATION GuardSpec
CONSTANTS
    Requests = {r1, r2}
    Handlers = {h1, h2}
    NoArrival = NoArrival
    Window = 2
    Skew = 2
    Capacity = 2
    MaxDelay = 0
    MaxLead = 2
    MaxTime = 4
CHECK_DEADLOCK FALSE
INVARIANTS
    SingleUse
