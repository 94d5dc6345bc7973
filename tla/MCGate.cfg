SPECIFICATION GateSpec
CONSTANTS
    busy = busy
    Others = {o1, o2}
    Many = {r1, r2, r3}
    Sources = {busy, o1, o2}
    Burst = 1
    Rate = 1
    TableSize = 2
    Horizon = 2
    Requests = {r1, r2, r3, o1, o2}
    Handlers = {h1, h2}
    NoArrival = NoArrival
    Window = 2
    Skew = 2
    Capacity = 3
    MaxDelay = 1
    MaxLead = 0
    MaxTime = 2
    From <- FromMany
    MaxCheck = 0
    MaxPasses = 4
SYMMETRY Symmetry
CHECK_DEADLOCK FALSE
INVARIANTS
    RateBounded
    OneSourceCannotFill
PROPERTIES
    ApplicationsAreApart
