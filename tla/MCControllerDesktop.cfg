SPECIFICATION FairSpec

CONSTANTS
    c1 = c1
    c2 = c2
    Launches <- SmallLaunches
    Connects = {c1, c2}
    Pids = {p1, p2}
    NoPid = NoPid
    NoRecord = NoRecord
    NoBinds = NoBinds
    Free = Free
    Stranger = Stranger
    Agent = Agent
    Disconnecting = Disconnecting
    MaxBirths = 3
    MaxOthers = 1
    MaxFaults = 1

CHECK_DEADLOCK FALSE

INVARIANTS
    NoStaleRecord
    BindingsMatchSessions

PROPERTIES
    RemovedByOwner
    SparesStrangers
    DisconnectEndsStream
