SPECIFICATION FairSpec
CONSTANTS
    Controllers = {a, b}
    NoSession = NoSession
    Lease = 6
    MinRenewal = 1
    RequestTimeout = 1
    HealthLimit = 2
    MaxLaunches = 2
    MaxFaults = 2
INVARIANTS
    LeaseKept
    LocalInputRestored
PROPERTIES
    HeldSessionStands
    ImplementsLease
    AbandonedSessionEnds
    DeadAgentEndsStream
