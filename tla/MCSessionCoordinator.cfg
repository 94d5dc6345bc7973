SPECIFICATION FairSpec

CONSTANTS
    Owners = {a, b}
    NoSession = NoSession
    Lease = 3
    EffectTimeout = 1
    MaxGeneration = 2
    MaxAttaches = 3
    MaxFaults = 2
    MaxCancels = 1

INVARIANTS
    FollowFocusBelongsToSession
    FaultFreeInputMatchesSession
    OneFaultOrphansNothing

PROPERTIES
    SessionEndsOnlyByRight
    ImplementsLease
    StaleInputRestored
