SPECIFICATION Spec
CONSTANTS
    Owners = {a, b}
    NoSession = NoSession
    Lease = 3
    EffectTimeout = 1
    MaxGeneration = 2
    MaxAttaches = 2
    MaxFaults = 0
    MaxCancels = 1
INVARIANTS
    NoOrphanedKeybinds
