SPECIFICATION FairSpec

CONSTANTS
    here = here
    laptop = laptop
    tower = tower
    Devices = {here, laptop, tower}
    NoDevice = NoDevice
    Listings <- SmallListings
    AllowedAtFirst = {tower}
    ChannelCapacity = 2
    MaxTasks = 3
    MaxFaults = 1

CHECK_DEADLOCK FALSE

INVARIANTS
    WaitIsWarranted
    OneStreamAtATime
    AccessShownIsCurrent

PROPERTIES
    PendingGetsItsTurn
