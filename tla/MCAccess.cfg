SPECIFICATION Spec

CONSTANTS
    tower = tower
    laptop = laptop
    Devices = {tower, laptop}
    Here = here
    NamesOf <- SharedNames
    ShownAs <- HostNames
    AllowedAtFirst = {tower}
    Nobody = Nobody
    TuiTasks = {t1, t2}
    CliRuns = {c1}
    MaxChanges = 2
    MaxFaults = 1

SYMMETRY Symmetry
CHECK_DEADLOCK FALSE

INVARIANTS
    ChangesAreKept
    
    ListingExplainsOutcome
