SPECIFICATION Spec

CONSTANTS
    Owners = {laptop, tablet}
    Ids = {i1, i2}
    Handlers = {h1, h2}
    NoCall = NoCall
    Ttl = 4
    MaxOutstanding = 1
    MaxIssues = 1
    IssueWindow = 2
    MaxOwners = 1
    MaxDelay = 1
    MaxTime = 4
    Pairing = {laptop}
    RequestTimeout = 1
    PinTimeout = 1
    CompletionTimeout = 1

SYMMETRY Symmetry
CHECK_DEADLOCK FALSE

INVARIANTS
    SingleApproval
    ApprovedByOwner
    IssueRateBounded
    ChildReaped
    ChallengeOutlivesPin
    PairedIsApproved
