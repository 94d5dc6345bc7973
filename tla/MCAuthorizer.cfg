SPECIFICATION AuthorizerSpec

CONSTANTS
    Sources = {s1, s2}
    Identities = {i1, i2}
    Handlers = {h1, h2}
    NoCall = NoCall
    IdentityTtl = 2
    IdentityCapacity = 1
    AllowlistTtl = 1
    Permits = 1
    MaxWait = 1
    MaxOutside = 1
    MaxTime = 4

SYMMETRY Symmetry
CHECK_DEADLOCK FALSE

INVARIANTS
    IdentityRecent
    RevocationTakesEffect
