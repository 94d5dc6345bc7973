SPECIFICATION FairSpec

CONSTANTS
    left = left
    middle = middle
    right = right
    Desktops = {desk}
    Layout <- ThreeDisplays
    NoDisplay = NoDisplay
    SwitchRange = 2
    MaxMoves = 2
    MaxPlugs = 2
    MaxFaults = 1

CHECK_DEADLOCK FALSE

INVARIANTS
    BeliefMatchesStream

PROPERTIES
    SettlesOnFocus
