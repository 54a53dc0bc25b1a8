SPECIFICATION Spec
CONSTANTS
    Listing = {1, 2}
    Roster = {1, 2}
    Blocked <- Unfit
    ByHand = ByHand
    None = None
    Undo = FALSE
    MaxRuns = 3
    MaxHands = 0
    MaxLost = 0
    MaxCrashes = 0
INVARIANT NeverStranded
CHECK_DEADLOCK FALSE
