SPECIFICATION Spec
CONSTANTS
    Listing = {1, 2}
    Roster = {1, 2}
    Blocked <- Unfit
    ByHand = ByHand
    None = None
    Undo = FALSE
    MaxRuns = 2
    MaxHands = 1
    MaxLost = 1
    MaxCrashes = 1
INVARIANTS TypeOK LedgerIsTrue
PROPERTIES NeverOlder HandworkStays OnlyPassedIsPublished IsPublication
CHECK_DEADLOCK FALSE
