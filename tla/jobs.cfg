CONSTANTS
    shirt = shirt
    scout = scout
    one = one
    two = two
    left = left
    right = right
    Watches <- OneWatch
    Scans <- NoScans
    Hunts <- OneHunt
    Handlers <- TwoHandlers
    Sweepers <- TwoSweeps
    Slots = 1
    Edited <- OneWatch
    Swept <- WatchesOnly
SPECIFICATION FairSpec
INVARIANTS TypeOK JobsFollowRows
PROPERTIES EnabledIsChecked SweepsGetThrough
