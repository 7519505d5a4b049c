SPECIFICATION FairSpec
CONSTANTS
    Disks = {d1, d2}
    MaxThread = 2
    MaxJob = 2
    MayCrash = TRUE
    None = None
INVARIANTS FinishEarned CancelShownTrue
PROPERTIES ErasesTyped BusyEnds
CHECK_DEADLOCK FALSE
