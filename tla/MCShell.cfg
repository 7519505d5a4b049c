SPECIFICATION Spec
CONSTANTS
    Paths = {p, q}
    Texts = {a, long}
    Long = {long}
    Half = half
    Empty = empty
    Directory = directory
    None = None
    MaxSnapshot = 3
INVARIANTS SavesAreWhole CleanMatchesDisk DashboardIsCurrent
CHECK_DEADLOCK FALSE
