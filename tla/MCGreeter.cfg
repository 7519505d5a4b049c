SPECIFICATION FairSpec
CONSTANTS
    Choices = {alice, colord}
    Account <- Names
    Shipped = {colord}
    Pids = {p1, p2}
    MaxGreeter = 3
    None = None
INVARIANTS RecordImpliesApplied StartedAsTyped
PROPERTIES SettledOnce OwnAccountOnly FinishAnswered
CHECK_DEADLOCK FALSE
