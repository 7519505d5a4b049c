SPECIFICATION Spec
CONSTANTS
    Clients = {c1}
    Disks = {d1}
    Devices = {sda}
    Phrase <- DistinctPhrases
    Unfit = {}
    Automounted = {}
    Pluggable = {}
    MayCrash = FALSE
    MaxJob = 3
    None = None
INVARIANTS CancelledIsUntouched
CHECK_DEADLOCK FALSE
