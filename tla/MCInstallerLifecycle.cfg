SPECIFICATION FairSpec
CONSTANTS
    Clients = {c1, c2}
    Disks = {d1}
    Devices = {sda}
    Phrase <- DistinctPhrases
    Unfit = {}
    Automounted = {}
    Pluggable = {d1}
    MayCrash = TRUE
    MaxJob = 3
    None = None
PROPERTIES NoEraseAfterCancel CancelledThenFailedUntouched ImplementsContract SlotReleased RetryHonoured
