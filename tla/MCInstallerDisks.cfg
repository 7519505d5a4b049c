SPECIFICATION Spec
CONSTANTS
    Clients = {c1}
    Disks = {d1, d2}
    Devices = {sda, sdb}
    Phrase <- DistinctPhrases
    Unfit = {}
    Automounted = {d1, d2}
    Pluggable = {d1, d2}
    MayCrash = FALSE
    MaxJob = 3
    None = None
SYMMETRY Renamings
VIEW WithoutPast
INVARIANTS CompleteIsBootable
PROPERTIES ErasesConsented
CHECK_DEADLOCK FALSE
