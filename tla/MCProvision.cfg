SPECIFICATION FairComposed
CONSTANTS
    blue = blue
    green = green
    floating = floating
    Asked = {"rust", "node", "chrome", "android-studio", "codex", "other"}
    MaxAsked = 3
    Disk = {6, 8}
    Images = {blue, floating}
    Pinned = {blue, green}
    NoImage = NoImage
    Plans <- SomePlans
    MaxRequests = 2
    WritesFail = TRUE
    None = None
INVARIANTS PlannedWhenAdmissible PlanCoversSelection SucceededInstalled PhaseHonest
PROPERTIES NoProgramAfterCancel ProgressKept CancelFreesSlot
