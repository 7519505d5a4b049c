SPECIFICATION FairSpec
CONSTANTS
    MaxWindow = 2
    WORKSPACE_COUNT = 2
    MaxLocation = 1
    Extent = 2
    StartsShell = TRUE
    None = None
INVARIANTS Consistent ScreenCurrent
PROPERTIES KeysFollowTheView FramesGoOn ChangeAnswered
CHECK_DEADLOCK FALSE
