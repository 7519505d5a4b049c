SPECIFICATION FairSpec
CONSTANTS
    Jobs = {build, test}
    Cells = {c1, c2}
    Heirs = {server}
    Stubborn = {server}
    Holding = {server}
    MaxLife = 2
    None = None
INVARIANTS VerdictStored OutputComplete
PROPERTIES CancelEndsUnlessHeld ImplementsContract
