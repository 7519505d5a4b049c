SPECIFICATION Spec
CONSTANTS
    Jobs = {build}
    Cells = {c1}
    Heirs = {daemon}
    Stubborn = {daemon}
    Holding = {}
    MaxLife = 1
    None = None
INVARIANTS CancelLeavesNobody
