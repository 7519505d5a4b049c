SPECIFICATION Spec
CONSTANTS
    Names = {env}
    Specs = {blue, green, loose}
    Pinned = {blue, green}
    Jobs = {a, b}
    Kinds = {"create", "exec", "stop", "remove", "emulator"}
    Conditions <- Both
    MaxLife = 2
    MiB = 1
    None = None
SYMMETRY Symmetry
INVARIANTS ExecInItsDefinition SucceededIsOver
