SPECIFICATION Spec
CONSTANTS
    LoadKinds = {"html", "remote"}
    RunsUntilCommit = TRUE
    MaxLoads = 2
    MaxCalls = 2
    MaxCommands = 0
INVARIANTS
    HandedOverOnce
    CallbackReturnsOnce
CHECK_DEADLOCK FALSE
