CONSTANTS
    Sends = {s1}
    Imports = {k1}
    None = None
    LateEvents = TRUE
    MaxFlows = 2
SPECIFICATION Spec
INVARIANT TransactionModalCloses
CHECK_DEADLOCK FALSE
