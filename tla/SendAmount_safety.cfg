CONSTANTS
    Numbers = {1, 3, 8}
    Rates = {2, 3, 5}
    LocalTick = 4
    MaxNumber = 30
    None = None
    BeforeRates = FALSE
    Hurried = FALSE
SPECIFICATION Spec
INVARIANTS ConfirmedIsSent BtcAmountKept FormAgrees
