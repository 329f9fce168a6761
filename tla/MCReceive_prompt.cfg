CONSTANTS
    Addresses = {a1, a2, a3}
    NoAddress = NoAddress
    MaxClicks = 2
SPECIFICATION FairReceiveSpec
INVARIANTS ActsOnTheShownAddress LabelNotMisplaced ListIsCurrent
PROPERTY NewAddressIsPrompted
CHECK_DEADLOCK FALSE
