SPECIFICATION FairSpec
CONSTANTS
    Passwords = {a, b}
    Password1 = a
    PINs = {p, q}
    None = None
    Garbage = Garbage
    MaxPuts = 2
    MaxChanges = 1
    MaxKills = 1
INVARIANTS
    StoredPairMatches
    NeverStranded
    PinOpensThisWallet
PROPERTIES
    NoDeadScreen
