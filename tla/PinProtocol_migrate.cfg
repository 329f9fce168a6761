SPECIFICATION Spec
CONSTANTS
    Passwords = {a, b}
    Password1 = a
    PINs = {p, q}
    None = None
    Garbage = Garbage
    MaxPuts = 1
    MaxChanges = 0
    MaxKills = 0
INVARIANTS
    LegacyPinIsMigrated
