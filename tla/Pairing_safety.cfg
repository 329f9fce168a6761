CONSTANTS
    Wallets = {w1, w2}
    None = None
    MaxAsked = 2
SPECIFICATION FairSpec
INVARIANTS AccountsOnlyOnRequest PasswordForItsWallet ResultsAreHeard
PROPERTIES BusyEnds
CHECK_DEADLOCK FALSE
