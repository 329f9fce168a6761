SPECIFICATION FairSpec
CONSTANTS
  Ids = {i1, i2}
  Entries <- MCEntries
  Values <- MCValues
  Limits = {2}
  Passwords = {p1, p2}
  Files <- MCFiles
  Retries = 2
  MaxFaults = 1
  Zero = Zero
INVARIANTS
  OkIsTrue
  EditsWhatWasShown
  FindsEveryMatch
  CopyIsComplete
  IndexListsTheValues
PROPERTY
  SessionEnds
CHECK_DEADLOCK FALSE
