SPECIFICATION Spec
CONSTANTS
  t1 = t1
  t2 = t2
  one = one
  both = both
  secret = secret
  Ids = {i1, i2}
  Terms = {t1, t2}
  Contents <- MCContents
  TermsOf <- MCTermsOf
  Passwords = {p1, p2}
  MaxKey = 2
INVARIANTS
  FoundUnderItsValues
  ListedOpens
  ExportIsComplete
PROPERTY
  ImplementsStore
