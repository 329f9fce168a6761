SPECIFICATION Spec
CONSTANTS
  RunLengths = {1, 5, 6, 12}
  ManyRunLengths = {1, 6}
  WalkVersions = {1, 2, 3, 6, 7, 10, 14}
  LineLength = 12
INVARIANTS
  TextReadsBack
  SymbolReadsBack
  TablesFitTogether
  PenaltyFollowsTheRules
