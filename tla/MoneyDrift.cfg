SPECIFICATION Spec
CONSTANTS
  Precision = 13
  Scale = 19
  CostLimit = 11
  Costs <- MCCosts
  Amounts <- MCAmounts
  MaxAmount = 3
  MaxLines = 3
  Nothing = Nothing
INVARIANT MatchingTotalIsAccepted
CHECK_DEADLOCK FALSE
