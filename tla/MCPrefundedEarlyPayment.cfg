CONSTANTS
  Accounts = {a1, a2, a3, a4}
  ThresholdSets <- MCThresholdSets
  Prices = {0, 1, 2}
  Values = {1, 2, 3, 4, 5, 6}
  MaxMembers = 3
  MaxOrders = 2
SYMMETRY Symmetry
SPECIFICATION Spec
INVARIANT WithdrawnAfterCompletion
CHECK_DEADLOCK FALSE
