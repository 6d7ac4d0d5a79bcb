CONSTANTS
  Operators = {1, 2, 3}
  Threshold = 2
  PriceVectors <- MCPriceVectors
  Calls <- MCCalls
  BadShares <- MCBadShares
SPECIFICATION FairSpec
INVARIANTS
  BooksBalance
  VerdictIsRight
  ResultOfTheCall
  ExperimentConfirms
PROPERTIES
  ExecutionEnds
CHECK_DEADLOCK FALSE
