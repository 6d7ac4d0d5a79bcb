CONSTANTS
  Operators = {1, 2, 3}
  Ports = {q1, q2, q3}
  Strangers = {o9}
  Threshold = 2
  P = 11
  Q = 5
  G = 4
  Payments = {p1, p2, p3}
  SwapOrder = swap
  ProofOrder = proof
  Selections <- MCSelections
SPECIFICATION Spec
INVARIANTS
  CryptographyHolds
  CountedIsAuthentic
  CombineSucceeds
  PaymentServesOneRoute
  ProbesRejected
PROPERTIES
  SessionEnds
CHECK_DEADLOCK FALSE
