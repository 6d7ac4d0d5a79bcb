CONSTANTS
  m0 = m0
  m1 = m1
  m2 = m2
  m3 = m3
  m4 = m4
  m5 = m5
  m6 = m6
  Members <- MCMembers
  FirstPool <- MCFirstPool
  SecondPool <- MCSecondPool
  PoolCap = 2
  Floor = 2
  Threshold = 4
  Controller = controller
  Outsiders = {o1, o2}
  NoAccount = NoAccount
  Values = {0, 1, 2, 3, 4, 5, 6, 7, 8}
SYMMETRY Symmetry
SPECIFICATION Spec
INVARIANTS
  CertificatesHold
  Solvency
  MembersMadeWhole
  ResidualIncidence
CHECK_DEADLOCK FALSE
