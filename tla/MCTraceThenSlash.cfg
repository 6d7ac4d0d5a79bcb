CONSTANTS
  Members = {m1, m2, m3}
  Threshold = 2
  Addresses = {treasury, caller, s1, s2, s3}
  Signers = {s1, s2, s3}
  NoAddress = NoAddress
  Treasury = treasury
  Verifier = verifier
  BondValues = {1, 3, 4}
  Reward = 2
  Evidence <- MCEvidence
  MaxPackage = 2
  MaxTime = 2
  MaxJobs = 2
SYMMETRY Symmetry
SPECIFICATION Spec
INVARIANTS
  Solvency
  LossesFollowSlashedSet
  NoWindowAfterRetirement
  NoMemberHoldsReward
  ThresholdLossAtLeastFloor
PROPERTY ImplementsBondLifecycle
CHECK_DEADLOCK FALSE
