CONSTANTS
  Members <- MCMembers
  Whole = 6
  Threshold = 4
  InitialExposure = 0
  Weightings <- MCWeightings
  Resistances = {1, 2}
  Caps <- MCCaps
  Masks <- MCMasks
  Ledgers <- MCLedgers
  MaxBudget = 2
  Quorum = 3
  Increments <- MCIncrements
  Durations <- MCDurations
SPECIFICATION CommitteeSpec
INVARIANTS
  NoCheaperAttack
  WitnessIsAttack
  PackagesCostTheCertificate
  LatticeExperimentsHold
  EvidenceHolds
CHECK_DEADLOCK FALSE
