CONSTANTS
  N = 2
  MaxKills = 1
  MaxTornWrites = 1
SPECIFICATION Spec
PROPERTY RecoveryShows
CHECK_DEADLOCK FALSE
