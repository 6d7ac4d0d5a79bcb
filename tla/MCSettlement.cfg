\* Three contracts and three interruptions: enough for a later run to meet the
\* transactions of two earlier ones, mined or not.
CONSTANTS
  N = 3
  MaxKills = 3
  MaxTornWrites = 0
SPECIFICATION Spec
INVARIANTS
  RecordedByWithdrawal
PROPERTY Recovered
