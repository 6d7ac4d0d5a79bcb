CONSTANTS
  Threads = {t1, t2}
  NoThread = NoThread
  a = a
  b = b
  Texts = {a, b}
  Empty = Empty
  Nonces <- MCNonces
  MaxRequests = 3
  MaxKills = 2
  MaxShortWrites = 1
SPECIFICATION Spec
INVARIANT AnsweredOnce
CHECK_DEADLOCK FALSE
