CONSTANTS
  Threads = {t1, t2, t3}
  NoThread = NoThread
  a = a
  b = b
  Texts = {a, b}
  Empty = Empty
  Nonces <- MCNonces
  MaxRequests = 3
  MaxKills = 2
  MaxShortWrites = 0
SPECIFICATION Spec
INVARIANTS
  AnsweredOnce
  AnswersAudited
PROPERTIES
  RequestsEnd
  ImplementsAnswerOnce
CHECK_DEADLOCK FALSE
