SPECIFICATION TroubleSpec
CONSTANTS
  m1 = m1
  m2 = m2
  w1 = w1
  w2 = w2
  NoMessage = NoMessage
  NoWorker = NoWorker
  Messages = {m1, m2}
  Workers = {w1, w2}
  BATCH = 1
  MAX_RETRY = 3
  Attempts = 5
  MaxStalled = 1
  KeepFailed = 1
  Budget <- SafetyBudget
CHECK_DEADLOCK FALSE
INVARIANTS OncePerLockWindow DuplicateNeedsFault
PROPERTIES ImplementsAtLeastOnce EventuallySettled
