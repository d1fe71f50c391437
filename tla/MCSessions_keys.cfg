SPECIFICATION AllSpec
CONSTANTS
  t1 = t1
  t2 = t2
  t3 = t3
  p1 = p1
  p2 = p2
  r1 = r1
  None = None
  Tokens = {t1, t2, t3}
  ResetTokens = {r1}
  Requests = {p1, p2}
  Users = {u1, u2}
  Keys = {k1}
  Reporters = {r1}
  MaxLapses = 1
  Workers = {w1, w2}
  MaxRows = 2
  MaxOffers = 3
  MaxSets = 2
  MaxFaults = 1
CHECK_DEADLOCK FALSE
INVARIANT RefusedForOwn
