SPECIFICATION FairSpec
CONSTANTS
  u1 = u1
  u2 = u2
  u3 = u3
  w1 = w1
  w2 = w2
  Users = {u1, u2, u3}
  Followers = {u1, u2, u3}
  OptOuts <- SomeOptOuts
  Reporter = u1
  Workers = {w1, w2}
  MaxEvents = 2
  MaxChanges = 1
  MaxFaults = 1
CHECK_DEADLOCK FALSE
INVARIANTS Told OnlyAsked
PROPERTIES ReadStaysRead EventuallyTold
