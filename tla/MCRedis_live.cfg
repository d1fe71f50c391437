SPECIFICATION BothSpec
CONSTANTS
  None = None
  Users = {u1, u2}
  Guards = {g1}
  Ops = {a1}
  Requests = {r1, r2}
  Writers = {x1}
  List = 2
  Search = 1
  TAG_TTL_BUFFER = 1
  MaxWrites = 2
  MaxFaults = 1
\* No write is left to be made.
CHECK_DEADLOCK FALSE
INVARIANT FreshUnlessRaced
PROPERTIES BanTakesHold EventuallyFresh
