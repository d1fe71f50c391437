SPECIFICATION FeedSpec
CONSTANTS
  u1 = u1
  u2 = u2
  p1 = p1
  p2 = p2
  Users = {u1, u2}
  Procs = {p1, p2}
  SmallInt = 1
  MaxRequests = 3
  MaxFaults = 0
  me = me
  reporter = reporter
  team = team
  league = league
  None = None
  Members = {me, reporter}
  Readers = {me}
  Requests = {r1, r2}
  N = 4
  HotScores = {0, 1}
  Topics = {team}
  Words = {"word"}
  Leagues = {league}
  PageSize = 1
  SOURCE_LIMIT = 2
  MAX_RESULTS = 2
  SERVED_TTL = 2
  DISCOVERY_TTL = 0
  MaxTime = 2
  MaxAsks = 3
  MaxDisturbances = 0
SYMMETRY Symmetry
CHECK_DEADLOCK FALSE
INVARIANTS EmptyMeansNothingNew
