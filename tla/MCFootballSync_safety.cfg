SPECIFICATION Spec
CONSTANTS
  l1 = l1
  c1 = c1
  c2 = c2
  t1 = t1
  t2 = t2
  p1 = p1
  p2 = p2
  w1 = w1
  w2 = w2
  None = None
  Leagues = {l1, c1, c2}
  Cups = {c1, c2}
  Covered = {l1, c1}
  Teams = {t1, t2}
  Players = {p1}
  Workers = {w1, w2}
  Home <- TheHome
  Entered = {t1}
  Requests <- TheRequests
  FetchSquads = TRUE
  DetectTransfers = TRUE
  Quota = 11
  Reserve = 3
  Tries = 2
  MaxJobs = 2
  MaxDisturbances = 1
  MaxDays = 2
SYMMETRY Symmetry
CHECK_DEADLOCK FALSE
INVARIANTS QuotaKept PutOffIsKept OneRowPerDeal
PROPERTIES CleanRunMirrors ClubsStayHome
