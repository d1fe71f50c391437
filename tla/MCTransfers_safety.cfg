SPECIFICATION DealsAndMailsSpec
CONSTANTS
  s1 = s1
  s2 = s2
  p1 = p1
  p2 = p2
  None = None
  MaxRows = 2
  Sources = {s1, s2}
  Procs = {p1, p2}
  NewTransfers = {s1, s2}
  AlertRuns = {p1, p2}
  MAX_TRANSFERS = 2
  MAX_ITEMS_PER_USER = 1
  MaxTime = 2
  N = 4
  Processes = {p1, p2}
  RECIPIENT_PAGE = 2
  MaxChanges = 2
  MaxFaults = 1
SYMMETRY Symmetry
\* The mails of a week may all have been sent.
CHECK_DEADLOCK FALSE
INVARIANTS IngestOnce TransferIntact NotTooOften NobodyMissed
