SPECIFICATION AccessSpec
CONSTANTS
  None = None
  Users = {u1, u2}
  Guards = {g1}
  Ops = {a1, a2}
  Callers = {c1}
  LIFETIME = 2
  MaxChanges = 3
  MaxLost = 1
  MaxFaults = 0
SYMMETRY Symmetry
INVARIANTS CacheExplained AdminLeft AccessWithdrawn
