SPECIFICATION LimiterSpec
CONSTANTS
  Callers = {c1, c2}
  Limit = 2
  Second = 2
  Ttl = 3
  MaxLag = 1
  MaxTime = 6
  MaxCount = 3
CHECK_DEADLOCK FALSE
SYMMETRY CallerSymmetry
INVARIANTS
  LimiterTypeOK WindowHolds BurstsBounded RefusedOnce FewKeys
