SPECIFICATION Spec
CONSTANTS
  e1 = e1
  e2 = e2
  k1 = k1
  r1 = r1
  r2 = r2
  Ids = {e1, e2}
  KeyIds = {k1}
  Reports <- TwoEvents
  Replicas = {r1, r2}
  Offset <- Apart
  MaxOffset = 1
  MaxDelay = 1
  ClockSkew = 1
  Window = 4
  Limit = 1
  TTL = 4
  MaxTries = 2
  MaxTime = 4
  MaxSent = 3
  MaxCalls = 2
  Faults = {"reply", "restart", "failover"}
  MaxFaults = 1
CHECK_DEADLOCK FALSE
INVARIANT TypeOK
INVARIANT CountedOnce
INVARIANT RateKept
INVARIANT NothingElseLost
SYMMETRY EventSymmetry
