\* Administrators change the client and everything that can fail fails.
CONSTANTS
  c1 = c1
  c2 = c2
  Clients = {c1}
  Keys = {c1}
  Requests = {r1, r2, r3}
  Paths = {"plain"}
  None = None
  PlanLimits <- OneTight
  InitialRow <- ShortOverride
  AdminLimits <- ShortOrLong
  AdminActive = {}
  Faults = {"database", "redis", "flush", "handler", "crash"}
  MaxTime = 2
  MaxLag = 1
SPECIFICATION Spec
SYMMETRY RequestSymmetry
CHECK_DEADLOCK FALSE
INVARIANTS
  QuotaPerCounter
  RefusedOnlyWhenFull
  UsageNeverOvercounts
