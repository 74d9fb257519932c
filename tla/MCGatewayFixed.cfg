\* Limits nobody changes, pipelines up to a window late, nothing fails.
CONSTANTS
  c1 = c1
  c2 = c2
  Clients = {c1, c2}
  Requests = {r1, r2, r3}
  Keys = {c1, c2}
  Paths = {"plain"}
  None = None
  PlanLimits <- TwoPlans
  InitialRow <- NoOverrides
  AdminLimits = {}
  AdminActive = {}
  Faults = {}
  MaxTime = 5
  MaxLag = 2
SPECIFICATION Spec
SYMMETRY RequestSymmetry
CHECK_DEADLOCK FALSE
INVARIANTS
  TypeOK
  QuotaPerWindow
  StaleKeyQuota
  BoundaryBurst
  RemainingIsHonest
PROPERTY NoRefund
