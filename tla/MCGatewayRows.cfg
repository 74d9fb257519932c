\* Handlers may raise.
CONSTANTS
  c1 = c1
  c2 = c2
  Clients = {c1}
  Keys = {c1}
  Requests = {r1, r2}
  Paths = {"plain"}
  None = None
  PlanLimits <- OneTight
  InitialRow <- ShortOverride
  AdminLimits = {}
  AdminActive = {}
  Faults = {"handler"}
  MaxTime = 2
  MaxLag = 1
SPECIFICATION Spec
CHECK_DEADLOCK FALSE
INVARIANT OneRowPerRequest
