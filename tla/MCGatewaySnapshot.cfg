\* An administrator disables the client and changes its limits meanwhile.
CONSTANTS
  c1 = c1
  c2 = c2
  Clients = {c1}
  Keys = {c1}
  Requests = {r1}
  Paths = {"plain"}
  None = None
  PlanLimits <- OneTight
  InitialRow <- ShortOverride
  AdminLimits <- ShortOrLong
  AdminActive = {TRUE, FALSE}
  Faults = {}
  MaxTime = 2
  MaxLag = 1
SPECIFICATION HistorySpec
CHECK_DEADLOCK FALSE
INVARIANT LoadedAsOneQuery
