\* Prompt pipelines, a client disabled on the way, Redis failing.  Nothing else
\* does, so every verdict has its row.
CONSTANTS
  c1 = c1
  c2 = c2
  Clients = {c1}
  Keys = {c1, None}
  Requests = {r1, r2, r3}
  Paths = {"exempt", "usage"}
  None = None
  PlanLimits <- OneTight
  InitialRow <- NoOverrides
  AdminLimits = {}
  AdminActive = {FALSE}
  Faults = {"redis"}
  MaxTime = 2
  MaxLag = 1
SPECIFICATION FairSpec
CHECK_DEADLOCK FALSE
INVARIANT OneRowPerRequest
PROPERTIES
  KeepsPromise
  EveryRequestAnswered
  EveryVerdictLogged
