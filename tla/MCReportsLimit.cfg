\* Top clients asked for with different limits.
SPECIFICATION Spec
CONSTANTS
  r1 = r1
  r2 = r2
  r3 = r3
  k1 = k1
  k2 = k2
  k3 = k3
  Clients = {1, 2, 3}
  Readers = {r1, r2, r3}
  Tasks = {k1, k2, k3}
  Hour = 1
  Day = 2
  Month = 4
  Jobs <- TopJobs
  Workloads <- Ranked
  Logged <- ThreeRows
  Registered = {1, 2}
  Columns = {"created_at", "client_name"}
  SortValue <- SortValues
  CacheTTL = 1
  PageSize = 1
  None = None
  MaxTime = 3
  MaxLag = 1
  MaxLeft = 2
SYMMETRY ReaderSymmetry
CHECK_DEADLOCK FALSE
INVARIANT LimitRespected
