SPECIFICATION FairSpec
CONSTANTS
  Workers = {w1, w2, w3}
  e1 = e1
  e2 = e2
  e3 = e3
  Emails = {e1, e2, e3}
  None = None
  Jobs <- MixedJobs
  DefaultLimits <- Few
  InitialClients <- Two
  InitialConfigs <- Limited
CHECK_DEADLOCK FALSE
INVARIANTS
  TypeOK
  UniqueEmails
  ProvisionedTogether
  AuditMatchesCommits
  ColumnsRequested
  UncontestedSettingsHold
PROPERTIES
  EveryJobAnswered
  CommitsChangeRows
