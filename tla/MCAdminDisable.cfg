SPECIFICATION QuietSpec
CONSTANTS
  Workers = {w1, w2}
  e1 = e1
  e2 = e2
  e3 = e3
  Emails = {e1, e2, e3}
  None = None
  Jobs <- ActiveJobs
  DefaultLimits <- Few
  InitialClients <- Two
  InitialConfigs <- Limited
CHECK_DEADLOCK FALSE
INVARIANT AnswerAsAsked
