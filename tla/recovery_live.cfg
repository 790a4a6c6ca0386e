SPECIFICATION FairSpec
CONSTANTS
  Workers = {w1}
  MaxRetries = 2
  FailBound = 3
  QueueCap = 3
  RestartResults = {TRUE}
  NotifyResults = {TRUE}
  Sessions = TRUE
  Drained = TRUE
  MaxEntries = 1
  MaxCallbacks = 2
  Agents = {a1}
  Tasks = {t1, t2}
  NoAgent = NoAgent
  Calls = {c1}
  RetryLimit = 1
  Clients = {u1}
  MaxTries = 1
  MaxRecords = 2
  FailureBound = 1
PROPERTIES HungIsNoticed FailedWorkIsQueued CallsReturn
