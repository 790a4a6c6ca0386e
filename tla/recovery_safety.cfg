SPECIFICATION Spec
CONSTANTS
  Workers = {w1}
  MaxRetries = 1
  FailBound = 2
  QueueCap = 1
  RestartResults = {TRUE, FALSE}
  NotifyResults = {TRUE, FALSE}
  Sessions = TRUE
  Drained = FALSE
  MaxEntries = 2
  MaxCallbacks = 1
  Agents = {a1}
  Tasks = {}
  NoAgent = NoAgent
  Calls = {c1, c2}
  RetryLimit = 2
  Clients = {}
  MaxTries = 1
  MaxRecords = 3
  FailureBound = 3
SYMMETRY CallSymmetry
INVARIANTS StopQuiesces RetriesAreBounded
PROPERTIES StaleCheckIsHarmless StaleFailureIsHarmless
