SPECIFICATION Spec
CONSTANTS
  MaxLoops = 2
  Cancels = {1}
  Callers = {1, 2, 3}
  MaxProcs = 2
  Stubborn = {1}
  NoCaller = 0
  Threshold = 1
  MaxRecoveries = 2
  Operator = 3
  MaxStarts = 2
  MaxOpen = 1
  MaxChanges = 1
  MaxWriters = 1
  MaxMonitors = 2
  DegradedAge = 1
  UnresponsiveAge = 2
  MaxMisses = 1
  Clients = {d1, d2, d3}
  Strays = {d3}
  Workers = {w1}
  QueueSize = 1
  PRs = {p1}
  MaxWatches = 2
  MaxServices = 2
  NotifyCap = 1
  Handlers = {h1, h2}
  Cooldown = 3
  ResetTimeout = 1
  MaxFailures = 2
  FailLimit = 3
  MaxRestarts = 3
CHECK_DEADLOCK FALSE
INVARIANTS KeptInTurn WatchIsFollowed
PROPERTIES StopsEnd FailuresAreSeen
