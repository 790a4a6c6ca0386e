SPECIFICATION SuiteSpec
CONSTANTS
  Loops = {l1, l2}
  MaxTasks = 3
  MaxBatch = 2
  Checker = FALSE
  Cancels = FALSE
  Commands = {"stop", "pause", "reset"}
  Issues = {1, 2}
  CheckCalls = {k1}
  Pollers = {p1}
  MaxStarts = 2
CHECK_DEADLOCK FALSE
INVARIANTS RunnerTypeOK RunOnce CompletedIsQuiet StateFollowsMode OnlyApprovedPlansRun
PROPERTIES ApprovedIsRun
