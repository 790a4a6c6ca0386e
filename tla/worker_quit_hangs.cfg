SPECIFICATION FairSpec
CONSTANTS
  c1 = c1
  c2 = c2
  c3 = c3
  t1 = t1
  NoReq = NoReq
  ChatReqs <- NoTasks
  TaskReqs <- NoTasks
  ChanCap = 1
  MaxGen = 3
  Resetters <- BothReset
CHECK_DEADLOCK FALSE
PROPERTY QuitCompletes
