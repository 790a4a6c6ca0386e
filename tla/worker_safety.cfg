SPECIFICATION Spec
CONSTANTS
  c1 = c1
  c2 = c2
  c3 = c3
  t1 = t1
  NoReq = NoReq
  ChatReqs <- ChatTwo
  TaskReqs <- TaskOne
  ChanCap = 1
  MaxGen = 2
  Resetters <- MonitorResets
SYMMETRY ChatSymmetry
INVARIANTS
  TypeOK
  Custody
  WorkingHasRunner
  StopRequestHasRunner
  OnlyCurrentLoops
  StrandedOnlyByKill
PROPERTIES
  PromiseSpec
