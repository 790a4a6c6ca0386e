SPECIFICATION Spec
CONSTANTS
  Items = {1, 2, 3}
  Pulls = {2, 3}
  PageSize = 1
  LastTick = 6
  Comments = {1, 2}
  Contents = {{"approval", "feedback"}, {"question"}, {}}
  MaxPlans = 2
  EventCap = 1
  FinalTick = 5
  Works = {1, 2, 3}
  Others = {4}
  PRPage = 1
  MaxStarts = 2
  EndTick = 6
CHECK_DEADLOCK FALSE
INVARIANTS ReportedOnce MissedForAReason OnlyRiskyWorkIsLost
