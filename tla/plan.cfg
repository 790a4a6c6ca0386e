SPECIFICATION FairSpec
CONSTANTS
  k1 = k1
  k2 = k2
  MaxPlans = 2
  Checks <- TwoChecks
  MaxTicks = 2
  MaxSaid = 1
INVARIANTS
  ContextFollowsMode
  AnnouncedWasGiven
PROPERTY ApprovalIsAnnounced
