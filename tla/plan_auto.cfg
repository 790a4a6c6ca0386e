SPECIFICATION FairSpec
CONSTANTS
  k1 = k1
  k2 = k2
  MaxPlans = 1
  Checks <- OneCheck
  MaxTicks = 1
  MaxSaid = 2
PROPERTY ApprovedEntersAuto
