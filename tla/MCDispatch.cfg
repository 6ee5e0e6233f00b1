CONSTANTS
  Customers = {c1, c2, c3}
  None = None
  Limit = 3
  Distances = {0, 2}
  Answers = {"Yes", "No", "Other"}
SPECIFICATION FairSpec
INVARIANT OneRideAtATime
INVARIANT ExclusiveUnlessAgreed
INVARIANT LimitRespected
INVARIANT LocksReleased
PROPERTY RefinesCouriers
PROPERTY EveryOrderEnds
CHECK_DEADLOCK FALSE
