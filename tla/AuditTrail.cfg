CONSTANTS
  Events = {"g1", "i1", "i2"}
  Origin <- MCOrigin
  Capacity = 1
  Batch = 2
  Recovering = {"idp"}
SPECIFICATION FairSpec
INVARIANTS NothingLost CopiesFollow
PROPERTY IdpStoresInTheEnd
CHECK_DEADLOCK FALSE
