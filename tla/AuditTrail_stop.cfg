CONSTANTS
  Events = {"g1", "i1", "i2"}
  Origin <- MCOrigin
  Capacity = 1
  Batch = 2
  Recovering = {}
SPECIFICATION Spec
INVARIANT GracefulStop
CHECK_DEADLOCK FALSE
