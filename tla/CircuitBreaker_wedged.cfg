SPECIFICATION BreakerFairSpec
CONSTANTS
  Calls = {c1, c2, c3}
  FailureThreshold = 2
  OpenDuration = 2
  HalfOpenProbes = 1
  MaxFailures = 3
PROPERTIES
  Recovers
