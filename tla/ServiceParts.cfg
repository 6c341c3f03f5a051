\* Plans: two submissions, under one plan id or two.
\* Bucket: stamps evaluated in any order, Redis failures, an expiring key.
\* Breaker: four overlapping calls, two of them probes, and a threshold that
\* takes two failures: late reports of both kinds cross every state.
\* Reads: pages of two over four events, a queue of one that two events
\* fill, a client that hears everything and one that filters, three spans.
SPECIFICATION PartsSpec
CONSTANTS
  s1 = s1
  s2 = s2
  taskA = taskA
  taskB = taskB
  taskC = taskC
  taskD = taskD
  ghost = ghost
  NoSub = NoSub
  NoPlan = NoPlan
  PlanIds = {"p1", "p2"}
  TaskIds = {taskA, taskB, taskC, taskD, ghost}
  TasksOf <- MCTasksOf
  DepsOf <- MCDepsOf
  Subs = {s1, s2}
  Requests = {r1, r2, r3, r4}
  Capacity = 2
  Refill = 1
  KeyTtl = 2
  MaxTime = 3
  Calls = {c1, c2, c3, c4}
  FailureThreshold = 2
  OpenDuration = 2
  HalfOpenProbes = 2
  MaxFailures = 4
  Stored = {"e1", "e2", "e3", "e4"}
  Limits = {0, 1, 2}
  Clients = {"k1", "k2"}
  Kinds = {"allow", "deny"}
  Wants <- MCWants
  SubQueue = 1
  MaxSent = 2
  MaxSpans = 3
INVARIANTS
  PartsTypeOK
  SentInOrder StatusTruthful
  BucketHonest
  BreakerAccounts
  WalkExplained StreamFaithful TreeKeepsCallers
PROPERTIES PartsProgress
\* Every plan, request and walk ends.
CHECK_DEADLOCK FALSE
