CONSTANTS
  MaxVersion = 3
  MaxCrashes = 1
  MaxMinutes = 5
  Rotations = {v1, v2}
  Verifies = {v1, v2}
  JwksTtl = 1
  TokenTtl = 2
  GatewayTtl = 2
  AgentTtl = 2
  MaxKids = 2
  Sessions = {v1, v2}
  Logins = {l1, l2}
  Exchanges = {e1, e2}
  Refreshes = {v1, v2}
  Logouts = {o1}
  Runs = {b1, b2, b3}
  Rotates = {v1}
  Reloads = {v1, v2}
  Orchestrators = {"doc"}
  Executors = {"data"}
  Users = {"alice", "carol"}
  Capabilities = {{"plan"}, {"read"}}
  Grants = {"some", "all"}
  MaxEdits = 2
SPECIFICATION PartsSpec
SYMMETRY PartsSymmetry
INVARIANTS
  PartsTypeOK
  VerifiersExplained
  CodesHold RevokedStaysOut
  AgentKeysHold
  ReloadsHold
PROPERTIES KeysInOrder
CHECK_DEADLOCK FALSE
