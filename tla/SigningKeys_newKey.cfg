\* One rotation, and an agent that holds the document from before it.
CONSTANTS
  MaxVersion = 2
  MaxCrashes = 0
  MaxMinutes = 2
  Rotations = {x}
  Verifies = {y}
  JwksTtl = 1
  TokenTtl = 2
  GatewayTtl = 2
  AgentTtl = 2
  MaxKids = 2
SPECIFICATION KeysSpec
INVARIANTS ActiveKeyKnown
CHECK_DEADLOCK FALSE
