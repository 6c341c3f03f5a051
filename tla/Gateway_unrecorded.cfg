\* Every request that OPA approved has an allow record when it is answered.
SPECIFICATION PromptSpec
CONSTANTS
  r1 = r1
  r2 = r2
  r3 = r3
  t1 = t1
  p1 = p1
  p2 = p2
  Requests <- MCRequests
  Tokens = {t1}
  Proofs = {p1, p2}
  TokenOf <- MCTokenOf
  ProofOf <- MCProofOf
  RouteOf <- MCRouteOf
  Exp <- MCExp
  Iat <- MCIat
  Leeway = 1
  MaxSkew = 2
  DpopTtl = 4
  MaxTime = 5
  MaxRevocations = 0
INVARIANTS
  ApprovedIsRecorded
\* Every request ends and the clock is bounded.
CHECK_DEADLOCK FALSE
