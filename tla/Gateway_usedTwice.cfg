\* The promise of single use without its time limit, for requests that are
\* answered at once and a proof of possession that is fresh after the token's exp.
SPECIFICATION PromptSpec
CONSTANTS
  r1 = r1
  r2 = r2
  r3 = r3
  t1 = t1
  p1 = p1
  p2 = p2
  Requests <- MCRequests
  Tokens = {t1}
  Proofs = {p1, p2}
  TokenOf <- MCTokenOf
  ProofOf <- MCProofOf
  RouteOf <- MCRouteOf
  Exp <- MCExp
  Iat <- MCLateIat
  Leeway = 1
  MaxSkew = 2
  DpopTtl = 4
  MaxTime = 5
  MaxRevocations = 0
INVARIANTS
  UsedOnce
\* Every request ends and the clock is bounded.
CHECK_DEADLOCK FALSE
