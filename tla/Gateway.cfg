\* One message delivered twice and a plan submission with the same token; or two
\* of the three with revocations arriving at any moment.
SPECIFICATION MCSpec
CONSTANTS
  r1 = r1
  r2 = r2
  r3 = r3
  t1 = t1
  p1 = p1
  p2 = p2
  Requests <- MCRequests
  Tokens = {t1}
  Proofs = {p1, p2}
  TokenOf <- MCTokenOf
  ProofOf <- MCProofOf
  RouteOf <- MCRouteOf
  Exp <- MCExp
  Iat <- MCIat
  Leeway = 1
  MaxSkew = 2
  DpopTtl = 4
  MaxTime = 5
  MaxRevocations = 2
INVARIANTS
  OneUseBeforeExpiry
  ProofReuseNeedsStall
  AuditTellsOutcome
  RevocationHeeded
PROPERTIES
  OneTimePromise
\* Every request ends and the clock is bounded.
CHECK_DEADLOCK FALSE
