CONSTANTS
  Requests = {"first", "again", "careless", "greedy", "second", "third", "early", "late"}
  Items = {"a0", "a1", "p1", "a2", "p2", "a3", "p3", "a4"}
  ItemOf <- MCItemOf
  IatOf <- MCIatOf
  LifeOf <- MCLifeOf
  Identity <- MCIdentity
  Members = {"bot", "alice"}
  SetOf <- MCSetOf
  MaxLife = 1
  Leeway = 1
  MaxSkew = 1
  MarkerTtl <- MCMarkerTtl
  Window = 2
  Limit = 1
  Revokes = {v1, v2}
  Ttls = {1, 2}
  MaxTime = 4
SPECIFICATION MCSpec
SYMMETRY MCSymmetry
INVARIANTS RevocationStands ReuseNeedsSlack RevokedGetsNoToken QuotasHold SpentLeavesRecord
CHECK_DEADLOCK FALSE
