\* As Agents.cfg, for the claim about replies of the model.
SPECIFICATION Spec
CONSTANTS
  linkA = linkA
  linkB = linkB
  unsafe = unsafe
  none = none
  unfit = unfit
  Proposals <- MCProposals
  HitLists <- MCHitLists
  SafeLinks = {linkA, linkB}
  NoLink = none
  Unfit = unfit
  MaxSources = 2
INVARIANT
  InvalidPlanFallsBack
\* Every request ends.
CHECK_DEADLOCK FALSE
