\* A pull request in each of two repositories, one of which is opted out.
CONSTANTS
  p1 = p1
  p2 = p2
  r1 = r1
  r2 = r2
  Pulls = {p1, p2}
  Repositories = {r1, r2}
  HomeOf <- TwoHomes
  CureForeign = {}
  OptOuts = {r2}
  CureSweeps = {c1}
  MaxPushes = 1
  MaxCureFaults = 0
CONSTRAINT Limited
SPECIFICATION FairCureSpec
PROPERTY DecayIsCured
CHECK_DEADLOCK FALSE
