SPECIFICATION Spec
CONSTANTS
  a = a
  b = b
  x = x
  NoCommit = NoCommit
  Procs = {p1}
  Commits = {a}
  Valid = {a}
  Ancestry <- OneLine
  Declares <- Uniform
  Retains <- Same
  GoalMoves <- AllMoves
  Healthy = 1
  FirstBackoff = 1
  MaxBackoff = 2
  Lease = 1
  PruneEvery = 1
  Day = 1
  Retention = 0
  MaxDetail = 1
  MaxTime = 1
  MaxSeq = 7
  MaxRuns = 0
  Events = {"activate", "override", "prune", "source-unavailable"}
CHECK_DEADLOCK FALSE
INVARIANTS
  OverridesReverify
