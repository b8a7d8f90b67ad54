SPECIFICATION Spec
CONSTANTS
  a = a
  b = b
  x = x
  NoCommit = NoCommit
  Procs = {p1}
  Commits = {a, x}
  Valid = {a, x}
  Ancestry <- OneLine
  Declares <- Uniform
  Retains <- Changing
  GoalMoves <- AllMoves
  Healthy = 1
  FirstBackoff = 1
  MaxBackoff = 2
  Lease = 1
  PruneEvery = 1
  Day = 1
  Retention = 0
  MaxDetail = 1
  MaxTime = 1
  MaxSeq = 5
  MaxRuns = 0
  Events = {"activate", "rollback"}
CHECK_DEADLOCK FALSE
INVARIANTS
  CoreHistoryVerified
