\* The poll and command stories, with everything that may happen in either.
SPECIFICATION MCSpec
CONSTANTS
  a = a
  b = b
  x = x
  NoCommit = NoCommit
  Procs = {p1, p2}
  Commits = {a, b, x}
  Valid = {a, b, x}
  Ancestry <- OneLine
  Declares <- Shrinking
  Retains <- Growing
  GoalMoves <- AllMoves
  Healthy = 1
  FirstBackoff = 1
  MaxBackoff = 2
  Lease = 1
  PruneEvery = 1
  Day = 1
  Retention = 0
  MaxDetail = 1
  MaxTime = 1
  MaxSeq = 6
  MaxRuns = 2
  Events = {"rollback", "failing rollback", "activate", "override", "prune", "stop", "throw", "other", "source-unavailable", "candidate-invalid", "candidate-not-descendant", "persistence-failed", "continuity-unverifiable"}
SYMMETRY ProcSymmetry
CONSTRAINT Bounded
CHECK_DEADLOCK FALSE
INVARIANTS
  TypeOK
  DeclarationsRetained
  CoreHistoryVerified
  ReadyIsEvidenced
  TimesFollowSequence
  SuppressionLosesNothing
PROPERTIES
  AuthorityIsContinuous
  HardFailureStands
  PruneChangesNoAnswer
