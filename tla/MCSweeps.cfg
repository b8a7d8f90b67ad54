\* Two concurrent passes of the review gate over one draft, or two of the cure over one pull
\* request whose sweeps may fail, or the feeder of one program, or two overlapping imports.
CONSTANTS
  Sweeps = {s1, s2}
  MaxRounds = 1
  MaxHeads = 2
  MaxFaults = 0
  p1 = p1
  p2 = p2
  r1 = r1
  r2 = r2
  Pulls = {p1}
  Repositories = {r1}
  HomeOf <- OneHome
  CureForeign = {r1}
  OptOuts = {r1}
  CureSweeps = {c1, c2}
  MaxPushes = 2
  MaxCureFaults = 1
  Programs = {"quality"}
  Base <- MCBase
  Cap = 3
  MaxDoublings = 60
  Overrides = {0, 2, 4}
  Feeders = {f1}
  FeedTime = 4
  MaxRoots = 3
  MaxEvents = 1
  Issues = {1, 2, 3}
  PullRequests = {3}
  Bodies <- MCBodies
  Malformed = Malformed
  PageSize = 1
  MaxPages = 3
  MaxDependsOn = 2
  MaxPredecessors = 2
  Importers = {m1, m2}
  MaxGitHub = 1
  MaxDecisions = 1
CONSTRAINT Overlapping
SYMMETRY Symmetry
SPECIFICATION MCSpec
INVARIANT SweepsTypeOK
INVARIANT ReleasedHeadsPassed
INVARIANT NoReadyUnreviewedHead
INVARIANT OneCurePerHead
INVARIANT CompletionsMechanical
INVARIANT ImportsSound
PROPERTY FeedsByCooldown
CHECK_DEADLOCK FALSE
