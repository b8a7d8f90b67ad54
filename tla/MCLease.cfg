\* One pull-request-bound item through deep lease histories, and one operator session
\* that may act on an outdated form.
CONSTANTS
  DiscoveryKinds <- MCDiscoveryKinds
  Items <- OneItem
  Workers = {w1, w2}
  Operators = {o1}
  Repositories = {"r"}
  Kinds = {"fix"}
  SourceRefs = {}
  Definition <- OneDefinition
  RepositoryOf <- OneRepository
  SourceRefOf <- OneNoRef
  Edges <- OneNoEdges
  Priorities = {0}
  LeaseTerms = {1}
  BackoffReleases = 2
  BackoffWindow = 2
  MaxLineageDepth = 2
  MaxFollowUps = 2
  NoOne = NoOne
  NoRef = NoRef
  MaxTime = 2
  Reportable = {"pull-request"}
  AttemptLimits = {1, 2}
  MaxGrants = 3
SYMMETRY WorkerSymmetry
CONSTRAINT ShortTails
SPECIFICATION Spec
INVARIANT TypeOK
INVARIANT LeaseRowSound
INVARIANT AttemptsFenced
INVARIANT ChurnBounded
INVARIANT ViewsFaithful
INVARIANT NoStaleIntent
PROPERTY FencedSpec
CHECK_DEADLOCK FALSE
