\* One item, one worker and one member whose session renders and releases leases.
CONSTANTS
  DiscoveryKinds <- MCDiscoveryKinds
  Items <- OneItem
  Workers = {w1}
  Operators = {o1}
  Repositories = {"r"}
  Kinds = {"fix"}
  SourceRefs = {}
  Definition <- OneDefinition
  RepositoryOf <- OneRepository
  SourceRefOf <- OneNoRef
  Edges <- OneNoEdges
  Priorities = {0}
  LeaseTerms = {1}
  BackoffReleases = 2
  BackoffWindow = 2
  MaxLineageDepth = 2
  MaxFollowUps = 2
  NoOne = NoOne
  NoRef = NoRef
  MaxTime = 1
  Reportable = {"pull-request"}
  AttemptLimits = {1}
  MaxGrants = 3
SPECIFICATION Spec
INVARIANT OnlyWorkersDecline
CHECK_DEADLOCK FALSE
