\* A parent, its follow-ups and theirs, with proposals that must be refused; or a gated
\* item, its predecessor and an ungated rival.
CONSTANTS
  DiscoveryKinds <- MCDiscoveryKinds
  Items <- StoryItems
  Workers = {w1}
  Operators = {}
  Repositories = {"r"}
  Kinds = {"fix", "scan-discovery"}
  SourceRefs = {"a", "b"}
  Definition <- StoryDefinition
  RepositoryOf <- StoryRepository
  SourceRefOf <- StoryRef
  Edges <- StoryEdges
  Priorities = {0, 1}
  LeaseTerms = {2}
  BackoffReleases = 1
  BackoffWindow = 1
  MaxLineageDepth = 2
  MaxFollowUps = 2
  NoOne = NoOne
  NoRef = NoRef
  MaxTime = 1
  Reportable = {"pull-request"}
  AttemptLimits = {1, 2}
  MaxGrants = 2
CONSTRAINT OneStory
SPECIFICATION Spec
INVARIANT ContractsSound
PROPERTY ClaimPicksBest
CHECK_DEADLOCK FALSE
