SPECIFICATION MCSpec
CONSTANTS
  r1 = r1
  g1 = g1
  g2 = g2
  i1 = i1
  u1 = u1
  u2 = u2
  Null = Null
  Repos = {r1}
  Fleets = {"enabled"}
  Requests <- MCRequests
  Audits <- MCAudits
  Runs = {u1, u2}
  Sources = {i1}
  Failures <- MCFailures
  MaxTime = 1
  MaxLog = 8
  Controllers = {c1, c2}
  Lease = 2
  Interval = 1
  Retry <- MCRetry
  Asks = {3}
  PageSize = 1
  MaxPages = 2
  MaxDeliveries = 3
  MaxFaults = 1
  Nobody = Nobody
  Gone = Gone
  q = q
  Paths = {q}
  NoFile = NoFile
  MaxMinted = 5
  MaxOpState = 1
  MaxAccidents = 1
CONSTRAINT RunsInOrder
CHECK_DEADLOCK FALSE
INVARIANTS
  ControlPlaneTypeOK
  HistoryVerified
  AcceptedIsRecorded
  CoverageSound
  NormalizersAgree
  NothingToldIsLost
  ProjectionsVerify
PROPERTIES
  BoundaryIsEvidenced
  ScheduleRespected
  AuditPartRecurs
