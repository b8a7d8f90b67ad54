SPECIFICATION FairSpec
CONSTANTS
  Null = Null
  Repos = {1, 2}
  Catalogs <- MCCatalogs
  Answers <- MCAnswers
  Contents <- MCContents
  FirstWorld <- MCFirstWorld
  Inspections <- MCInspections
  Passes = {"poll", "command"}
  Scheduled = "poll"
  MaxChanges = 3
CHECK_DEADLOCK FALSE
INVARIANTS
  TypeOK
  HistoryVerified
  ResumesIffUnchanged
PROPERTIES
  GoodRepositoriesEnroll
