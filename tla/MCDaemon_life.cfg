SPECIFICATION FairSpec
CONSTANTS
  Jobs = {j1, j2, j3}
  First = first
INVARIANTS
  TypeOK
  ExitStatus
  FlushedOnReturn
PROPERTIES
  SpawnsWithinService
  StopsWhenTold
CHECK_DEADLOCK FALSE
