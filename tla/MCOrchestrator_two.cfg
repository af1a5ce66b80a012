SPECIFICATION FairSpec
CONSTANTS
  Runs = {r1, r2}
  Targets <- MCTargets
  Enabled <- MCEnabled
  Kind <- MCKind
  AppArchives <- MCAppArchives
  InitialFiles <- MCInitialFiles
  RetentionDays = 1
  MaxTime = 2
INVARIANTS
  TypeOK
  FailedTargetUntouched
  HonestOutcome
  IInv
PROPERTY RunsEnd
CHECK_DEADLOCK FALSE
