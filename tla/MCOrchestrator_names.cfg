SPECIFICATION Spec
CONSTANTS
  Runs = {r1, r2}
  Targets <- MCTargets
  Enabled <- MCEnabled
  Kind <- MCKind
  AppArchives <- MCAppArchives
  InitialFiles <- MCInitialFiles
  RetentionDays = 1
  MaxTime = 2
INVARIANT ApiArchiveRenamed
CHECK_DEADLOCK FALSE
