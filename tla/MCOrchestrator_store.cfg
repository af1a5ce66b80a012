SPECIFICATION Spec
CONSTANTS
  Runs = {r1, r2, r3}
  Targets <- MCStore
  Enabled <- MCStoreEnabled
  Kind <- MCStoreKind
  AppArchives <- MCStoreArchives
  InitialFiles <- MCStoreFiles
  RetentionDays = 1
  MaxTime = 3
SYMMETRY Symmetry
INVARIANT ReportedBackupKept
PROPERTIES
  NewestKept
  TrashOnlyExpired
  ImplementsStore
CHECK_DEADLOCK FALSE
