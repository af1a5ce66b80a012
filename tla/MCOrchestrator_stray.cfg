SPECIFICATION Spec
CONSTANTS
  Runs = {r1}
  Targets <- MCStore
  Enabled <- MCStoreEnabled
  Kind <- MCStoreKind
  AppArchives <- MCStoreArchives
  InitialFiles <- MCStoreFiles
  RetentionDays = 1
  MaxTime = 3
PROPERTY OnlyVersionedTrashed
CHECK_DEADLOCK FALSE
