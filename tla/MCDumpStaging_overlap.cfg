SPECIFICATION Spec
CONSTANTS
  Runs = {r1, r2}
  Databases <- MCDatabases
SYMMETRY Symmetry
INVARIANTS
  TypeOK
  ArchiveIsOwnDump
  ArchiveCoversDump
  SingleDumpIsOwn
  NoTempLeft
CHECK_DEADLOCK FALSE
