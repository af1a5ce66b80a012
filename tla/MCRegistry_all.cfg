SPECIFICATION Spec
CONSTANTS
  Configurations <- MCConfigurations
  Databases <- MCDatabases
INVARIANTS
  TypeOK
  FirstErrorWins
  ListIsFaithful
  ResolvedIsComplete
  DumpsWhatIsNamed
  KeyIsTheApps
CHECK_DEADLOCK FALSE
