SPECIFICATION FairSpec
CONSTANTS
  Callers = {c1, c2}
  None = None
  Dir <- MCDir
  File <- MCFile
  Old = {"old1", "old2"}
  MaxExpiries = 3
  MaxFaults = 1
INVARIANTS
  TypeOK
  NoNeedlessSignIn
  PutHasFolder
  HealsOneExpiry
PROPERTIES
  ImplementsCalls
  EveryCallReturns
CHECK_DEADLOCK FALSE
