SPECIFICATION Spec
CONSTANTS
  Callers = {c1, c2}
  None = None
  Dir <- MCShortDir
  File <- MCFile
  Old = {}
  MaxExpiries = 1
  MaxFaults = 0
INVARIANT ExpirySignsIn
CHECK_DEADLOCK FALSE
