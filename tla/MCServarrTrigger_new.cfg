SPECIFICATION Spec
CONSTANTS
  Triggers = {c1, c2}
  Timeout = 2
  Initial = 1
  MaxBackups = 3
INVARIANT ReadsTheNewArchive
CHECK_DEADLOCK FALSE
