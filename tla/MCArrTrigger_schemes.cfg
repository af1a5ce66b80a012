SPECIFICATION FairSpec
CONSTANTS
  Triggers = {c1, c2}
  Timeout = 2
  Initial = 1
  MaxBackups = 3
INVARIANTS
  TypeOK
  NeverOlder
  OwnCommandIsNew
PROPERTY EveryTriggerReturns
CHECK_DEADLOCK FALSE
