SPECIFICATION FairSpec
CONSTANTS
  Scripts <- MCScripts
  Room = 1
INVARIANTS
  TypeOK
  AllLinesLogged
  UrlReported
PROPERTIES
  UrlShown
  ReturnsAtLast
CHECK_DEADLOCK FALSE
