SPECIFICATION Spec
CONSTANTS
  r1 = r1
  r2 = r2
  p1 = p1
  p2 = p2
  Relays <- MCRelays
  Renders <- MCRenders
  Boards = {"a"}
  Configured = TRUE
  Networks = {TRUE, FALSE}
  TTL = 2
  MaxWait = 1
  MaxTime = 5
  MaxPublished = 2
SYMMETRY Symmetry
INVARIANTS
  RevocationReachesDiscover
  EmptyMeansEmpty
PROPERTIES
  WarmInstanceNeverOpens
