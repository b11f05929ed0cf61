SPECIFICATION FairSpec
CONSTANTS
  Priors <- MCPriors
  Loads = {TRUE, FALSE}
  Refusals = {"vote", "retract", "sweep", "late"}
  LowId <- MCLowId
  MaxTime = 1
  MaxAt = 2
  Mistakes = 1
  None = None
CHECK_DEADLOCK FALSE
INVARIANTS
  TypeOK
  LastClickCounts
PROPERTIES
  CleanUpIsHarmless
  OrphansGo
