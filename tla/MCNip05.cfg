SPECIFICATION Spec
CONSTANTS
  Rows = {"row1", "row2"}
  Pubkeys = {"alice", "bob"}
  Author <- MCAuthor
  Profiles <- MCProfiles
  Names = {"a"}
  Nobody = "nobody"
  OkTTL = 2
  ErrTTL = 1
  Timeout = 1
  MaxTime = 4
  MaxMoves = 1
INVARIANTS VerdictsWereTrue
PROPERTIES VerdictComes
