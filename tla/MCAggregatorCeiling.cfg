SPECIFICATION Spec
CONSTANTS
  r1 = r1
  r2 = r2
  s1 = s1
  s2 = s2
  s3 = s3
  s4 = s4
  t1 = t1
  i1 = i1
  v1 = v1
  NoRelay = NoRelay
  NoSocket = NoSocket
  Relays <- MCRelays
  Cap = 2
  Ceiling = 3
  Tracks = {t1}
  Overlaps = {TRUE}
  Lists <- MCOneList
  Sockets = {s1, s2, s3, s4}
  MaxFaults = 1
  Ideas = {i1}
  Replies = {}
  Labels = {}
  Votes = {}
  Deletions = {}
  Target <- MCNoVote
SYMMETRY Symmetry
INVARIANTS
  ConnectionCeiling
