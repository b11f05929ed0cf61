SPECIFICATION WatchedSpec
CONSTANTS
  r1 = r1
  r2 = r2
  q1 = q1
  q2 = q2
  q3 = q3
  Relays <- MCOneRelay
  Coords <- MCCoords
  Users = {"alice", "op"}
  Operators <- MCOperators
  Owner <- MCOwner
  Id <- MCId
  Concurrency = 2
  Faults = {"blind", "read", "publish", "crash"}
  Clock = {1}
  Versions = {1}
  Conforming = {1}
  Requests = {q1, q2, q3}
  Watched <- MCWatched
INVARIANTS
  Provenance
  SuccessIsDurable
PROPERTIES
  NextOpHeals
  EveryRequestAnswered
