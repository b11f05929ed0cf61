SPECIFICATION Spec
CONSTANTS
  r1 = r1
  r2 = r2
  q1 = q1
  q2 = q2
  q3 = q3
  Relays <- MCRelays
  Coords <- MCCoords
  Users = {"op"}
  Operators <- MCOperators
  Owner <- MCSelfOwned
  Id <- MCId
  Concurrency = 1
  Faults = {"blind", "publish"}
  Clock = {1}
  Versions = {1}
  Conforming = {1}
  Requests = {q1, q2, q3}
SYMMETRY Symmetry
INVARIANTS
  ListedIsAttested
PROPERTIES
  OkMeansLockstep
