SPECIFICATION Spec
CONSTANTS
  r1 = r1
  r2 = r2
  q1 = q1
  q2 = q2
  q3 = q3
  Relays <- MCOneRelay
  Coords <- MCCoords
  Users = {"op"}
  Operators <- MCOperators
  Owner <- MCSelfOwned
  Id <- MCId
  Concurrency = 1
  Faults = {"crash"}
  Clock = {1, 2}
  Versions = {1, 2}
  Conforming = {1, 2}
  Requests = {q1, q2, q3}
SYMMETRY RequestSymmetry
PROPERTIES
  RevokeTakesEffect
  RefinesAllowlist
