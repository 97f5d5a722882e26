CONSTANTS
  m1 = m1
  m2 = m2
  t1 = t1
  t2 = t2
  Actors = {a1, a2}
  Requests = {r1, r2}
  Models = {m1, m2}
  Toolsets = {t1, t2}
  Asks <- TwoAsks
  None = None
  MaxArrivals = 3
  MaxIds = 2
  MaxBeats = 1
SPECIFICATION Spec
SYMMETRY LaneSymmetry
INVARIANTS TypeOK LeaseReturned LeaseBetweenActors ChatOnOwnSession
CHECK_DEADLOCK FALSE
