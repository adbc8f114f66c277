SPECIFICATION SerialSpec
SYMMETRY Symmetry
CONSTANTS
  Replicas = {r1, r2}
  r1 = r1
  r2 = r2
  Updates = {u1, u2, u3}
  u1 = u1
  u2 = u2
  u3 = u3
  Payload <- OneCamera
  Cameras = {c1}
  c1 = c1
  Places = {p1}
  p1 = p1
  NoPlace = NoPlace
  Resending = FALSE
  NoMessage = NoMessage
  MaxFailures = 1
  MaxEvents = 3
INVARIANTS CountedIsHere RemovedIsEverywhere ReadsAreComplete NothingLeft
PROPERTY ImplementsCausalStore
CHECK_DEADLOCK FALSE
