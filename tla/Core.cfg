SPECIFICATION Spec
CONSTANTS
  Replicas = {r1, r2}
  r1 = r1
  r2 = r2
  Updates = {u1, u2}
  u1 = u1
  u2 = u2
  u3 = u3
  Payload <- EmptyReport
  Cameras = {c1}
  c1 = c1
  Places = {p1}
  p1 = p1
  NoPlace = NoPlace
  Resending = TRUE
  NoMessage = NoMessage
  MaxFailures = 1
  MaxEvents = 2
INVARIANTS TypeOK NoFuture UniqueTimestamps AtMostOnce ValueIsKnown
PROPERTY NeverBack
CHECK_DEADLOCK FALSE
