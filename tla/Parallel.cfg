SPECIFICATION FairSpec
CONSTANTS
  Threads = {t1, t2, t3}
  t1 = t1
  t2 = t2
  t3 = t3
  Points <- Grid
  Links <- GridLinks
  Walls <- GridWalls
  Requests = {a, b}
  a = a
  b = b
  Source <- TwoSources
  Destination <- TwoDestinations
  WorkList <- TwoRequests
  Trails <- TwoTrails
  Nobody = Nobody
  NoRequest = NoRequest
INVARIANTS RoutesDisjoint VerificationPasses NothingLost NothingRoutableLeft
PROPERTIES LocksGuardPoints OnlyLosersGoOn
