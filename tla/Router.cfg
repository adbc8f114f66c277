SPECIFICATION FairSpec
CONSTANTS
  Width = 2
  Height = 2
  Depth = 3
  XCost = 1
  YCost = 1
  ZCost = 2
  BendCost = 2
  Requests <- FromCorner
INVARIANTS FoundIfConnected RouteIsTrail
PROPERTY Returns
CHECK_DEADLOCK FALSE
