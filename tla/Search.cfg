SPECIFICATION Spec
CONSTANTS
  Nodes = {1, 2, 3, 4, 5, 6}
  Model <- Map
  Transports = {0, 1}
  Inf = Inf
  Exercises <- MCExercises
INVARIANT SearchIsRight
PROPERTY ExpandsInOrder
