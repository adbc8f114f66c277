SPECIFICATION Spec
CONSTANTS
  Short = 4
  Long = 6
  Slow = 120
  Size = 6
INVARIANTS RecognisersAreRight FunctionsAreRight
CHECK_DEADLOCK FALSE
