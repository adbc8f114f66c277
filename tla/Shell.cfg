SPECIFICATION FairSpec
CONSTANTS
  Children = {c1, c2, c3}
  c1 = c1
  c2 = c2
  c3 = c3
  MaxChildren = 2
  MaxForkFailures = 1
  Failed = Failed
INVARIANTS LimitKept NobodyLeft ListIsTrue
PROPERTIES AllReaped ExitsUndisturbed
CHECK_DEADLOCK FALSE
