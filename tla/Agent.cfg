SPECIFICATION Spec
CONSTANTS
  States = {1, 2, 3}
  nA = 3
  T <- World
  Rewards <- Worlds
  I = 1
  Horizon = 4
  Runs <- Script
  Unit = 8
  MaxReward = 1
INVARIANT RowsAreSound
PROPERTY OnlyLearningTeaches
