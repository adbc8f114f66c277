SPECIFICATION FairSpec
CONSTANTS
  Topics = {"t", "s", "r"}
  Questions = {"q", "r", "s"}
  Calls = {c1, c2, c3, c4}
  c1 = c1
  c2 = c2
  c3 = c3
  c4 = c4
  Users = {u1, u2}
  u1 = u1
  u2 = u2
  MaxTopics = 2
  MaxQuestions = 2
  MaxAnswers = 3
  Window = 2
  MaxServed = 3
  MaxLosses = 1
  MaxBroken = 1
  Nobody = Nobody
  Scenes <- MCScenes
INVARIANTS NumberedWithoutGaps LimitsKept EarlierIsSafe DownloadHasEarlier ToldTrue
PROPERTY Answered
CHECK_DEADLOCK FALSE
