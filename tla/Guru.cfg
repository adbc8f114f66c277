SPECIFICATION Spec
CONSTANTS
  Letters <- MCLetters
  Attempts <- MCAttempts
  MaxPlayers = 3
  MaxTurns = 6
INVARIANTS BooksAreTrue ResultIsTrue
CHECK_DEADLOCK FALSE
