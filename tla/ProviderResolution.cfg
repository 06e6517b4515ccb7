SPECIFICATION RSpec
CONSTANTS
  MaxAttempt = 2
  MaxChoice = 2
  MaxServer = 2
  MaxFaults = 1
  RetrySafe = FALSE
  ReadOnly = FALSE
CHECK_DEADLOCK FALSE
INVARIANTS
  SecondTurnWasWaived
  AnswerOutlivesChoice
PROPERTIES
  ChoicesOnlyAdvance
  CleanupIsNotRefused
  NoTurnUnderAChoice
