SPECIFICATION Spec
CONSTANTS
  MaxAttempt = 3
  MaxServer = 3
  MaxFaults = 2
  RetrySafe = TRUE
  ReadOnly = TRUE
CHECK_DEADLOCK FALSE
INVARIANTS
  LiveTurnIsOwned
  SentIsNotCalledStopped
  RecordedAnswerEndsSending
PROPERTIES
  RefinesTurns
  ReleasedAfterShutdown
