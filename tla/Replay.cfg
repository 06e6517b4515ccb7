SPECIFICATION Spec
CONSTANTS
  RootCalls <- MCRootCalls
  SubCalls <- MCSubCalls
  x = x
  y = y
  Value = {x}
  Keys <- NoKeys
  Bad = Bad
  None = None
  MaxRoot = 2
  MaxSub = 1
  Width = 2
  MaxGroup = 1
  Retries = 1
  Limit = 3
  MaxExec = 3
  MaxFault = 2
CHECK_DEADLOCK FALSE
INVARIANTS
  DeterministicNeverDiverges
  SeenIsRecorded
  EffectsAreAuthorised
  DivergedRunStops
  QuestionIsOpen
PROPERTIES
  AnswerIsFinal
  OutcomeMatchesHistory
