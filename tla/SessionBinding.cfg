SPECIFICATION Spec
CONSTANTS
  r1 = r1
  r2 = r2
  r3 = r3
  None = None
  Open = Open
  Run <- MCRun
  MaxThread = 3
  MaxAttempt = 2
  MaxCrash = 2
  RetrySafe = TRUE
SYMMETRY MCSymmetry
CHECK_DEADLOCK FALSE
INVARIANTS
  UnsettledOwns
  FileNamesLastSettled
PROPERTIES
  RefusedForUnsettledWork
  FirstAttemptsContinue
