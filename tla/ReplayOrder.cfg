SPECIFICATION Spec
CONSTANTS
  RootCalls <- MCSubCalls
  SubCalls <- MCSubCalls
  x = x
  y = y
  Value = {x, y}
  Keys <- TwoKeys
  Bad = Bad
  None = None
  MaxRoot = 2
  MaxSub = 1
  Width = 2
  MaxGroup = 1
  Retries = 1
  Limit = 3
  MaxExec = 2
  MaxFault = 1
CHECK_DEADLOCK FALSE
INVARIANTS
  DeterministicNeverDiverges
