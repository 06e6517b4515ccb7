SPECIFICATION Spec
CONSTANTS
  w1 = w1
  w2 = w2
  whole = whole
  inner = inner
  Branch <- MCBranch
  Budget <- MCBudget
  Outer <- MCOuter
  Path <- MCPath
  MaxTurns <- MCTurns
  Seconds <- MCSeconds
  Timed = {whole}
  MaxTime = 3
  MaxSets = 0
  MaxCrashes = 0
CHECK_DEADLOCK FALSE
INVARIANT ClockErrorIsReal
