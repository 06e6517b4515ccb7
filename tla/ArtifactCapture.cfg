SPECIFICATION Spec
CONSTANTS
  c1 = c1
  c2 = c2
  bad = bad
  Content = {c1, c2, bad}
  Invalid = {bad}
  Writes <- MCWrites
  Required <- MCRequired
  Absent = Absent
  None = None
  MaxCrash = 3
  MaxChange = 3
CHECK_DEADLOCK FALSE
INVARIANTS
  ManifestIsBacked
  NothingAdoptedAfterCrash
  ApprovalIsUsable
