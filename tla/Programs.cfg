SPECIFICATION Spec
CHECK_DEADLOCK FALSE
INVARIANTS AcceptedIsWhatWasChecked ReplayedAsRecorded
PROPERTIES RecordsAndLimitsHold EveryProgramRests
