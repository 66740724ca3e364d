CONSTANTS
  Lines = 5
  Jobs <- AllJobs
  Junk <- TwoValues
  Rand <- TwoValues
SPECIFICATION Spec
INVARIANTS WithinRegion FaultsFound NoFalseAlarm Restored
PROPERTIES Ends
CHECK_DEADLOCK FALSE
