CONSTANTS
  Lines = 5
  Jobs <- MakefileJobs
  Junk <- TwoValues
  Rand <- TwoValues
SPECIFICATION Spec
INVARIANT SingleBitsInRegion
CHECK_DEADLOCK FALSE
