CONSTANTS
  NumLists = 1
  Size <- OneListSize
  FirstParm <- PlainParm
  Parms <- OneParm
  TestCycles <- OneCycle
  Services = {}
  PassActions <- ListPass
  FailActions <- ListFail
  CycleValues = {1, 2}
  Targets <- ListTarget
  RunModes = {"default"}
SPECIFICATION Spec
INVARIANTS TypeOK AbortHonoured RetryAllowance
PROPERTIES SpinUntilQuit
