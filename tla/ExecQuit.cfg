CONSTANTS
  NumLists = 1
  Size <- OneListSize
  FirstParm <- PlainParm
  Parms <- OneParm
  TestCycles <- OneCycle
  Services = {}
  PassActions <- PausePass
  FailActions <- StopFail
  CycleValues = {1}
  Targets <- AllMenus
  RunModes = {"default"}
SPECIFICATION Spec
INVARIANTS QuitEndsRun
