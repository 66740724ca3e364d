CONSTANTS
  NumLists = 2
  Size <- EmptyListSize
  FirstParm <- MixedParm
  Parms <- MixedParms
  TestCycles <- MixedCycles
  Services <- FirstTest
  PassActions <- MenuPass
  FailActions <- MenuFail
  CycleValues = {1, 2}
  Targets <- AllMenus
  RunModes = {"autorun", "config", "debug"}
SPECIFICATION FairSpec
INVARIANTS AbortNeedsOperator StrikeDecides RunItemByJump PassMeansRun
PROPERTIES OperatorCanStop RunEnds
