SPECIFICATION FairSpec
CONSTANTS
  Roles <- TwoRoles
  JoinOrder <- TwoOrder
  Step <- PanicStep
  StepsOf <- TwoStepsOf
  DepGraphs <- AcyclicGraphs
  Clock = "virtual"
  MaxRuntime = 2
  MaxTrace = 100
  FinishErrors = {}
PROPERTY WaitersReleased
