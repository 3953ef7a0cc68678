SPECIFICATION FairSpec
CONSTANTS
  Roles <- ThreeRoles
  JoinOrder <- TwoOrder
  Step <- ThreeStep
  StepsOf <- ThreeStepsOf
  DepGraphs <- ThreeGraphs
  Clock = "virtual"
  MaxRuntime = 6
  MaxTrace = 8
  FinishErrors = {"resource_limit"}
INVARIANTS TraceGapFree
PROPERTY Termination
