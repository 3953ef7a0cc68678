SPECIFICATION FairSpec
CONSTANTS
  Roles <- TwoRoles
  JoinOrder <- TwoOrder
  Step <- PanicStep
  StepsOf <- TwoStepsOf
  DepGraphs <- AcyclicGraphs
  Clock = "real"
  MaxRuntime = 1
  MaxTrace = 100
  FinishErrors = {"transport"}
INVARIANTS DependentsOfFailedNeverRun OkMeansEveryStepDone DependencyRecordedFirst FailureIsTraced
PROPERTY Termination
