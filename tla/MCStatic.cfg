SPECIFICATION MCSpec
CONSTANTS
  Names = {1, 2, 3, 4}
  RoleNames = {"a", "b"}
  ListLength = 2
  GraphSize = 4
  Protocols <- ListsAndGraphs
  Invariants <- ThreeInvariants
  Explored <- ThreeSteps
  Bounds = {4, 20}
INVARIANTS
  PlansAreRight ReportIsExact CounterexamplesAreShortest
   LayoutIsDetermined LoadIsExact AcceptedStepsAreExecutable
