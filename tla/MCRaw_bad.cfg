SPECIFICATION Spec
CONSTANTS
  Scenarios <- AllScenarios
INVARIANT NonMatchingSurvive
