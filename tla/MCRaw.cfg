SPECIFICATION Spec
CONSTANTS
  Scenarios <- AllScenarios
INVARIANTS DecodingNeverPanics  KeptOnceInOrder
 
