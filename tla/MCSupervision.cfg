SPECIFICATION MCSpec
CONSTANTS
  Jobs = {j1, j2}
  Workers = {w1, w2}
  RetentionDays = {1}
  Width = 4
  Day = 1
  MaxClock = 2
  MaxAttempts = 2
  MaxCrashes = 1
  MaxFaults = 1
INVARIANTS
  OneOwner CancelWins
  CasesAreOrdered BenchIsFounded  NothingLeftRunning AnswerIsWhole RelayIsComplete
PROPERTIES
   ImplementsLifecycle QueuedJobsEnd
  
