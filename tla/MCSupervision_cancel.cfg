SPECIFICATION MCSpec
CONSTANTS
  Jobs = {j1, j2}
  Workers = {w1, w2}
  RetentionDays = {1}
  Width = 4
  Day = 1
  MaxClock = 1
  MaxAttempts = 2
  MaxCrashes = 0
  MaxFaults = 0
PROPERTY CancelledJobsEnd
