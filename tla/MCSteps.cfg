SPECIFICATION MCSpec
CHECK_DEADLOCK FALSE
CONSTANTS
  Protocols <- Accepted
  MaxFaults = 2
  AllowPlugins = TRUE
  TextTests = {}
INVARIANTS
  OneNumberOnePayload
  AcksNameReceived
  TrackersAgree
  
PROPERTY RunsEnd
