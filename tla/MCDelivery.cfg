SPECIFICATION MCSpec
CONSTANTS
  Roles = {"server"}
  Senders = {"client", "peer"}
  To <- ToServer
  Configs <- AllConfigs
  HeaderSize = 2
  Radix = 3
  Payloads <- ShortPayloads
  Connections <- AllConnections
INVARIANTS
  SimulatedReportsAreTrue QueuedInOrder LiveSendsAreTrue LivePendingBounded
PROPERTY WaitsEnd
