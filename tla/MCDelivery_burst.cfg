SPECIFICATION MCSpec
CONSTANTS
  Roles = {"server"}
  Senders = {"client", "peer"}
  To <- ToServer
  Configs <- Bursts
  HeaderSize = 2
  Radix = 3
  Payloads <- ShortPayloads
  Connections <- AllConnections
INVARIANT BurstsAreConsecutive
