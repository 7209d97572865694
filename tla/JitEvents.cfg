SPECIFICATION Spec
CONSTANTS
  Gateways = {"g1", "g2"}
  Commands <- Mixed
  Invocations = {"i1", "i2"}
  GwOf <- OneHost
  CmdOf <- MixedCmd
  Decoded <- MCDecoded
  Field2 <- MCField2
  BlockedPayloads <- MCBlocked
  TTL = 1
  Grace = 1
  Live = 1
  Wait = 1
  MaxTime = 1
  Events <- AllEvents
  Budget = 2
  NoFile = NoFile
  NoRow = NoRow
  NoTicket = NoTicket
CHECK_DEADLOCK FALSE
INVARIANTS   RequestsKept  RunsRecorded
