SPECIFICATION Spec
CONSTANTS
  Gateways = {"g1"}
  Commands <- Plain
  Invocations = {"i1", "i2"}
  GwOf <- OneHost
  CmdOf <- SameCmd
  Decoded <- MCDecoded
  Field2 <- MCField2
  BlockedPayloads <- MCBlocked
  TTL = 1
  Grace = 1
  Live = 1
  Wait = 2
  MaxTime = 3
  Events <- ApproveOnly
  Budget = 1
  NoFile = NoFile
  NoRow = NoRow
  NoTicket = NoTicket
CHECK_DEADLOCK FALSE
INVARIANT OneRunPerGrant
