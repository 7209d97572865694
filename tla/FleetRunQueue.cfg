SPECIFICATION FairSpec
CONSTANTS
  Gateways = {"g1"}
  Tabs = {"t1"}
  MaxCommands = 2
  Events <- QueueEvents
  Budget = 1
  NoCmd = NoCmd
  NoResult = NoResult
  NoBody = NoBody
INVARIANT QueueInv
PROPERTIES ImplementsQueue DispatchedCompletes
