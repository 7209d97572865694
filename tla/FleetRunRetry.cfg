SPECIFICATION FairSpec
CONSTANTS
  Gateways = {"g1"}
  Tabs = {"t1"}
  MaxCommands = 1
  Events <- LaunchEvents
  Budget = 1
  NoCmd = NoCmd
  NoResult = NoResult
  NoBody = NoBody
PROPERTY LaunchRetried
