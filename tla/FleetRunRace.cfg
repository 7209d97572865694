SPECIFICATION Spec
CONSTANTS
  Gateways = {g1, g2}
  Tabs = {"t1"}
  MaxCommands = 1
  Events <- RaceEvents
  Budget = 1
  NoCmd = NoCmd
  NoResult = NoResult
  NoBody = NoBody
SYMMETRY Symmetry
INVARIANTS OnlyDispatchedRuns CompleteIsSettled
