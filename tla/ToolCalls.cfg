SPECIFICATION FairSpec
CONSTANTS
  Agents = {"a"}
  write = write
  ws = ws
  Tools <- MCTools
  Shape <- MCShape
  Callers = {c1}
  Desks = {d1, d2}
  MaxCalls = 1
  Events <- AllEvents
  Budget = 2
INVARIANTS TypeOK AllowedAtSomeTime UngatedAtSomeTime GroupedWhenStrict DisabledNeverRuns OnlyOverlapRepeats EveryRunLogged

CHECK_DEADLOCK FALSE
PROPERTY DecisionReached
