SPECIFICATION Spec
CONSTANTS
  Agents = {"a"}
  write = write
  ws = ws
  Tools <- MCTools
  Shape <- MCShape
  Callers = {c1}
  Desks = {d1, d2}
  MaxCalls = 1
  Events = {}
  Budget = 0
INVARIANT DeniedNeverRuns
CHECK_DEADLOCK FALSE
