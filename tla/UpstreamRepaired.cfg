SPECIFICATION Spec
CONSTANTS
  Calls = {c1, c2}
  Writes = {c1}
  Tokens = {t1, t2, t3, t4}
  NoToken = NoToken
  Budget = 1
INVARIANT RepairedIsOk
CHECK_DEADLOCK FALSE
