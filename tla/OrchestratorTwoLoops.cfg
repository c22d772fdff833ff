SPECIFICATION Spec
CONSTANTS
  First = First
  Messages = {m1, m2}
  Aborts = {a1}
  NoStart = NoStart
  MaxCrashes = 0
INVARIANTS
  OneLoop
CHECK_DEADLOCK FALSE
