SPECIFICATION Spec
CONSTANTS
  First = First
  Messages = {m1, m2}
  Aborts = {a1}
  NoStart = NoStart
  MaxCrashes = 1
SYMMETRY Symmetry
INVARIANTS
  ReplacedLoopIsOver
  LoopsAreAwaited
  HandoverIsPrivate
  IdleIsReported
PROPERTIES
  Delivers
CHECK_DEADLOCK FALSE
