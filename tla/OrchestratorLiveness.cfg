SPECIFICATION FairSpec
CONSTANTS
  First = First
  Messages = {m1}
  Aborts = {a1, a2}
  NoStart = NoStart
  MaxCrashes = 0
PROPERTIES
  HandoverCompletes
  CancelEnds
  AcceptedIsHeard
CHECK_DEADLOCK FALSE
