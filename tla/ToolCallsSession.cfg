SPECIFICATION FairSpec
CONSTANTS
  Calls = {c1, c2}
  Patches = {p1}
  NoCall = NoCall
INVARIANTS
  OnlyAllowedRun
  OneAtATime
  AuditIsTrue
  GateReleases
  StatusMatchesGate
PROPERTIES
  Implements
  SessionEnds
  CallsEnd
CHECK_DEADLOCK FALSE
