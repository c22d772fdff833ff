SPECIFICATION FairSpec
CONSTANTS
  Calls = {c1, c2, c3}
  Held = Held
INVARIANTS
  LiveCallsShare
  OneExtraConnection
  CleanEndCloses
PROPERTIES
  StopReleases
  OwnIsReleased
CHECK_DEADLOCK FALSE
