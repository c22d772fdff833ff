SPECIFICATION FairSpec
CONSTANTS
  Streams = {e1, e2}
  NoStream = NoStream
  MaxText = 2
  MaxCalls = 1
  MaxSends = 1
  MaxLag = 1
  Budget = 1
INVARIANTS
  TypeOK
  TextIsKept
  TranscriptInOrder
  UserTextKept
PROPERTIES
  TextAppears
CHECK_DEADLOCK FALSE
