SPECIFICATION FairSpec
CONSTANTS
  Calls = {c1}
  Patches = {p1}
  NoCall = NoCall
PROPERTIES
  AnswerUnblocks
CHECK_DEADLOCK FALSE
