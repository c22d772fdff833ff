SPECIFICATION Spec
CONSTANTS
  Calls = {c1}
  Views = {v1, v2}
  Streams = {e1, e2}
  Loads = {l1, l2}
  NoCall = NoCall
  NoView = NoView
  NoStream = NoStream
  Budget = 2
SYMMETRY Symmetry
INVARIANTS
  TypeOK
  OneCardPerCall
  ExecutedIsStored
  
  AcceptingIsOffered
CHECK_DEADLOCK FALSE
