SPECIFICATION ScreenSpec
CONSTANTS
  Patterns = {x, y}
  SeededPattern = x
  Ids = {i1, i2, i3}
  Loaders = {l1, l2}
  Writers = {w1, w2}
  Unloaded = Unloaded
  Defaults <- MCDefaults
SYMMETRY Symmetry
INVARIANTS
  StaleOnlyByOverlap
  DuplicateOnlyByOverlap
  PassedIsUnbanned
  AutoIsListed
CHECK_DEADLOCK FALSE
