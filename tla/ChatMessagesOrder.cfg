SPECIFICATION Spec
CONSTANTS
  Loops = {l1, l2, l3}
  Tools = {t1, t2}
  Self = Self
  MaxMessages = 4
SYMMETRY Symmetry
INVARIANTS
  HistoryInOrder
  NoGaps
CHECK_DEADLOCK FALSE
