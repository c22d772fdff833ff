SPECIFICATION Spec
CONSTANTS
  Tickets = {t1, t2}
  Moves = {m1, m2}
  NoTicket = NoTicket
SYMMETRY Symmetry
INVARIANTS
  TypeOK
  BoardMatchesErp
  NoCardLost
