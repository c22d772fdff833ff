------------------------------ MODULE KanbanBoard ------------------------------
(***************************************************************************)
(* The board of tickets (pages/kanban-board) and the ERP whose ticket      *)
(* status it shows and sets.  A card that is dropped in another column is  *)
(* there at once; the PATCH that stores the move is answered later, and an *)
(* error puts the card back where that move took it from.  The agent sets  *)
(* the status too, and the board is not told.                              *)
(***************************************************************************)
EXTENDS Naturals, Sequences, FiniteSets, ArrayFilter

CONSTANTS
  Tickets,
  Moves,    \* PATCH .../status requests; one that was answered may stand for another
  NoTicket

ASSUME NoTicketIsNone == NoTicket \notin Tickets
ASSUME TicketsAreFinite == IsFiniteSet(Tickets)

\* filteredColumns groups the tickets by status; what a filter hides keeps its place.
Columns == {"OPEN", "PENDING", "DONE"}

VARIABLES
  erp,        \* the status of each ticket in the ERP
  shown,      \* the tickets were loaded; a board without them shows no cards
  order,      \* allTickets: the order of the tickets
  column,     \* ... and their status
  drag,       \* the card being dragged and the column it was taken from
  move,       \* the requests
  contested   \* history: the tickets that were set by someone else, by two
              \* overlapping moves, or by a move whose answer was lost

vars == <<erp, shown, order, column, drag, move, contested>>

NoDrag == [ticket |-> NoTicket, from |-> "OPEN"]
\* A board without tickets has no columns for them; any value will do.
Unknown == [t \in Tickets |-> "OPEN"]
NoMove == [at |-> "none", ticket |-> NoTicket, from |-> "OPEN", to |-> "OPEN", ours |-> FALSE]

\* The tickets in some order.
Orders == {s \in [1..Cardinality(Tickets) -> Tickets] :
             \A i, j \in 1..Cardinality(Tickets) : s[i] = s[j] => i = j}

TypeOK ==
  /\ erp \in [Tickets -> Columns]
  /\ shown \in BOOLEAN
  /\ order \in Seq(Tickets)
  /\ column \in [Tickets -> Columns]
  /\ drag \in [ticket : Tickets, from : Columns] \cup {NoDrag}
  /\ move \in [Moves -> [at : {"sent", "stored", "failed"}, ticket : Tickets,
                         from : Columns, to : Columns, ours : BOOLEAN] \cup {NoMove}]
  /\ contested \subseteq Tickets

Pending(t) == {m \in Moves : move[m].at # "none" /\ move[m].ticket = t}

Init ==
  /\ erp \in [Tickets -> Columns]
  /\ shown = FALSE
  /\ order = <<>>
  /\ column = Unknown
  /\ drag = NoDrag
  /\ move = [m \in Moves |-> NoMove]
  /\ contested = {}

-------------------------------------------------------------------------------
(* The board *)

\* loadTickets.  A request of an earlier board may still be under way.  (What
\* happens in the ERP before the answer arrives might as well happen after it.)
Load ==
  /\ ~shown
  /\ shown' = TRUE
  /\ order' \in Orders
  /\ column' = erp
  /\ contested' = {t \in Tickets : Pending(t) # {}}
  /\ UNCHANGED <<erp, drag, move>>

\* The board is left and entered again; it no longer hears of its moves.
Reenter ==
  /\ shown
  /\ shown' = FALSE
  /\ order' = <<>>
  /\ column' = Unknown
  /\ drag' = NoDrag
  /\ move' = [m \in Moves |-> [move[m] EXCEPT !.ours = FALSE]]
  /\ contested' = {}
  /\ UNCHANGED erp

Pick(t) ==
  /\ shown
  /\ drag = NoDrag
  /\ drag' = [ticket |-> t, from |-> column[t]]
  /\ UNCHANGED <<erp, shown, order, column, move, contested>>

In(s, c) == Kept(s, {t \in Tickets : column[t] = c})
NotIn(s, c) == Kept(s, {t \in Tickets : column[t] # c})
Without(s, t) == Kept(s, Tickets \ {t})
InsertedAt(s, i, t) == SubSeq(s, 1, i) \o <<t>> \o SubSeq(s, i + 1, Len(s))

\* Mutant: the card is inserted although it was not found and taken out.
ReorderedBlindly(s, c, t, i) == InsertedAt(Without(In(s, c), t), i, t) \o NotIn(s, c)

\* Mutant: a card that was not found is undefined, and inserted all the same.
ReorderedUndefined(s, c, t, i) ==
  InsertedAt(Without(In(s, c), t), i, IF column[t] = c THEN t ELSE NoTicket) \o NotIn(s, c)

\* The column's tickets come first, with t at index i if it is still among them.
Reordered(s, c, t, i) ==
  (IF column[t] = c THEN InsertedAt(Without(In(s, c), t), i, t) ELSE In(s, c)) \o NotIn(s, c)

\* drop, in the column the card came from.  The index counts the cards a filter
\* leaves visible, so it may be any (splice cuts it to the column's length).
DropHere ==
  /\ drag # NoDrag
  /\ \E i \in 0..Len(Without(In(order, drag.from), drag.ticket)) :
       order' = Reordered(order, drag.from, drag.ticket, i)
  /\ drag' = NoDrag
  /\ UNCHANGED <<erp, shown, column, move, contested>>

\* drop, in another column.
DropThere(m, c) ==
  /\ drag # NoDrag
  /\ c \in Columns \ {drag.from}
  /\ move[m].at = "none"
  /\ column' = [column EXCEPT ![drag.ticket] = c]
  /\ move' = [move EXCEPT ![m] =
       [at |-> "sent", ticket |-> drag.ticket, from |-> drag.from, to |-> c, ours |-> TRUE]]
  /\ contested' = IF Pending(drag.ticket) = {} /\ column[drag.ticket] = drag.from
                  THEN contested ELSE contested \cup {drag.ticket}
  /\ drag' = NoDrag
  /\ UNCHANGED <<erp, shown, order>>

-------------------------------------------------------------------------------
(* The requests *)

\* The ERP stores the status, or the backend answers with its error.
Store(m) ==
  /\ move[m].at = "sent"
  /\ \/ /\ erp' = [erp EXCEPT ![move[m].ticket] = move[m].to]
        /\ move' = [move EXCEPT ![m].at = "stored"]
     \/ /\ move' = [move EXCEPT ![m].at = "failed"]
        /\ UNCHANGED erp
  /\ UNCHANGED <<shown, order, column, drag, contested>>

\* The answer to a stored status is lost: the board sees an error.
AnswerLost(m) ==
  /\ move[m].at = "stored"
  /\ move' = [move EXCEPT ![m].at = "failed"]
  /\ contested' = contested \cup {move[m].ticket}
  /\ UNCHANGED <<erp, shown, order, column, drag>>

\* Mutant: an error leaves the card where it was dropped.
AnsweredWithoutRevert(m) ==
  /\ move[m].at \in {"stored", "failed"}
  /\ move' = [move EXCEPT ![m] = NoMove]
  /\ UNCHANGED <<erp, shown, order, column, drag, contested>>

\* An error reverts to the column the move began in.
Answered(m) ==
  /\ move[m].at \in {"stored", "failed"}
  /\ column' = IF move[m].at = "failed" /\ move[m].ours
               THEN [column EXCEPT ![move[m].ticket] = move[m].from] ELSE column
  /\ move' = [move EXCEPT ![m] = NoMove]
  /\ UNCHANGED <<erp, shown, order, drag, contested>>

\* start_chat sets the ticket PENDING, the end of a turn DONE.
AgentSets(t) ==
  /\ \E s \in {"PENDING", "DONE"} : erp' = [erp EXCEPT ![t] = s]
  /\ contested' = contested \cup {t}
  /\ UNCHANGED <<shown, order, column, drag, move>>

Next ==
  \/ Load \/ Reenter \/ DropHere
  \/ \E t \in Tickets : Pick(t) \/ AgentSets(t)
  \/ \E m \in Moves : Store(m) \/ AnswerLost(m) \/ Answered(m)
                      \/ \E c \in Columns : DropThere(m, c)

Spec == Init /\ [][Next]_vars
-------------------------------------------------------------------------------
(* Properties *)

\* A ticket without a request under way is shown in the column of its status in
\* the ERP, unless it was contested: optimistic moves and their reverts leave
\* nothing behind.
BoardMatchesErp ==
  shown => \A t \in Tickets :
    t \notin contested /\ Pending(t) = {} => column[t] = erp[t]

\* Drops, reverts that happen during a drag, and filtered columns neither lose
\* nor duplicate a card.
NoCardLost == shown => order \in Orders
===============================================================================
