----------------------------- MODULE MCKanbanBoard -----------------------------
(* Small instances of KanbanBoard for TLC. *)
EXTENDS KanbanBoard, TLC

\* Kept (ArrayFilter) against the filter of the standard modules, on all short sequences.
ASSUME KeptIsSelectSeq ==
  \A n \in 0..4 : \A s \in [1..n -> 1..4], S \in SUBSET (1..4) :
    Kept(s, S) = SelectSeq(s, LAMBDA t : t \in S)

Symmetry == Permutations(Tickets) \cup Permutations(Moves)
===============================================================================
