-------------------------- MODULE MCTicketDetailView --------------------------
(* Small instances of TicketDetailView for TLC. *)
EXTENDS TicketDetailView, TLC

Symmetry == Permutations(Calls) \cup Permutations(Views) \cup Permutations(Streams)
              \cup Permutations(Loads)
===============================================================================
