-------------------------- MODULE MCScreenedCommands --------------------------
(* Small instances of ScreenedCommands for TLC: one default rule, on the blacklist. *)
EXTENDS ScreenedCommands, TLC

CONSTANT SeededPattern

MCDefaults == {[type |-> "blacklist", pattern |-> SeededPattern]}

Symmetry == Permutations(Ids) \cup Permutations(Loaders) \cup Permutations(Writers)
===============================================================================
