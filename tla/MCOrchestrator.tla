---------------------------- MODULE MCOrchestrator ----------------------------
(* Small instances of Orchestrator for TLC. *)
EXTENDS Orchestrator, TLC

Symmetry == Permutations(Messages) \cup Permutations(Aborts)
===============================================================================
