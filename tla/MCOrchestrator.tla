---------------------------- MODULE MCOrchestrator ----------------------------
(* Instances of Orchestrator for TLC.                                      *)
EXTENDS Orchestrator, TLC

Symmetry == Permutations(Tasks)
===============================================================================
