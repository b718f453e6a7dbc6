------------------------ MODULE MCCandidateIntegration ------------------------
(* Instances of CandidateIntegration for TLC.                              *)
EXTENDS CandidateIntegration, TLC

Symmetry == Permutations(Tasks) \cup Permutations(Controllers) \cup Permutations(Intents)
===============================================================================
