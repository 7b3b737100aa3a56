---------------------------- MODULE MCAutomation ----------------------------
(* Instances of AutomationRuns for TLC.  Workers are interchangeable in the *)
(* runs that check no liveness.                                             *)
EXTENDS AutomationInvariant, TLC

WorkerSymmetry == Permutations(Workers)
=============================================================================
