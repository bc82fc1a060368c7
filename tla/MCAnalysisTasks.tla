-------------------------- MODULE MCAnalysisTasks --------------------------
(* Instances of AnalysisTasks for TLC. *)
EXTENDS AnalysisTasks, TLC

\* The call slots are interchangeable.
CallSymmetry == Permutations(Calls)
=============================================================================
