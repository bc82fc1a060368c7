-------------------------- MODULE MCDuplicateReview --------------------------
(* Instances of DuplicateReview for TLC. *)
EXTENDS DuplicateReview, TLC

WindowSymmetry == Permutations(Windows)
=============================================================================
