----------------------------- MODULE MCPromotion -----------------------------
(* Instances of Promotion for TLC. *)
EXTENDS Promotion, TLC

MCSymmetry == Permutations(Jobs) \cup Permutations(Keys)
=============================================================================
