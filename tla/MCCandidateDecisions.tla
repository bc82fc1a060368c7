------------------------- MODULE MCCandidateDecisions -------------------------
(* Instances of CandidateDecisions for TLC. *)
EXTENDS CandidateDecisions, TLC

MCSecondHit == {<<1, 2>>}
\* The first candidate changes, the second stays what it is.
MCFirstChanges == [c \in Candidates |-> IF c = 1 THEN 2 ELSE 1]

Limit(actions, analyses, stored, pairs) ==
  [actions |-> actions, records |-> analyses, batches |-> stored, met |-> pairs]
\* A long log, nothing but the decisions standing still, or everything and one of the
\* others less.
MCAll == {Limit(5, 0, 0, 3), Limit(1, 2, 1, 2), Limit(1, 2, 0, 6), Limit(1, 1, 1, 6), Limit(0, 2, 1, 6)}
ContextSymmetry == Permutations(Contexts)
=============================================================================
