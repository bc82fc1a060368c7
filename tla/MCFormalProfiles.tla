--------------------------- MODULE MCFormalProfiles ---------------------------
(* An instance of FormalProfiles for TLC. *)
EXTENDS FormalProfiles, TLC

CONSTANTS f1, f2, a, b

\* The facts f2 give a higher level than f1; the market draft a states the lower
\* one, whose window lets only the strategy b through.
MCFactsLevel == f1 :> "insufficient" @@ f2 :> "directional"
MCPayloadLevel == a :> "insufficient" @@ b :> "directional"
MCPermitted == [insufficient |-> {b}, directional |-> {a, b}]

Limit(jobMatch, baseline, market, strategy, removals) ==
  [jobMatch |-> jobMatch, baseline |-> baseline, market |-> market, strategy |-> strategy,
   deletes |-> removals]
MCLimits ==
  {Limit(3, 0, 0, 0, 0), Limit(2, 0, 0, 0, 1), Limit(2, 0, 1, 0, 0),
   Limit(0, 4, 1, 0, 0), Limit(0, 0, 5, 0, 0), Limit(0, 0, 2, 3, 0)}

MCSymmetry == Permutations(Keys)
=============================================================================
