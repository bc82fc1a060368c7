-------------------------- MODULE MCCandidateIntake --------------------------
(* Small instances of CandidateIntake.                                      *)
EXTENDS CandidateIntake, TLC

CONSTANTS p, q,          \* providers
          e1, e2,        \* record ids
          u1, u2, w,     \* URLs; w belongs to q
          f, g,          \* material fields
          x, y           \* their values

MCSiteOf == [url \in {u1, u2, w} |-> IF url = w THEN q ELSE p]

Pair(a, b) == [n \in {f, g} |-> IF n = f THEN a ELSE b]
Clear(a, b) == [facts |-> Pair(a, b), ambiguous |-> FALSE]
Vague(a, b) == [facts |-> Pair(a, b), ambiguous |-> TRUE]
Cap(provider, ext, url, reading) ==
  [provider |-> provider, ext |-> ext, url |-> url, reading |-> reading]

\* One job page under its record id: as it was, with a fact lost, changed with a fact
\* lost, and unclear; changed, under its URL alone.  Then other identities:
\* a second id on its URL, its id on a second URL, a URL of another site, and a page with
\* no provider.
MCCaptures ==
  {Cap(p, e1, u1, Clear(x, x)), Cap(p, e1, u1, Clear(x, None)),
   Cap(p, e1, u1, Clear(y, None)), Cap(p, e1, u1, Vague(y, None)),
   Cap(p, None, u1, Clear(y, x)),
   Cap(p, e2, u1, Clear(x, x)), Cap(p, e1, u2, Clear(y, x)), Cap(p, None, w, Clear(x, x)),
   Cap(None, e1, u1, Clear(x, x))}

Ask(confirmed, corrections) == [confirmed |-> confirmed, corrections |-> corrections]
\* One item, both in the other order, one of them twice with a correction.
MCRequests == {Ask(<<1>>, <<>>), Ask(<<2, 1>>, <<>>), Ask(<<1, 1>>, <<Clear(y, y)>>)}

SessionSymmetry == Permutations(Sessions)
=============================================================================
