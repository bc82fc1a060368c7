---------------------------- MODULE RadarActionProofs ----------------------------
(***************************************************************************)
(* The two components that keep radar_actions, for any candidates,         *)
(* profile contexts, verdicts and review windows and a log of any length.  *)
(* CandidateDecisions: the log says what was asked last, a stored batch is *)
(* what a new one would be, and a scope is accounted for.  DuplicateReview:*)
(* no ruling replaces a status its author had not seen, a relation changes *)
(* only by a ruling that names the status it leaves, and the rulings on it *)
(* lead from the suspicion to its status.                                  *)
(***************************************************************************)
EXTENDS CandidateDecisions, DuplicateReview, FiniteSetTheorems, TLAPS

-----------------------------------------------------------------------------
(* The inductive invariant of the log.                                      *)

\* Nothing but the user's families and overrides is logged.
FamiliesLogged == \A i \in DOMAIN log : log[i].family \in Families \cup {"override"}

\* The clock does not run backwards; two neighbours may share a millisecond, and then
\* their ids tell them apart.
Later(l, i, j) ==
  \/ l[i].at < l[j].at
  \/ /\ SameInstant /\ l[i].at = l[j].at
     /\ j = i + 1 /\ l[i].rank = 1 /\ l[j].rank \in {0, 2}

InOrder == \A i, j \in DOMAIN log : i < j => Later(log, i, j)

OneInForce ==
  \A c \in Candidates, f \in Families : \A i, j \in ActiveSets(log, c, f) : i = j

WishInForce ==
  \A c \in Candidates, f \in Families : InForce(log, c, f) <=> wish[c][f] = TRUE

IgnoredWereDismissed ==
  \A c \in Candidates : \A i \in ActiveSets(log, c, "ignore") : log[i].version \in dismissed

\* The last of the overrides of a version: in force, nothing was withdrawn since; or
\* withdrawn.
LastOverrideRules(a, i) ==
  IF log[i].by = 0
  THEN /\ ruling[a] = log[i].value
       /\ \A k \in DOMAIN log : k > i /\ log[k].kind = "revert" =>
            log[k].target \notin OverrideSets(log, a)
  ELSE ruling[a] = "none"

LastOf(S, i) == i \in S /\ \A j \in S : j <= i

RulingFollows(a) ==
  /\ OverrideSets(log, a) = {} => ruling[a] = "none"
  /\ \A i \in DOMAIN log : LastOf(OverrideSets(log, a), i) => LastOverrideRules(a, i)

RulingLogged == SameInstant \/ \A a \in Version : RulingFollows(a)

DecisionInv ==
  /\ TypeOK /\ FamiliesLogged /\ InOrder
  /\ OneInForce /\ WishInForce /\ IgnoredWereDismissed /\ RulingLogged

-----------------------------------------------------------------------------
(* What a set of recommendations is made of.                                *)

\* The reason an identity calls for, and the set of recommendations of a scope whose
\* versions have these identities.
ReasonOf(id) ==
  IF id.analysis = 0 THEN IF id.stale THEN "stale_analysis" ELSE "no_current_analysis"
  ELSE IF records[id.analysis].verdict = "skip" THEN "skip_recommended"
  ELSE IF id.hit THEN "hard_constraint_hit"
  ELSE IF id.ignored THEN "ignored_unchanged"
  ELSE IF id.applied THEN "applied_pending"
  ELSE ""

VerdictBy(ids, v) == records[ids[v].analysis].verdict

BetterBy(ids, v, w) ==
  \/ KindRank[VerdictBy(ids, v)] < KindRank[VerdictBy(ids, w)]
  \/ /\ KindRank[VerdictBy(ids, v)] = KindRank[VerdictBy(ids, w)]
     /\ v[1] < w[1] \/ (v[1] = w[1] /\ v[2] < w[2])

EligibleBy(ids) == {v \in DOMAIN ids : ReasonOf(ids[v]) = ""}
KeptBy(ids) ==
  {v \in EligibleBy(ids) : \A w \in EligibleBy(ids) : ~(w[1] = v[1] /\ BetterBy(ids, w, v))}
PlaceBy(ids, v) == 1 + Cardinality({w \in KeptBy(ids) : BetterBy(ids, w, v)})
OverflowBy(ids) == {v \in KeptBy(ids) : PlaceBy(ids, v) > MaxRecommendations}

SetBy(ids) ==
  [recommendations |->
     {[version |-> v, kind |-> VerdictBy(ids, v), analysis |-> ids[v].analysis,
       priority |-> PlaceBy(ids, v)] : v \in KeptBy(ids) \ OverflowBy(ids)},
   blocked |->
     {[version |-> v, reason |-> ReasonOf(ids[v])] : v \in DOMAIN ids \ EligibleBy(ids)} \cup
     {[version |-> v, reason |-> "duplicate_candidate"] : v \in EligibleBy(ids) \ KeptBy(ids)} \cup
     {[version |-> v, reason |-> "capacity_exceeded"] : v \in OverflowBy(ids)},
   emptyReason |->
     IF KeptBy(ids) \ OverflowBy(ids) # {} THEN ""
     ELSE IF \E v \in DOMAIN ids : ids[v].analysis # 0 THEN "all_candidates_excluded"
     ELSE "no_current_successful_analysis"]

IdentitiesOf(scope) == [v \in scope |-> AnalysisIdentity(v)]

\* A stored batch is what its key calls for, and its key names analyses that were written.
BatchFollowsKey(b) ==
  /\ b.set = SetBy(b.key.identity)
  /\ \A v \in DOMAIN b.key.identity : b.key.identity[v].analysis \in 0..Len(records)

BatchesFollowKeys == \A b \in batches : BatchFollowsKey(b)

SetIsByIdentity ==
  \A scope \in Scopes : RecommendationSet(scope) = SetBy(IdentitiesOf(scope))

-----------------------------------------------------------------------------
(* The log.                                                                 *)

LEMMA EntryFields ==
  ASSUME NEW V, NEW e \in Entry(V)
  PROVE  /\ e.kind \in {"set", "revert"} /\ e.family \in ActionFamilies \cup {"override"}
         /\ e.version \in V /\ e.value \in {"", "pass", "block"}
         /\ e.target \in Nat /\ e.by \in Nat /\ e.at \in Nat /\ e.rank \in 0..2
BY DEF Entry

LEMMA VersionParts ==
  ASSUME NEW v \in Version
  PROVE  v[1] \in Candidates /\ v[2] \in Nat /\ v = <<v[1], v[2]>>
BY DecisionsAssumption DEF Version

\* The clock of the log does not run backwards, and without two entries in one
\* millisecond it runs on.
LEMMA StampType ==
  ASSUME TypeOK, NEW stamp \in Stamps(log)
  PROVE  /\ stamp.at \in Nat /\ stamp.rank \in 0..2 /\ Instant(log) \in Nat
         /\ \/ stamp.at = Instant(log) + 1
            \/ /\ SameInstant /\ stamp.at = Instant(log) /\ stamp.rank \in {0, 2}
               /\ log # << >> /\ log[Len(log)].rank = 1
<1>1. Instant(log) \in Nat
  <2>1. CASE log = << >>
    BY <2>1 DEF Instant
  <2>2. CASE log # << >>
    <3>1. log[Len(log)] \in Entry(Version)
      BY <2>2 DEF TypeOK
    <3> QED BY <2>2, <3>1, EntryFields DEF Instant
  <2> QED BY <2>1, <2>2
<1>2. CASE stamp = [at |-> Instant(log) + 1, rank |-> 1]
  BY <1>1, <1>2
<1>3. CASE \E r \in {0, 2} : /\ stamp = [at |-> Instant(log), rank |-> r]
                              /\ SameInstant /\ log # << >> /\ log[Len(log)].rank = 1
  BY <1>1, <1>3
<1> QED BY <1>2, <1>3 DEF Stamps

\* The entry a handler inserts, and the log with it.
Insertion(kind, family, version, value, target, stamp) ==
  [kind |-> kind, family |-> family, version |-> version, value |-> value,
   target |-> target, by |-> 0, at |-> stamp.at, rank |-> stamp.rank]

LEMMA InsertionType ==
  ASSUME TypeOK, NEW stamp \in Stamps(log),
         NEW kind \in {"set", "revert"}, NEW family \in ActionFamilies \cup {"override"},
         NEW version \in Version, NEW value \in {"", "pass", "block"}, NEW target \in Nat
  PROVE  Insertion(kind, family, version, value, target, stamp) \in Entry(Version)
BY StampType DEF Insertion, Entry

\* What a step does to the log: nothing, or one entry is added and at most one entry that
\* names no revert yet is told this one withdrew it.
WithdrawnBy(e, n) == [e EXCEPT !.by = n]

AddsTo(old, new, e, i) ==
  /\ new \in Seq(Entry(Version))
  /\ Len(new) = Len(old) + 1 /\ DOMAIN new = 1..(Len(old) + 1)
  /\ new[Len(old) + 1] = e
  /\ \A k \in DOMAIN old :
       new[k] = IF k = i /\ old[k].by = 0 THEN WithdrawnBy(old[k], Len(old) + 1) ELSE old[k]

LEMMA WithdrawnType ==
  ASSUME NEW e \in Entry(Version), NEW n \in Nat
  PROVE  LET w == WithdrawnBy(e, n)
         IN  /\ w \in Entry(Version) /\ w.by = n
             /\ w.kind = e.kind /\ w.family = e.family /\ w.version = e.version
                 /\ w.value = e.value /\ w.target = e.target /\ w.at = e.at /\ w.rank = e.rank
BY DEF WithdrawnBy, Entry

LEMMA AppendToLog ==
  ASSUME NEW S, NEW old \in Seq(S), NEW e \in S
  PROVE  /\ Append(old, e) \in Seq(S) /\ Len(Append(old, e)) = Len(old) + 1
         /\ DOMAIN Append(old, e) = 1..(Len(old) + 1) /\ Append(old, e)[Len(old) + 1] = e
         /\ \A k \in DOMAIN old : Append(old, e)[k] = old[k]
         /\ 0 \notin DOMAIN old
OBVIOUS

LEMMA InsertAdds ==
  ASSUME TypeOK, NEW stamp \in Stamps(log),
         NEW family \in ActionFamilies \cup {"override"},
         NEW version \in Version, NEW value \in {"", "pass", "block"}
  PROVE  AddsTo(log, Insert(log, "set", family, version, value, 0, stamp),
                Insertion("set", family, version, value, 0, stamp), 0)
<1> DEFINE e == Insertion("set", family, version, value, 0, stamp)
<1>1. e \in Entry(Version)
  BY InsertionType
<1>2. Insert(log, "set", family, version, value, 0, stamp) = Append(log, e)
  BY DEF Insert, Insertion
<1>3. log \in Seq(Entry(Version))
  BY DEF TypeOK
<1> HIDE DEF e
<1>4. /\ Append(log, e) \in Seq(Entry(Version)) /\ Len(Append(log, e)) = Len(log) + 1
      /\ DOMAIN Append(log, e) = 1..(Len(log) + 1) /\ Append(log, e)[Len(log) + 1] = e
      /\ \A k \in DOMAIN log : Append(log, e)[k] = log[k]
      /\ 0 \notin DOMAIN log
  BY <1>1, <1>3, AppendToLog
<1> QED BY <1>2, <1>4 DEF AddsTo, e

LEMMA WithdrawAdds ==
  ASSUME TypeOK, NEW stamp \in Stamps(log), NEW i \in DOMAIN log
  PROVE  AddsTo(log, Withdraw(log, i, stamp),
                Insertion("revert", log[i].family, log[i].version, "", i, stamp), i)
<1> DEFINE e    == Insertion("revert", log[i].family, log[i].version, "", i, stamp)
           more == Append(log, e)
<1>1. log \in Seq(Entry(Version)) /\ i \in Nat /\ log[i] \in Entry(Version)
  BY DEF TypeOK
<1>2. e \in Entry(Version)
  BY <1>1, EntryFields, InsertionType
<1>3. Withdraw(log, i, stamp) = MarkReverted(more, i, Len(log) + 1)
  BY DEF Withdraw, Insert, Insertion
<1> HIDE DEF e
<1>4. /\ more \in Seq(Entry(Version)) /\ Len(more) = Len(log) + 1
      /\ more[Len(log) + 1] = e /\ \A k \in DOMAIN log : more[k] = log[k]
      /\ DOMAIN more = 1..(Len(log) + 1) /\ i # Len(log) + 1
  BY <1>1, <1>2
<1> HIDE DEF more
<1>5. CASE log[i].by # 0
  <2>1. Withdraw(log, i, stamp) = more
    BY <1>3, <1>4, <1>5 DEF MarkReverted
  <2> QED BY <1>4, <1>5, <2>1 DEF AddsTo, e
<1>6. CASE log[i].by = 0
  <2> DEFINE w == WithdrawnBy(log[i], Len(log) + 1)
  <2>1. more[i] = log[i]
    BY <1>4
  <2>2. w \in Entry(Version)
    BY <1>1, WithdrawnType
  <2>3. Withdraw(log, i, stamp) = [more EXCEPT ![i] = w]
    BY <1>3, <1>6, <2>1 DEF MarkReverted, WithdrawnBy
  <2> HIDE DEF w
  <2>4. /\ [more EXCEPT ![i] = w] \in Seq(Entry(Version))
        /\ Len([more EXCEPT ![i] = w]) = Len(log) + 1
        /\ DOMAIN [more EXCEPT ![i] = w] = 1..(Len(log) + 1)
        /\ \A k \in 1..(Len(log) + 1) : [more EXCEPT ![i] = w][k] = IF k = i THEN w ELSE more[k]
    BY <1>1, <1>4, <2>2
  <2>5. \A k \in DOMAIN log : k \in 1..(Len(log) + 1)
    BY <1>1
  <2>6. Len(log) + 1 \in 1..(Len(log) + 1)
    BY <1>1
  <2>7. \A k \in DOMAIN log :
          [more EXCEPT ![i] = w][k] = IF k = i /\ log[k].by = 0 THEN w ELSE log[k]
    BY <1>4, <1>6, <2>4, <2>5
  <2>8. [more EXCEPT ![i] = w][Len(log) + 1] = e
    BY <1>4, <2>4, <2>6
  <2>9. \A k \in DOMAIN log :
          (IF k = i /\ log[k].by = 0 THEN w ELSE log[k]) =
          IF k = i /\ log[k].by = 0 THEN WithdrawnBy(log[k], Len(log) + 1) ELSE log[k]
    BY DEF w
  <2> QED BY <2>3, <2>4, <2>7, <2>8, <2>9 DEF AddsTo, e
<1> QED BY <1>5, <1>6

\* What the entries of a log that grew are.
LEMMA AddedEntries ==
  ASSUME NEW old \in Seq(Entry(Version)), NEW new, NEW e \in Entry(Version), NEW i,
         AddsTo(old, new, e, i)
  PROVE  LET n == Len(old) + 1 IN
         /\ n \in Nat /\ n \in DOMAIN new /\ n \notin DOMAIN old /\ new[n] = e
         /\ \A k \in DOMAIN old : k \in Nat /\ 0 < k /\ k < n
         /\ \A k \in DOMAIN new : k = n \/ k \in DOMAIN old
         /\ \A k \in DOMAIN old :
              /\ k \in DOMAIN new
              /\ new[k].kind = old[k].kind /\ new[k].family = old[k].family
              /\ new[k].version = old[k].version /\ new[k].value = old[k].value
              /\ new[k].target = old[k].target /\ new[k].at = old[k].at /\ new[k].rank = old[k].rank
              /\ new[k].by = IF k = i /\ old[k].by = 0 THEN n ELSE old[k].by
         /\ \A k \in DOMAIN old : k # i \/ old[k].by # 0 => new[k] = old[k]
<1> DEFINE n == Len(old) + 1
<1>1. /\ n \in Nat /\ n \notin DOMAIN old
      /\ \A k \in DOMAIN old : k \in Nat /\ 0 < k /\ k < n /\ k \in 1..n /\ old[k] \in Entry(Version)
      /\ \A k \in 1..n : k = n \/ k \in DOMAIN old
      /\ n \in 1..n
  OBVIOUS
<1>2. /\ DOMAIN new = 1..n /\ new[n] = e
      /\ \A k \in DOMAIN old :
           new[k] = IF k = i /\ old[k].by = 0 THEN WithdrawnBy(old[k], n) ELSE old[k]
  BY DEF AddsTo
<1> HIDE DEF n
<1>3. ASSUME NEW k \in DOMAIN old
      PROVE  /\ new[k].kind = old[k].kind /\ new[k].family = old[k].family
             /\ new[k].version = old[k].version /\ new[k].value = old[k].value
             /\ new[k].target = old[k].target /\ new[k].at = old[k].at /\ new[k].rank = old[k].rank
             /\ new[k].by = IF k = i /\ old[k].by = 0 THEN n ELSE old[k].by
  <2>1. CASE k = i /\ old[k].by = 0
    <3>1. new[k] = WithdrawnBy(old[k], n)
      BY <1>2, <2>1
    <3>2. old[k] \in Entry(Version) /\ n \in Nat
      BY <1>1
    <3> HIDE DEF WithdrawnBy
    <3>3. /\ new[k].kind = old[k].kind /\ new[k].family = old[k].family
          /\ new[k].version = old[k].version /\ new[k].value = old[k].value
          /\ new[k].target = old[k].target /\ new[k].at = old[k].at /\ new[k].rank = old[k].rank
          /\ new[k].by = n
      BY <3>1, <3>2, WithdrawnType
    <3> QED BY <2>1, <3>3
  <2>2. CASE ~(k = i /\ old[k].by = 0)
    BY <1>2, <2>2
  <2> QED BY <2>1, <2>2
<1> QED BY <1>1, <1>2, <1>3 DEF n

ActiveAfterSet(old, new, e) ==
  \A c, f :
    ActiveSets(new, c, f) =
      IF e.family = f /\ e.version[1] = c THEN ActiveSets(old, c, f) \cup {Len(old) + 1}
      ELSE ActiveSets(old, c, f)

\* An insertion is one more set in force, of its family and candidate and no other.
LEMMA SetIsActive ==
  ASSUME NEW old \in Seq(Entry(Version)), NEW new, NEW e \in Entry(Version),
         AddsTo(old, new, e, 0), e.kind = "set", e.by = 0
  PROVE  ActiveAfterSet(old, new, e)
<1>0. \A k \in DOMAIN old : k # 0
  OBVIOUS
<1>1. \A k \in DOMAIN old : new[k] = old[k]
  BY <1>0, AddedEntries
<1> QED BY <1>1, AddedEntries DEF ActiveAfterSet, ActiveSets

\* A revert puts the set it withdraws out of force, and no other.
LEMMA RevertIsInactive ==
  ASSUME NEW old \in Seq(Entry(Version)), NEW new, NEW e \in Entry(Version),
         NEW i \in DOMAIN old, AddsTo(old, new, e, i), e.kind = "revert"
  PROVE  \A c, f : ActiveSets(new, c, f) = ActiveSets(old, c, f) \ {i}
<1>1. Len(old) + 1 # 0
  OBVIOUS
<1> QED BY <1>1, AddedEntries DEF ActiveSets

\* The reverts and the back-fills of the log match after either.
LEMMA RevertsMatchStep ==
  ASSUME TypeOK, NEW e \in Entry(Version), NEW i, AddsTo(log, log', e, i), e.by = 0,
         e.kind = "set" => i = 0,
         e.kind = "revert" =>
           /\ i \in DOMAIN log /\ log[i].kind = "set" /\ e.target = i
           /\ e.family = log[i].family /\ e.version = log[i].version
  PROVE  RevertsMatch'
<1> DEFINE n == Len(log) + 1
<1>0. log \in Seq(Entry(Version)) /\ RevertsMatch
  BY DEF TypeOK
<1>1. /\ n \in Nat /\ n \in DOMAIN log' /\ n \notin DOMAIN log /\ log'[n] = e
      /\ \A k \in DOMAIN log : k \in Nat /\ 0 < k /\ k < n
      /\ \A k \in DOMAIN log' : k = n \/ k \in DOMAIN log
      /\ \A k \in DOMAIN log :
           /\ k \in DOMAIN log'
           /\ log'[k].kind = log[k].kind /\ log'[k].family = log[k].family
           /\ log'[k].version = log[k].version
           /\ log'[k].target = log[k].target
           /\ log'[k].by = IF k = i /\ log[k].by = 0 THEN n ELSE log[k].by
  BY <1>0, AddedEntries
<1> HIDE DEF n
<1>2. e.kind \in {"set", "revert"}
  BY EntryFields
<1>3. 0 \notin DOMAIN log /\ n # 0
  BY <1>0, <1>1 DEF n
<1>4. ASSUME NEW k \in DOMAIN log', log'[k].by # 0
      PROVE  /\ log'[k].by \in DOMAIN log' /\ log'[k].by > k
             /\ log'[k].kind = "set"
             /\ log'[log'[k].by].kind = "revert" /\ log'[log'[k].by].target = k
  <2>1. k \in DOMAIN log
    BY <1>1, <1>4
  <2>2. CASE k = i /\ log[k].by = 0
    BY <1>1, <1>2, <1>3, <2>1, <2>2
  <2>3. CASE ~(k = i /\ log[k].by = 0)
    <3>1. log'[k].by = log[k].by
      BY <1>1, <2>1, <2>3
    <3> QED BY <1>0, <1>1, <1>4, <2>1, <3>1 DEF RevertsMatch
  <2> QED BY <2>2, <2>3
<1>5. ASSUME NEW k \in DOMAIN log', log'[k].kind = "revert"
      PROVE  /\ log'[k].target \in 1..(k - 1)
             /\ log'[log'[k].target].kind = "set"
             /\ log'[log'[k].target].family = log'[k].family
             /\ log'[log'[k].target].version = log'[k].version
             /\ log'[log'[k].target].by # 0
  <2>1. CASE k = n
    <3>1. /\ i \in DOMAIN log /\ log[i].kind = "set" /\ e.target = i
          /\ e.family = log[i].family /\ e.version = log[i].version
      BY <1>1, <1>5, <2>1
    <3>2. i \in 1..(n - 1)
      BY <1>0, <1>1, <3>1
    <3>3. log'[i].by # 0
      BY <1>1, <1>3, <3>1
    <3> QED BY <1>1, <2>1, <3>1, <3>2, <3>3
  <2>2. CASE k \in DOMAIN log
    <3>1. /\ log[k].target \in 1..(k - 1)
          /\ log[log[k].target].kind = "set"
          /\ log[log[k].target].family = log[k].family
          /\ log[log[k].target].version = log[k].version
          /\ log[log[k].target].by # 0
      BY <1>0, <1>1, <1>5, <2>2 DEF RevertsMatch
    <3>2. log[k].target \in DOMAIN log
      BY <1>0, <2>2, <3>1
    <3> QED BY <1>1, <2>2, <3>1, <3>2
  <2> QED BY <1>1, <2>1, <2>2
<1> QED BY <1>4, <1>5 DEF RevertsMatch

\* A set of numbers of entries that is not empty has a last one.
LEMMA LeastNatural ==
  ASSUME NEW S \in SUBSET Nat, S # {}
  PROVE  \E n \in S : \A m \in S : n <= m
<1>1. PICK n \in S : \A m \in S : ~(<<m, n>> \in OpToRel(<, Nat))
  BY NatLessThanWellFounded, WFMin
<1>2. \A m \in S : ~(m < n)
  BY <1>1 DEF OpToRel
<1> QED BY <1>2

LEMMA LastExists ==
  ASSUME NEW bound \in Nat, NEW S \in SUBSET (1..bound), S # {}
  PROVE  /\ \E i \in S : LastOf(S, i)
         /\ Max(S) \in S /\ LastOf(S, Max(S))
<1> DEFINE gaps == {bound - k : k \in S}
<1>0. \A k \in S : k \in Nat /\ bound - k \in Nat
  OBVIOUS
<1>1. gaps \in SUBSET Nat /\ gaps # {}
  BY <1>0
<1>2. PICK g \in gaps : \A h \in gaps : g <= h
  BY <1>1, LeastNatural
<1>3. PICK i \in S : g = bound - i
  OBVIOUS
<1>4. \A k \in S : k <= i
  <2>1. \A k \in S : g <= bound - k
    BY <1>2
  <2> QED BY <1>0, <1>3, <2>1
<1>5. LastOf(S, i)
  BY <1>4 DEF LastOf
<1>6. \A k \in S : i >= k
  BY <1>4
<1>7. Max(S) \in S /\ \A k \in S : Max(S) >= k
  BY <1>6 DEF Max
<1>8. LastOf(S, Max(S))
  BY <1>7 DEF LastOf
<1> QED BY <1>5, <1>7, <1>8

LEMMA LogFields ==
  ASSUME TypeOK, NEW k \in DOMAIN log
  PROVE  /\ k \in Nat /\ log[k] \in Entry(Version) /\ log[k].at \in Nat /\ log[k].rank \in 0..2
         /\ log[k].kind \in {"set", "revert"} /\ log[k].family \in ActionFamilies \cup {"override"}
         /\ log[k].version \in Version /\ log[k].value \in {"", "pass", "block"}
<1>1. k \in Nat /\ log[k] \in Entry(Version)
  BY DEF TypeOK
<1> QED BY <1>1, EntryFields

\* Where no two entries share a millisecond the readers see the last entry first.
LEMMA NewestIsLast ==
  ASSUME TypeOK, InOrder, ~SameInstant, NEW S \in SUBSET DOMAIN log, NEW i, LastOf(S, i)
  PROVE  Newest(log, S) = i
<1>1. \A k \in DOMAIN log : k \in Nat /\ log[k].at \in Nat
  BY LogFields
<1>2. \A j, k \in DOMAIN log : j < k => log[j].at < log[k].at
  BY DEF InOrder, Later
<1>3. i \in S /\ \A j \in S \ {i} : log[j].at < log[i].at
  BY <1>1, <1>2 DEF LastOf
<1>4. \A j \in S \ {i} : Newer(log, i, j)
  BY <1>1, <1>3 DEF Newer
<1>5. ASSUME NEW k \in S, \A j \in S \ {k} : Newer(log, k, j), k # i
      PROVE  FALSE
  <2>1. Newer(log, k, i)
    BY <1>3, <1>5
  <2> QED BY <1>1, <1>3, <1>5, <2>1 DEF Newer
<1> QED BY <1>3, <1>4, <1>5 DEF Newest

Age(t, a, r) == 3 * t + 2 - (3 * a + r)

LEMMA ByInstantThenId ==
  ASSUME NEW t \in Nat, NEW a \in Nat, NEW b \in Nat, NEW r \in 0..2, NEW q \in 0..2,
         Age(t, a, r) <= Age(t, b, q), a # b \/ r # q
  PROVE  a > b \/ (a = b /\ r > q)
BY DEF Age

LEMMA AgeType ==
  ASSUME NEW t \in Nat, NEW a \in Nat, NEW r \in 0..2, a <= t
  PROVE  Age(t, a, r) \in Nat
BY DEF Age

\* The entries the readers see are totally ordered, so that one is the newest.
LEMMA NewestExists ==
  ASSUME TypeOK, InOrder, NEW S \in SUBSET DOMAIN log, S # {}
  PROVE  Newest(log, S) \in S
<1> DEFINE age(k) == Age(log[Len(log)].at, log[k].at, log[k].rank)
           ages == {age(k) : k \in S}
<1>1. Len(log) \in Nat /\ DOMAIN log = 1..Len(log) /\ log # << >> /\ Len(log) \in DOMAIN log
  BY DEF TypeOK
<1>2. \A k \in DOMAIN log :
        /\ k \in Nat /\ k <= Len(log) /\ log[k].at \in Nat /\ log[k].rank \in 0..2
        /\ log[k].at <= log[Len(log)].at
  <2> SUFFICES ASSUME NEW k \in DOMAIN log
               PROVE  /\ k \in Nat /\ k <= Len(log) /\ log[k].at \in Nat /\ log[k].rank \in 0..2
                      /\ log[k].at <= log[Len(log)].at
    OBVIOUS
  <2>0. k \in Nat /\ k <= Len(log)
    BY <1>1
  <2>1. k \in Nat /\ k <= Len(log) /\ log[k].at \in Nat /\ log[k].rank \in 0..2
    BY <2>0, LogFields
  <2>2. log[Len(log)].at \in Nat
    BY <1>1, LogFields
  <2>3. k = Len(log) \/ Later(log, k, Len(log))
    BY <1>1, <2>1 DEF InOrder
  <2> QED BY <2>1, <2>2, <2>3 DEF Later
<1>3. \A k \in S : age(k) \in Nat
  <2> SUFFICES ASSUME NEW k \in S PROVE age(k) \in Nat
    OBVIOUS
  <2>1. /\ log[k].at \in Nat /\ log[k].rank \in 0..2 /\ log[k].at <= log[Len(log)].at
        /\ log[Len(log)].at \in Nat
    BY <1>1, <1>2
  <2> QED BY <2>1, AgeType
<1>4. PICK g \in ages : \A h \in ages : g <= h
  <2> HIDE DEF age
  <2>1. ages \in SUBSET Nat /\ ages # {}
    BY <1>3
  <2> HIDE DEF ages
  <2> QED BY <2>1, LeastNatural
<1>5. PICK i \in S : g = age(i)
  OBVIOUS
<1>6. \A j \in S : age(i) <= age(j)
  BY <1>4, <1>5
<1>7. ASSUME NEW j \in S \ {i}
      PROVE  Newer(log, i, j)
  <2>1. /\ log[i].at \in Nat /\ log[i].rank \in 0..2 /\ log[j].at \in Nat /\ log[j].rank \in 0..2
        /\ log[Len(log)].at \in Nat
    BY <1>1, <1>2
  <2>0. age(i) <= age(j)
    BY <1>6
  <2>3. Later(log, i, j) \/ Later(log, j, i)
    BY <1>2 DEF InOrder
  <2>4. log[i].at # log[j].at \/ log[i].rank # log[j].rank
    BY <2>1, <2>3 DEF Later
  <2>5. log[i].at > log[j].at \/ (log[i].at = log[j].at /\ log[i].rank > log[j].rank)
    BY <2>0, <2>1, <2>4, ByInstantThenId
  <2> QED BY <2>5 DEF Newer
<1> HIDE DEF age, ages
<1> QED BY <1>7 DEF Newest

\* With one entry there is nothing to choose.
LEMMA NewestOfOne ==
  ASSUME NEW S, NEW i \in S, \A j \in S : j = i
  PROVE  Newest(log, S) = i
BY DEF Newest

LEMMA InOrderStep ==
  ASSUME TypeOK, InOrder, NEW e \in Entry(Version), NEW i, NEW stamp \in Stamps(log),
         e.at = stamp.at, e.rank = stamp.rank, AddsTo(log, log', e, i)
  PROVE  InOrder'
<1> DEFINE n == Len(log) + 1
<1>0. log \in Seq(Entry(Version))
  BY DEF TypeOK
<1>1. /\ n \in Nat /\ log'[n].at = e.at /\ log'[n].rank = e.rank
      /\ \A k \in DOMAIN log :
           k \in Nat /\ k < n /\ log'[k].at = log[k].at /\ log'[k].rank = log[k].rank
      /\ \A k \in DOMAIN log' : k = n \/ k \in DOMAIN log
  <2>1. log'[n] = e
    BY <1>0, AddedEntries
  <2>2. \A k \in DOMAIN log :
          k \in Nat /\ k < n /\ log'[k].at = log[k].at /\ log'[k].rank = log[k].rank
    BY <1>0, AddedEntries
  <2>3. n \in Nat /\ \A k \in DOMAIN log' : k = n \/ k \in DOMAIN log
    BY <1>0, AddedEntries
  <2> QED BY <2>1, <2>2, <2>3
<1>2. ASSUME NEW j \in DOMAIN log, NEW k \in DOMAIN log, j < k
      PROVE  Later(log', j, k)
  BY <1>1, <1>2 DEF InOrder, Later
<1>3. ASSUME NEW j \in DOMAIN log
      PROVE  Later(log', j, n)
  <2>1. log # << >> /\ Len(log) \in DOMAIN log /\ j <= Len(log) /\ Len(log) \in Nat /\ n = Len(log) + 1
    BY <1>0
  <2>2. /\ log[j].at \in Nat /\ log[Len(log)].at \in Nat
        /\ Instant(log) = log[Len(log)].at
    BY <2>1, LogFields DEF Instant
  <2>3. j = Len(log) \/ Later(log, j, Len(log))
    BY <1>1, <2>1 DEF InOrder
  <2>4. log'[j].at = log[j].at /\ log'[j].rank = log[j].rank
    BY <1>1
  <2>5. log[j].at <= log[Len(log)].at
    BY <2>2, <2>3 DEF Later
  <2>6. CASE stamp.at = Instant(log) + 1
    BY <1>1, <2>2, <2>4, <2>5, <2>6 DEF Later
  <2>7. CASE /\ SameInstant /\ stamp.at = Instant(log) /\ stamp.rank \in {0, 2}
             /\ log[Len(log)].rank = 1
    <3>1. CASE j = Len(log)
      BY <1>1, <2>1, <2>2, <2>4, <2>7, <3>1 DEF Later
    <3>2. CASE log[j].at < log[Len(log)].at
      BY <1>1, <2>2, <2>4, <2>7, <3>2 DEF Later
    <3> QED BY <2>3, <2>7, <3>1, <3>2 DEF Later
  <2> QED BY <2>6, <2>7, StampType
<1> HIDE DEF n
<1> QED BY <1>1, <1>2, <1>3 DEF InOrder

LEMMA FamiliesStep ==
  ASSUME TypeOK, FamiliesLogged, NEW e \in Entry(Version), NEW i,
         e.family \in Families \cup {"override"}, AddsTo(log, log', e, i)
  PROVE  FamiliesLogged'
<1>0. log \in Seq(Entry(Version))
  BY DEF TypeOK
<1> QED BY <1>0, AddedEntries DEF FamiliesLogged

LEMMA TypeStep ==
  ASSUME TypeOK, NEW e, NEW i, AddsTo(log, log', e, i)
  PROVE  log' \in Seq(Entry(Version))
BY DEF AddsTo

\* An entry that is no override of a version and withdraws none leaves its ruling alone.
LEMMA RulingStands ==
  ASSUME TypeOK, NEW a \in Version, RulingFollows(a), ruling'[a] = ruling[a],
         NEW e \in Entry(Version), NEW i, AddsTo(log, log', e, i),
         ~(e.kind = "set" /\ e.family = "override" /\ e.version = a),
         i \notin OverrideSets(log, a),
         e.kind = "revert" => e.target = i
  PROVE  RulingFollows(a)'
<1> DEFINE n == Len(log) + 1
<1>0. log \in Seq(Entry(Version))
  BY DEF TypeOK
<1>1. /\ n \in Nat /\ n \in DOMAIN log' /\ log'[n] = e /\ n \notin DOMAIN log
      /\ \A k \in DOMAIN log : k \in DOMAIN log' /\ k \in Nat /\ k < n
      /\ \A k \in DOMAIN log' : k = n \/ k \in DOMAIN log
      /\ \A k \in DOMAIN log :
           /\ log'[k].kind = log[k].kind /\ log'[k].family = log[k].family
           /\ log'[k].version = log[k].version /\ log'[k].value = log[k].value
           /\ log'[k].target = log[k].target
           /\ log'[k].by = IF k = i /\ log[k].by = 0 THEN n ELSE log[k].by
  BY <1>0, AddedEntries
<1> HIDE DEF n
<1>2. OverrideSets(log', a) = OverrideSets(log, a)
  BY <1>1 DEF OverrideSets
<1>3. \A k \in OverrideSets(log, a) : k \in DOMAIN log /\ k # i
  BY DEF OverrideSets
<1>4. ASSUME NEW k \in DOMAIN log', LastOf(OverrideSets(log', a), k)
      PROVE  LastOverrideRules(a, k)'
  <2>1. k \in DOMAIN log /\ k # i /\ LastOf(OverrideSets(log, a), k)
    BY <1>2, <1>3, <1>4 DEF LastOf
  <2>2. LastOverrideRules(a, k)
    BY <2>1 DEF RulingFollows
  <2>3. log'[k].by = log[k].by /\ log'[k].value = log[k].value
    BY <1>1, <2>1
  <2>4. ASSUME NEW r \in DOMAIN log', log[k].by = 0, r > k, log'[r].kind = "revert"
        PROVE  log'[r].target \notin OverrideSets(log', a)
    <3>1. CASE r = n
      BY <1>1, <1>2, <2>4, <3>1
    <3>2. CASE r \in DOMAIN log
      BY <1>1, <1>2, <2>2, <2>4, <3>2 DEF LastOverrideRules
    <3> QED BY <1>1, <3>1, <3>2
  <2> QED BY <2>2, <2>3, <2>4 DEF LastOverrideRules
<1> QED BY <1>2, <1>4 DEF RulingFollows

-----------------------------------------------------------------------------
(* The steps, and the log invariant.                                        *)

\* A step that writes no action and decides nothing.
LEMMA DecisionsUndisturbed ==
  ASSUME DecisionInv, TypeOK', UNCHANGED <<log, wish, dismissed, ruling>>
  PROVE  DecisionInv'
BY DEF DecisionInv, FamiliesLogged, InOrder, OneInForce, WishInForce, IgnoredWereDismissed,
       RulingLogged, RulingFollows, LastOverrideRules, ActiveSets, InForce

LEMMA ActiveVersionType ==
  ASSUME TypeOK, NEW c \in Candidates
  PROVE  ActiveVersion(c) \in Version /\ ActiveVersion(c)[1] = c
<1>1. active[c] \in 1..MaxVersion[c]
  BY DEF TypeOK
<1> QED BY <1>1 DEF ActiveVersion, Version

LEMMA AskedFor ==
  ASSUME TypeOK, NEW c \in Candidates, NEW f \in Families, NEW on \in BOOLEAN, Ask(c, f, on)
  PROVE  /\ wish' \in [Candidates -> [Families -> BOOLEAN]]
         /\ wish'[c][f] = on
         /\ \A d \in Candidates, g \in Families : d # c \/ g # f => wish'[d][g] = wish[d][g]
         /\ dismissed' \subseteq Version
         /\ UNCHANGED <<active, latest, context, met, records, batches, ruling>>
<1>1. wish \in [Candidates -> [Families -> BOOLEAN]]
  BY DEF TypeOK
<1>2. wish' = [wish EXCEPT ![c] = [wish[c] EXCEPT ![f] = on]]
  BY <1>1 DEF Ask
<1>3. [wish[c] EXCEPT ![f] = on] \in [Families -> BOOLEAN]
  BY <1>1
<1>4. dismissed' \subseteq Version
  BY ActiveVersionType DEF Ask, TypeOK
<1> QED BY <1>1, <1>2, <1>3, <1>4 DEF Ask

\* The types after a step that decides something.
LEMMA TypesAfterDecision ==
  ASSUME TypeOK, UNCHANGED <<active, latest, context, met, records, batches>>,
         log' \in Seq(Entry(Version)), wish' \in [Candidates -> [Families -> BOOLEAN]],
         dismissed' \subseteq Version, ruling' \in [Version -> {"none", "pass", "block"}],
         RevertsMatch'
  PROVE  TypeOK'
BY DEF TypeOK, ActiveVersion

\* What the repeated request of ApplySet and ApplyRevert leaves as it is.
LEMMA LogStandsStill ==
  ASSUME DecisionInv, log' = log, ruling' = ruling
  PROVE  /\ log' \in Seq(Entry(Version)) /\ ruling' \in [Version -> {"none", "pass", "block"}]
         /\ RevertsMatch' /\ FamiliesLogged' /\ InOrder' /\ OneInForce' /\ RulingLogged'
<1>1. RevertsMatch'
  BY DEF DecisionInv, TypeOK, RevertsMatch
<1>2. FamiliesLogged' /\ InOrder'
  BY DEF DecisionInv, FamiliesLogged, InOrder
<1>3. OneInForce'
  BY DEF DecisionInv, OneInForce, ActiveSets
<1>4. RulingLogged'
  BY DEF DecisionInv, RulingLogged, RulingFollows, LastOverrideRules
<1> QED BY <1>1, <1>2, <1>3, <1>4 DEF DecisionInv, TypeOK

LEMMA ApplySetKeeps ==
  ASSUME DecisionInv, NEW stamp \in Stamps(log),
         NEW c \in Candidates, NEW f \in Families, ApplySet(c, f, stamp)
  PROVE  DecisionInv'
<1> DEFINE v == ActiveVersion(c)
           e == Insertion("set", f, v, "", 0, stamp)
<1>0. TypeOK /\ log \in Seq(Entry(Version))
  BY DEF DecisionInv, TypeOK
<1>1. /\ wish' \in [Candidates -> [Families -> BOOLEAN]] /\ dismissed' \subseteq Version
      /\ wish'[c][f] = TRUE
      /\ \A d \in Candidates, g \in Families : d # c \/ g # f => wish'[d][g] = wish[d][g]
      /\ UNCHANGED <<active, latest, context, met, records, batches, ruling>>
  BY <1>0, AskedFor DEF ApplySet
<1>2. v \in Version /\ v[1] = c
  BY <1>0, ActiveVersionType
<1>3. dismissed' = IF f # "ignore" THEN dismissed ELSE dismissed \cup {v}
  BY DEF ApplySet, Ask
<1>4. f \in ActionFamilies \cup {"override"} /\ f # "override"
  BY DecisionsAssumption DEF ActionFamilies
<1> HIDE DEF v
<1>5. CASE InForce(log, c, f)
  <2>1. log' = log
    BY <1>5 DEF ApplySet
  <2>2. WishInForce'
    BY <1>1, <1>5, <2>1 DEF DecisionInv, WishInForce, InForce, ActiveSets
  <2>3. IgnoredWereDismissed'
    BY <1>3, <2>1 DEF DecisionInv, IgnoredWereDismissed, ActiveSets
  <2> QED BY <1>0, <1>1, <2>1, <2>2, <2>3, LogStandsStill, TypesAfterDecision DEF DecisionInv
<1>6. CASE ~InForce(log, c, f)
  <2>0. e \in Entry(Version)
    BY <1>0, <1>2, <1>4, InsertionType
  <2>1. /\ e.kind = "set" /\ e.family = f /\ e.version = v /\ e.value = ""
        /\ e.by = 0 /\ e.at = stamp.at /\ e.rank = stamp.rank
    BY DEF Insertion
  <2>2. log' = Insert(log, "set", f, v, "", 0, stamp)
    BY <1>6 DEF ApplySet, v
  <2>3. AddsTo(log, log', e, 0)
    BY <1>0, <1>2, <1>4, <2>2, InsertAdds
  <2> HIDE DEF e
  <2>4. RevertsMatch' /\ FamiliesLogged' /\ InOrder'
    <3>1. RevertsMatch'
      BY <1>0, <2>0, <2>1, <2>3, RevertsMatchStep
    <3>2. FamiliesLogged'
      BY <1>0, <2>0, <2>1, <2>3, FamiliesStep DEF DecisionInv
    <3>3. InOrder'
      BY <1>0, <2>0, <2>1, <2>3, InOrderStep DEF DecisionInv
    <3> QED BY <3>1, <3>2, <3>3
  <2>5. \A d, g : ActiveSets(log', d, g) =
          IF g = f /\ d = c THEN ActiveSets(log, d, g) \cup {Len(log) + 1} ELSE ActiveSets(log, d, g)
    <3>1. ActiveAfterSet(log, log', e)
      BY <1>0, <2>0, <2>1, <2>3, SetIsActive
    <3>2. e.family = f /\ e.version[1] = c
      BY <1>2, <2>1
    <3> QED BY <3>1, <3>2 DEF ActiveAfterSet
  <2>6. ActiveSets(log, c, f) = {}
    BY <1>6 DEF InForce
  <2>7. OneInForce'
    BY <2>5, <2>6 DEF DecisionInv, OneInForce
  <2>8. WishInForce'
    <3> SUFFICES ASSUME NEW d \in Candidates, NEW g \in Families
                 PROVE  InForce(log', d, g) <=> wish'[d][g] = TRUE
      BY DEF WishInForce, InForce
    <3>1. CASE d = c /\ g = f
      BY <1>1, <2>5, <3>1 DEF InForce
    <3>2. CASE ~(d = c /\ g = f)
      BY <1>1, <2>5, <3>2 DEF InForce, DecisionInv, WishInForce
    <3> QED BY <3>1, <3>2
  <2>9. IgnoredWereDismissed'
    <3> SUFFICES ASSUME NEW d \in Candidates, NEW i \in ActiveSets(log', d, "ignore")
                 PROVE  log'[i].version \in dismissed'
      BY DEF IgnoredWereDismissed
    <3>1. CASE i \in ActiveSets(log, d, "ignore")
      <4>0. i \in DOMAIN log
        BY <3>1 DEF ActiveSets
      <4>1. log'[i].version = log[i].version
        BY <1>0, <2>0, <2>3, <4>0, AddedEntries
      <4> QED BY <1>3, <3>1, <4>1 DEF DecisionInv, IgnoredWereDismissed
    <3>2. CASE i \notin ActiveSets(log, d, "ignore")
      <4>1. f = "ignore" /\ i = Len(log) + 1
        BY <2>5, <3>2
      <4>2. log'[i] = e
        BY <2>3, <4>1 DEF AddsTo
      <4> QED BY <1>3, <2>1, <4>1, <4>2
    <3> QED BY <3>1, <3>2
  <2>10. RulingLogged'
    <3> SUFFICES ASSUME ~SameInstant, NEW a \in Version PROVE RulingFollows(a)'
      BY DEF RulingLogged
    <3>1. RulingFollows(a)
      BY DEF DecisionInv, RulingLogged
    <3>2. 0 \notin OverrideSets(log, a)
      BY <1>0 DEF OverrideSets
    <3> QED BY <1>0, <1>1, <1>4, <2>0, <2>1, <2>3, <3>1, <3>2, RulingStands
  <2> QED
    BY <1>0, <1>1, <2>3, <2>4, <2>7, <2>8, <2>9, <2>10, TypeStep, TypesAfterDecision
    DEF DecisionInv, TypeOK
<1> QED BY <1>5, <1>6

LEMMA ApplyRevertKeeps ==
  ASSUME DecisionInv, NEW stamp \in Stamps(log),
         NEW c \in Candidates, NEW f \in Families, ApplyRevert(c, f, stamp)
  PROVE  DecisionInv'
<1>0. TypeOK /\ log \in Seq(Entry(Version))
  BY DEF DecisionInv, TypeOK
<1>1. /\ wish' \in [Candidates -> [Families -> BOOLEAN]] /\ dismissed' \subseteq Version
      /\ wish'[c][f] = FALSE
      /\ \A d \in Candidates, g \in Families : d # c \/ g # f => wish'[d][g] = wish[d][g]
      /\ UNCHANGED <<active, latest, context, met, records, batches, ruling>>
  BY <1>0, AskedFor DEF ApplyRevert
<1>2. dismissed' = IF f # "ignore" THEN dismissed ELSE {v \in dismissed : v[1] # c}
  BY DEF ApplyRevert, Ask
<1>3. f \in ActionFamilies \cup {"override"} /\ f # "override"
  BY DecisionsAssumption DEF ActionFamilies
<1>4. CASE ~InForce(log, c, f)
  <2>1. log' = log
    BY <1>4 DEF ApplyRevert
  <2>2. WishInForce'
    BY <1>1, <1>4, <2>1 DEF DecisionInv, WishInForce, InForce, ActiveSets
  <2>3. IgnoredWereDismissed'
    <3> SUFFICES ASSUME NEW d \in Candidates, NEW i \in ActiveSets(log', d, "ignore")
                 PROVE  log'[i].version \in dismissed'
      BY DEF IgnoredWereDismissed
    <3>1. i \in ActiveSets(log, d, "ignore") /\ log'[i].version = log[i].version
      BY <2>1
    <3>2. log[i].version \in dismissed /\ log[i].version[1] = d
      BY <3>1 DEF DecisionInv, IgnoredWereDismissed, ActiveSets
    <3>3. f = "ignore" => d # c
      BY <1>4, <3>1 DEF InForce
    <3> QED BY <1>2, <3>1, <3>2, <3>3
  <2> QED BY <1>0, <1>1, <2>1, <2>2, <2>3, LogStandsStill, TypesAfterDecision DEF DecisionInv
<1>5. CASE InForce(log, c, f)
  <2>1. PICK i \in ActiveSets(log, c, f) : TRUE
    BY <1>5 DEF InForce
  <2>2. /\ i \in DOMAIN log /\ log[i].kind = "set" /\ log[i].family = f
        /\ log[i].version[1] = c /\ log[i].by = 0 /\ log[i].version \in Version
    BY <1>0, <2>1, LogFields DEF ActiveSets
  <2>3. \A j \in ActiveSets(log, c, f) : j = i
    BY DEF DecisionInv, OneInForce
  <2>4. Newest(log, ActiveSets(log, c, f)) = i
    BY <2>3, NewestOfOne
  <2>5. log' = Withdraw(log, i, stamp)
    BY <1>5, <2>4 DEF ApplyRevert
  <2> DEFINE e == Insertion("revert", log[i].family, log[i].version, "", i, stamp)
  <2>6. e \in Entry(Version)
    BY <1>0, <2>2, LogFields, InsertionType
  <2>7. /\ e.kind = "revert" /\ e.family = log[i].family /\ e.version = log[i].version
        /\ e.target = i /\ e.by = 0 /\ e.at = stamp.at /\ e.rank = stamp.rank
    BY DEF Insertion
  <2>8. AddsTo(log, log', e, i)
    BY <1>0, <2>2, <2>5, WithdrawAdds
  <2> HIDE DEF e
  <2>9. RevertsMatch' /\ FamiliesLogged' /\ InOrder'
    <3>1. RevertsMatch'
      BY <1>0, <2>2, <2>6, <2>7, <2>8, RevertsMatchStep
    <3>2. FamiliesLogged'
      BY <1>0, <2>2, <2>6, <2>7, <2>8, FamiliesStep DEF DecisionInv
    <3>3. InOrder'
      BY <1>0, <2>6, <2>7, <2>8, InOrderStep DEF DecisionInv
    <3> QED BY <3>1, <3>2, <3>3
  <2>10. \A d, g : ActiveSets(log', d, g) = ActiveSets(log, d, g) \ {i}
    BY <1>0, <2>2, <2>6, <2>7, <2>8, RevertIsInactive
  <2>11. OneInForce'
    BY <2>10 DEF DecisionInv, OneInForce
  <2>12. WishInForce'
    <3> SUFFICES ASSUME NEW d \in Candidates, NEW g \in Families
                 PROVE  InForce(log', d, g) <=> wish'[d][g] = TRUE
      BY DEF WishInForce, InForce
    <3>1. CASE d = c /\ g = f
      BY <1>1, <2>3, <2>10, <3>1 DEF InForce
    <3>2. CASE ~(d = c /\ g = f)
      <4>1. i \notin ActiveSets(log, d, g)
        BY <2>2, <3>2 DEF ActiveSets
      <4> QED BY <1>1, <2>10, <3>2, <4>1 DEF InForce, DecisionInv, WishInForce
    <3> QED BY <3>1, <3>2
  <2>13. IgnoredWereDismissed'
    <3> SUFFICES ASSUME NEW d \in Candidates, NEW k \in ActiveSets(log', d, "ignore")
                 PROVE  log'[k].version \in dismissed'
      BY DEF IgnoredWereDismissed
    <3>1. k \in ActiveSets(log, d, "ignore") /\ k # i
      BY <2>10
    <3>2. k \in DOMAIN log /\ log[k].version \in dismissed /\ log[k].version[1] = d
      BY <3>1 DEF DecisionInv, IgnoredWereDismissed, ActiveSets
    <3>3. log'[k].version = log[k].version
      BY <1>0, <2>6, <2>8, <3>2, AddedEntries
    <3>4. f = "ignore" => d # c
      BY <2>3, <3>1
    <3> QED BY <1>2, <3>2, <3>3, <3>4
  <2>14. RulingLogged'
    <3> SUFFICES ASSUME ~SameInstant, NEW a \in Version PROVE RulingFollows(a)'
      BY DEF RulingLogged
    <3>1. RulingFollows(a)
      BY DEF DecisionInv, RulingLogged
    <3>2. i \notin OverrideSets(log, a)
      BY <1>3, <2>2 DEF OverrideSets
    <3> QED BY <1>0, <1>1, <2>6, <2>7, <2>8, <3>1, <3>2, RulingStands
  <2> QED
    BY <1>0, <1>1, <2>8, <2>9, <2>11, <2>12, <2>13, <2>14, TypeStep, TypesAfterDecision
    DEF DecisionInv, TypeOK
<1> QED BY <1>4, <1>5

-----------------------------------------------------------------------------
(* Overrides.                                                               *)

\* A step on overrides leaves what is in force of the families as it is.
LEMMA FamiliesStand ==
  ASSUME DecisionInv, UNCHANGED <<wish, dismissed>>, NEW e \in Entry(Version), NEW i,
         AddsTo(log, log', e, i),
         \A c, f : f # "override" => ActiveSets(log', c, f) = ActiveSets(log, c, f)
  PROVE  OneInForce' /\ WishInForce' /\ IgnoredWereDismissed'
<1>0. log \in Seq(Entry(Version)) /\ \A f \in Families : f # "override"
  BY DecisionsAssumption DEF DecisionInv, TypeOK, ActionFamilies
<1>1. OneInForce' /\ WishInForce'
  BY <1>0 DEF DecisionInv, OneInForce, WishInForce, InForce
<1>2. ASSUME NEW c \in Candidates, NEW k \in ActiveSets(log', c, "ignore")
      PROVE  log'[k].version \in dismissed'
  <2>1. k \in ActiveSets(log, c, "ignore")
    BY <1>2
  <2>2. k \in DOMAIN log /\ log[k].version \in dismissed
    BY <2>1 DEF DecisionInv, IgnoredWereDismissed, ActiveSets
  <2>3. log'[k].version = log[k].version
    BY <1>0, <2>2, AddedEntries
  <2> QED BY <2>2, <2>3
<1> QED BY <1>1, <1>2 DEF IgnoredWereDismissed

LEMMA SetRuleOverrideKeeps ==
  ASSUME DecisionInv, NEW stamp \in Stamps(log), NEW a \in Version,
         NEW value \in {"pass", "block"}, SetRuleOverride(a, value, stamp)
  PROVE  DecisionInv'
<1> DEFINE e == Insertion("set", "override", a, value, 0, stamp)
<1>0. TypeOK /\ log \in Seq(Entry(Version))
  BY DEF DecisionInv, TypeOK
<1>1. e \in Entry(Version)
  BY <1>0, InsertionType
<1>2. /\ e.kind = "set" /\ e.family = "override" /\ e.version = a /\ e.value = value
      /\ e.by = 0 /\ e.at = stamp.at /\ e.rank = stamp.rank
  BY DEF Insertion
<1>3. AddsTo(log, log', e, 0)
  BY <1>0, InsertAdds DEF SetRuleOverride
<1> HIDE DEF e
<1>4. /\ ruling \in [Version -> {"none", "pass", "block"}]
      /\ ruling' = [ruling EXCEPT ![a] = value]
      /\ UNCHANGED <<active, latest, context, met, records, batches, wish, dismissed>>
  BY DEF SetRuleOverride, DecisionInv, TypeOK
<1>5. RevertsMatch' /\ FamiliesLogged' /\ InOrder'
  <2>1. RevertsMatch'
    BY <1>0, <1>1, <1>2, <1>3, RevertsMatchStep
  <2>2. FamiliesLogged'
    BY <1>0, <1>1, <1>2, <1>3, FamiliesStep DEF DecisionInv
  <2>3. InOrder'
    BY <1>0, <1>1, <1>2, <1>3, InOrderStep DEF DecisionInv
  <2> QED BY <2>1, <2>2, <2>3
<1>6. OneInForce' /\ WishInForce' /\ IgnoredWereDismissed'
  <2>1. ActiveAfterSet(log, log', e)
    BY <1>0, <1>1, <1>2, <1>3, SetIsActive
  <2>2. \A c, f : f # "override" => ActiveSets(log', c, f) = ActiveSets(log, c, f)
    BY <1>2, <2>1 DEF ActiveAfterSet
  <2> QED BY <1>1, <1>3, <1>4, <2>2, FamiliesStand
<1>7. RulingLogged'
  <2> SUFFICES ASSUME ~SameInstant, NEW b \in Version PROVE RulingFollows(b)'
    BY DEF RulingLogged
  <2>1. RulingFollows(b)
    BY DEF DecisionInv, RulingLogged
  <2>2. CASE b # a
    <3>1. 0 \notin OverrideSets(log, b)
      BY <1>0 DEF OverrideSets
    <3>2. ruling'[b] = ruling[b]
      BY <1>4, <2>2
    <3> QED BY <1>0, <1>1, <1>2, <1>3, <2>1, <2>2, <3>1, <3>2, RulingStands
  <2>3. CASE b = a
    <3>0. PICK n \in Nat : n = Len(log) + 1
      BY <1>0
    <3>1. /\ n \in DOMAIN log' /\ log'[n] = e
          /\ \A k \in DOMAIN log' : k \in Nat /\ k <= n
      BY <1>0, <1>1, <1>3, <3>0, AddedEntries
    <3>2. n \in OverrideSets(log', a)
      BY <1>2, <3>1 DEF OverrideSets
    <3>3. \A k \in DOMAIN log' : LastOf(OverrideSets(log', a), k) => k = n
      BY <3>1, <3>2 DEF LastOf
    <3>4. \A k \in DOMAIN log' : ~(k > n)
      BY <3>1
    <3>5. ruling'[a] = value
      BY <1>4
    <3>6. LastOverrideRules(a, n)'
      BY <1>2, <3>1, <3>4, <3>5 DEF LastOverrideRules
    <3> QED BY <2>3, <3>2, <3>3, <3>6 DEF RulingFollows
  <2> QED BY <2>2, <2>3
<1>8. ruling' \in [Version -> {"none", "pass", "block"}]
  BY <1>4
<1> QED
  BY <1>0, <1>3, <1>4, <1>5, <1>6, <1>7, <1>8, TypeStep, TypesAfterDecision
  DEF DecisionInv, TypeOK

\* The override that is withdrawn is an override of the version, the last where no two
\* entries share a millisecond.
LEMMA LatestOverride ==
  ASSUME TypeOK, InOrder, NEW a
  PROVE  /\ LatestOverrideSet(log, a) = 0 <=> OverrideSets(log, a) = {}
         /\ LatestOverrideSet(log, a) # 0 =>
              /\ LatestOverrideSet(log, a) \in OverrideSets(log, a)
              /\ ~SameInstant => LastOf(OverrideSets(log, a), LatestOverrideSet(log, a))
<1> DEFINE S == OverrideSets(log, a)
<1>1. S \in SUBSET DOMAIN log /\ DOMAIN log = 1..Len(log) /\ Len(log) \in Nat
  BY DEF OverrideSets, TypeOK
<1>2. CASE S = {}
  BY <1>2 DEF LatestOverrideSet
<1>3. CASE S # {}
  <2>1. LatestOverrideSet(log, a) = Newest(log, S)
    BY <1>3 DEF LatestOverrideSet
  <2> HIDE DEF S
  <2>2. Newest(log, S) \in S
    BY <1>1, <1>3, NewestExists
  <2>3. Newest(log, S) # 0
    BY <1>1, <2>2
  <2>4. ASSUME ~SameInstant PROVE LastOf(S, Newest(log, S))
    <3>1. PICK i \in S : LastOf(S, i)
      BY <1>1, <1>3, LastExists
    <3>2. Newest(log, S) = i
      BY <1>1, <2>4, <3>1, NewestIsLast
    <3> QED BY <3>1, <3>2
  <2> QED BY <1>3, <2>1, <2>2, <2>3, <2>4 DEF S
<1> QED BY <1>2, <1>3

LEMMA RevertRuleOverrideKeeps ==
  ASSUME DecisionInv, NEW stamp \in Stamps(log), NEW a \in Version, RevertRuleOverride(a, stamp)
  PROVE  DecisionInv'
<1>0. TypeOK /\ InOrder /\ log \in Seq(Entry(Version))
  BY DEF DecisionInv, TypeOK
<1>1. PICK i \in DOMAIN log : /\ i = LatestOverrideSet(log, a) /\ i \in OverrideSets(log, a)
                              /\ ~SameInstant => LastOf(OverrideSets(log, a), i)
  BY <1>0, LatestOverride DEF RevertRuleOverride, OverrideSets
<1>2. log[i].kind = "set" /\ log[i].family = "override" /\ log[i].version = a
  BY <1>1 DEF OverrideSets
<1> DEFINE e == Insertion("revert", log[i].family, log[i].version, "", i, stamp)
<1>3. e \in Entry(Version)
  BY <1>0, <1>2, LogFields, InsertionType
<1>4. /\ e.kind = "revert" /\ e.family = "override" /\ e.version = a
      /\ e.target = i /\ e.by = 0 /\ e.at = stamp.at /\ e.rank = stamp.rank
  BY <1>2 DEF Insertion
<1>5. AddsTo(log, log', e, i)
  BY <1>0, <1>1, WithdrawAdds DEF RevertRuleOverride
<1> HIDE DEF e
<1>6. /\ ruling \in [Version -> {"none", "pass", "block"}]
      /\ ruling' = [ruling EXCEPT ![a] = "none"]
      /\ UNCHANGED <<active, latest, context, met, records, batches, wish, dismissed>>
  BY DEF RevertRuleOverride, DecisionInv, TypeOK
<1>7. RevertsMatch' /\ FamiliesLogged' /\ InOrder'
  <2>1. RevertsMatch'
    BY <1>0, <1>2, <1>3, <1>4, <1>5, RevertsMatchStep
  <2>2. FamiliesLogged'
    BY <1>0, <1>3, <1>4, <1>5, FamiliesStep DEF DecisionInv
  <2>3. InOrder'
    BY <1>0, <1>3, <1>4, <1>5, InOrderStep DEF DecisionInv
  <2> QED BY <2>1, <2>2, <2>3
<1>8. OneInForce' /\ WishInForce' /\ IgnoredWereDismissed'
  <2>1. \A c, f : ActiveSets(log', c, f) = ActiveSets(log, c, f) \ {i}
    BY <1>0, <1>3, <1>4, <1>5, RevertIsInactive
  <2>2. \A c, f : f # "override" => i \notin ActiveSets(log, c, f)
    BY <1>2 DEF ActiveSets
  <2>3. \A c, f : f # "override" => ActiveSets(log', c, f) = ActiveSets(log, c, f)
    BY <2>1, <2>2
  <2> QED BY <1>3, <1>5, <1>6, <2>3, FamiliesStand
<1>9. RulingLogged'
  <2> SUFFICES ASSUME ~SameInstant, NEW b \in Version PROVE RulingFollows(b)'
    BY DEF RulingLogged
  <2>1. RulingFollows(b)
    BY DEF DecisionInv, RulingLogged
  <2>2. CASE b # a
    <3>1. i \notin OverrideSets(log, b)
      BY <1>2, <2>2 DEF OverrideSets
    <3>2. ruling'[b] = ruling[b]
      BY <1>6, <2>2
    <3> QED BY <1>0, <1>3, <1>4, <1>5, <2>1, <3>1, <3>2, RulingStands
  <2>3. CASE b = a
    <3>1. /\ \A k \in DOMAIN log :
               /\ k \in DOMAIN log' /\ log'[k].kind = log[k].kind
               /\ log'[k].family = log[k].family /\ log'[k].version = log[k].version
          /\ log'[Len(log) + 1] = e
          /\ \A k \in DOMAIN log' : k = Len(log) + 1 \/ k \in DOMAIN log
      BY <1>0, <1>3, <1>5, AddedEntries
    <3>2. OverrideSets(log', a) = OverrideSets(log, a)
      BY <1>4, <3>1 DEF OverrideSets
    <3>3. log'[i].by # 0
      BY <1>0, <1>3, <1>5, AddedEntries
    <3>4. \A k \in DOMAIN log' : LastOf(OverrideSets(log', a), k) => k = i
      <4>1. LastOf(OverrideSets(log, a), i) /\ \A k \in OverrideSets(log, a) : k \in Nat
        BY <1>0, <1>1 DEF OverrideSets
      <4> QED BY <3>2, <4>1 DEF LastOf
    <3>5. ruling'[a] = "none"
      BY <1>6
    <3>6. LastOverrideRules(a, i)'
      BY <3>3, <3>5 DEF LastOverrideRules
    <3>7. OverrideSets(log', a) # {}
      BY <1>1, <3>2
    <3> QED BY <2>3, <3>4, <3>6, <3>7 DEF RulingFollows
  <2> QED BY <2>2, <2>3
<1>10. ruling' \in [Version -> {"none", "pass", "block"}]
  BY <1>6
<1> QED
  BY <1>0, <1>5, <1>6, <1>7, <1>8, <1>9, <1>10, TypeStep, TypesAfterDecision
  DEF DecisionInv, TypeOK

-----------------------------------------------------------------------------
(* The steps that decide nothing.                                           *)

LEMMA MaterialChangeKeeps ==
  ASSUME DecisionInv, NEW c \in Candidates, MaterialChange(c)
  PROVE  DecisionInv'
<1>1. PICK n \in 1..MaxVersion[c] :
        /\ active' = [active EXCEPT ![c] = n]
        /\ latest' = [latest EXCEPT ![c] = Max({n, latest[c]})]
        /\ met' = met \cup {<< <<c, n>>, context>>}
        /\ UNCHANGED <<context, records, log, batches, wish, dismissed, ruling>>
  BY DEF MaterialChange
<1>2. TypeOK
  BY DEF DecisionInv
<1>3. n \in Nat /\ latest[c] \in Nat /\ latest[c] \in 1..MaxVersion[c] /\ MaxVersion[c] \in Nat
  BY <1>2, DecisionsAssumption DEF TypeOK
<1>4. Max({n, latest[c]}) = IF n >= latest[c] THEN n ELSE latest[c]
  BY <1>3 DEF Max
<1> DEFINE m == Max({n, latest[c]})
<1>5. m \in 1..MaxVersion[c] /\ m \in Nat /\ n <= m
  BY <1>3, <1>4
<1> HIDE DEF m
<1>6. /\ active \in [Candidates -> Nat] /\ latest \in [Candidates -> Nat]
      /\ latest' = [latest EXCEPT ![c] = m]
  BY <1>1, <1>2 DEF TypeOK, m
<1>7. active' \in [Candidates -> Nat] /\ latest' \in [Candidates -> Nat]
  BY <1>1, <1>3, <1>5, <1>6
<1>8. \A d \in Candidates :
        /\ active'[d] = IF d = c THEN n ELSE active[d]
        /\ latest'[d] = IF d = c THEN m ELSE latest[d]
  BY <1>1, <1>6
<1>9. \A d \in Candidates :
        /\ active'[d] \in 1..MaxVersion[d] /\ latest'[d] \in 1..MaxVersion[d]
        /\ active'[d] <= latest'[d]
  BY <1>2, <1>5, <1>8 DEF TypeOK
<1>10. \A d \in Candidates : << <<d, active'[d]>>, context'>> \in met'
  BY <1>1, <1>2, <1>8 DEF TypeOK, ActiveVersion
<1>11. <<c, n>> \in Version
  BY DEF Version
<1>12. met' \subseteq Version \X Contexts
  <2>1. << <<c, n>>, context>> \in Version \X Contexts /\ met \subseteq Version \X Contexts
    BY <1>2, <1>11 DEF TypeOK
  <2> QED BY <1>1, <2>1
<1>13. RevertsMatch'
  BY <1>1, <1>2 DEF TypeOK, RevertsMatch
<1>14. TypeOK'
  BY <1>1, <1>2, <1>7, <1>9, <1>10, <1>12, <1>13 DEF TypeOK, ActiveVersion
<1> QED BY <1>1, <1>14, DecisionsUndisturbed

LEMMA ActivateContextKeeps ==
  ASSUME DecisionInv, NEW k \in Contexts, ActivateContext(k)
  PROVE  DecisionInv'
<1>1. /\ context' = k /\ met' = met \cup {<<ActiveVersion(c), k>> : c \in Candidates}
      /\ UNCHANGED <<active, latest, records, log, batches, wish, dismissed, ruling>>
  BY DEF ActivateContext
<1>2. TypeOK
  BY DEF DecisionInv
<1>3. \A c \in Candidates : ActiveVersion(c) \in Version /\ ActiveVersion(c)' = ActiveVersion(c)
  BY <1>1, <1>2, ActiveVersionType DEF ActiveVersion
<1>4. met' \subseteq Version \X Contexts
  BY <1>1, <1>2, <1>3 DEF TypeOK
<1>5. \A c \in Candidates : <<ActiveVersion(c)', context'>> \in met'
  BY <1>1, <1>3
<1>6. RevertsMatch'
  BY <1>1, <1>2 DEF TypeOK, RevertsMatch
<1>7. TypeOK'
  BY <1>1, <1>2, <1>4, <1>5, <1>6 DEF TypeOK
<1> QED BY <1>1, <1>7, DecisionsUndisturbed

LEMMA RecordAnalysisKeeps ==
  ASSUME DecisionInv, NEW pair \in met, NEW verdict \in Verdicts, RecordAnalysis(pair, verdict)
  PROVE  DecisionInv'
<1> DEFINE r == [version |-> pair[1], context |-> pair[2], verdict |-> verdict]
<1>1. TypeOK
  BY DEF DecisionInv
<1>2. r \in Record /\ <<r.version, r.context>> \in met
  <2>1. pair \in Version \X Contexts
    BY <1>1 DEF TypeOK
  <2>2. pair[1] \in Version /\ pair[2] \in Contexts /\ pair = <<pair[1], pair[2]>>
    BY <2>1
  <2> QED BY <2>2 DEF Record
<1>3. /\ records' = Append(records, r)
      /\ UNCHANGED <<active, latest, context, met, log, batches, wish, dismissed, ruling>>
  BY DEF RecordAnalysis
<1> HIDE DEF r
<1>4. records \in Seq(Record)
  BY <1>1 DEF TypeOK
<1>5. /\ records' \in Seq(Record)
      /\ \A i \in DOMAIN records' : records'[i] = r \/ (i \in DOMAIN records /\ records'[i] = records[i])
  BY <1>2, <1>3, <1>4
<1>6. \A i \in DOMAIN records' : <<records'[i].version, records'[i].context>> \in met'
  BY <1>1, <1>2, <1>3, <1>5 DEF TypeOK
<1>7. RevertsMatch'
  BY <1>1, <1>3 DEF TypeOK, RevertsMatch
<1>8. TypeOK'
  BY <1>1, <1>3, <1>5, <1>6, <1>7 DEF TypeOK, ActiveVersion
<1> QED BY <1>3, <1>8, DecisionsUndisturbed

LEMMA CreateBatchKeeps ==
  ASSUME DecisionInv, NEW scope, CreateBatch(scope)
  PROVE  DecisionInv'
<1>1. UNCHANGED <<active, latest, context, met, records, log, wish, dismissed, ruling>>
  BY DEF CreateBatch
<1>2. TypeOK'
  BY <1>1 DEF DecisionInv, TypeOK, RevertsMatch, ActiveVersion
<1> QED BY <1>1, <1>2, DecisionsUndisturbed

LEMMA InitDecisions == Init => DecisionInv
<1> SUFFICES ASSUME Init PROVE DecisionInv
  OBVIOUS
<1>1. /\ log = << >> /\ records = << >> /\ dismissed = {}
      /\ ruling = [v \in Version |-> "none"]
      /\ active = [c \in Candidates |-> 1] /\ latest = [c \in Candidates |-> 1]
      /\ wish = [c \in Candidates |-> [f \in Families |-> FALSE]]
  BY DEF Init
<1>2. \A c \in Candidates : MaxVersion[c] \in Nat \ {0} /\ <<c, 1>> \in Version
  BY DecisionsAssumption DEF Version
<1>3. met \subseteq Version \X Contexts /\ context \in Contexts
  BY <1>2 DEF Init
<1>4. \A c \in Candidates : <<ActiveVersion(c), context>> \in met
  BY <1>1 DEF Init, ActiveVersion
<1>5. RevertsMatch
  BY <1>1 DEF RevertsMatch
<1>6. wish \in [Candidates -> [Families -> BOOLEAN]]
  BY <1>1
<1>7. log \in Seq(Entry(Version)) /\ records \in Seq(Record)
  BY <1>1
<1>8. ruling \in [Version -> {"none", "pass", "block"}]
  BY <1>1
<1>9. /\ active \in [Candidates -> Nat] /\ latest \in [Candidates -> Nat]
      /\ \A c \in Candidates : /\ active[c] \in 1..MaxVersion[c] /\ latest[c] \in 1..MaxVersion[c]
                               /\ active[c] <= latest[c]
  <2>1. active \in [Candidates -> Nat] /\ latest \in [Candidates -> Nat]
    BY <1>1
  <2>2. \A c \in Candidates : active[c] = 1 /\ latest[c] = 1
    BY <1>1
  <2>3. ASSUME NEW c \in Candidates PROVE 1 \in 1..MaxVersion[c]
    <3>1. MaxVersion[c] \in Nat \ {0}
      BY <1>2
    <3> QED BY <3>1
  <2> QED BY <2>1, <2>2, <2>3
<1>10. \A i \in DOMAIN records : FALSE
  BY <1>1
<1>11. TypeOK
  BY <1>1, <1>3, <1>4, <1>5, <1>6, <1>7, <1>8, <1>9, <1>10 DEF TypeOK
<1>12. \A c, f : ActiveSets(log, c, f) = {}
  BY <1>1 DEF ActiveSets
<1>13. FamiliesLogged /\ InOrder /\ OneInForce /\ IgnoredWereDismissed
  BY <1>1, <1>12 DEF FamiliesLogged, InOrder, OneInForce, IgnoredWereDismissed
<1>14. WishInForce
  BY <1>1, <1>12 DEF WishInForce, InForce
<1>15. RulingLogged
  BY <1>1 DEF RulingLogged, RulingFollows
<1> QED BY <1>11, <1>13, <1>14, <1>15 DEF DecisionInv

LEMMA NextDecisions == DecisionInv /\ [Next]_vars => DecisionInv'
<1> SUFFICES ASSUME DecisionInv, [Next]_vars PROVE DecisionInv'
  OBVIOUS
<1>1. CASE UNCHANGED vars
  <2>1. TypeOK'
    BY <1>1 DEF vars, DecisionInv, TypeOK, RevertsMatch, ActiveVersion
  <2> QED BY <1>1, <2>1, DecisionsUndisturbed DEF vars
<1>2. ASSUME NEW stamp \in Stamps(log), NEW c \in Candidates, NEW f \in Families,
             ApplySet(c, f, stamp) \/ ApplyRevert(c, f, stamp)
      PROVE  DecisionInv'
  BY <1>2, ApplySetKeeps, ApplyRevertKeeps
<1>3. ASSUME NEW stamp \in Stamps(log), NEW a \in Known,
             \/ \E value \in {"pass", "block"} : SetRuleOverride(a, value, stamp)
             \/ RevertRuleOverride(a, stamp)
      PROVE  DecisionInv'
  BY <1>3, SetRuleOverrideKeeps, RevertRuleOverrideKeeps DEF Known
<1>4. CASE Decide
  BY <1>2, <1>3, <1>4 DEF Decide
<1>5. CASE \E c \in Candidates : MaterialChange(c)
  BY <1>5, MaterialChangeKeeps
<1>6. CASE \E k \in Contexts : ActivateContext(k)
  BY <1>6, ActivateContextKeeps
<1>7. CASE \E pair \in met, verdict \in Verdicts : RecordAnalysis(pair, verdict)
  BY <1>7, RecordAnalysisKeeps
<1>8. CASE \E scope \in Scopes : CreateBatch(scope)
  BY <1>8, CreateBatchKeeps
<1> QED BY <1>1, <1>4, <1>5, <1>6, <1>7, <1>8 DEF Next

\* The state derived from the log is what was asked for last.
LEMMA WishFollows == DecisionInv => StateIsLastWish
<1> SUFFICES ASSUME DecisionInv, NEW c \in Candidates, NEW f \in Families
             PROVE  /\ InForce(log, c, f) = wish[c][f]
                    /\ Cardinality(ActiveSets(log, c, f)) <= 1
  BY DEF StateIsLastWish
<1>1. InForce(log, c, f) = wish[c][f]
  <2>1. wish[c][f] \in BOOLEAN
    BY DEF DecisionInv, TypeOK
  <2>2. InForce(log, c, f) <=> wish[c][f] = TRUE
    BY DEF DecisionInv, WishInForce
  <2>3. InForce(log, c, f) \in BOOLEAN
    BY DEF InForce
  <2> QED BY <2>1, <2>2, <2>3
<1>2. CASE ActiveSets(log, c, f) = {}
  BY <1>1, <1>2, FS_EmptySet
<1>3. CASE ActiveSets(log, c, f) # {}
  <2>1. PICK i \in ActiveSets(log, c, f) : TRUE
    BY <1>3
  <2>2. ActiveSets(log, c, f) = {i}
    BY <2>1 DEF DecisionInv, OneInForce
  <2>3. Cardinality({i}) = 1 /\ 1 <= 1
    BY FS_Singleton
  <2> QED BY <1>1, <2>2, <2>3
<1> QED BY <1>2, <1>3

\* Where no two entries share a millisecond, both readers of the overrides of a version
\* see the one that was asked for last.
LEMMA OverrideFollows ==
  ASSUME DecisionInv, ~SameInstant, NEW a \in Version
  PROVE  OverrideState(log, a) = ruling[a] /\ AuditState(log, a) = ruling[a]
<1> DEFINE S == OverrideSets(log, a)
           T == AuditTrail(log, a)
<1>1. /\ TypeOK /\ InOrder /\ RulingFollows(a)
      /\ S \in SUBSET DOMAIN log /\ T \in SUBSET DOMAIN log /\ S \subseteq T
      /\ DOMAIN log = 1..Len(log) /\ Len(log) \in Nat
  BY DEF DecisionInv, RulingLogged, OverrideSets, AuditTrail, TypeOK
<1>2. CASE S = {}
  <2>1. T = {}
    BY <1>2 DEF AuditTrail
  <2>2. LatestOverrideSet(log, a) = 0
    BY <1>1, <1>2, LatestOverride
  <2>3. ruling[a] = "none"
    BY <1>1, <1>2 DEF RulingFollows
  <2> QED BY <2>1, <2>2, <2>3 DEF OverrideState, AuditState
<1>3. CASE S # {}
  <2> DEFINE i == LatestOverrideSet(log, a)
  <2>1. i # 0 /\ i \in S /\ LastOf(S, i) /\ i \in DOMAIN log /\ i \in Nat
    BY <1>1, <1>3, LatestOverride
  <2>2. LastOverrideRules(a, i)
    BY <1>1, <2>1 DEF RulingFollows
  <2>3. OverrideState(log, a) = IF log[i].by # 0 THEN "none" ELSE log[i].value
    BY <2>1 DEF OverrideState
  <2> HIDE DEF i
  <2>4. OverrideState(log, a) = ruling[a]
    BY <2>2, <2>3 DEF LastOverrideRules
  <2>5. T # {} /\ i \in T
    BY <1>1, <2>1
  <2>6. PICK t \in T : LastOf(T, t)
    <3> HIDE DEF S, T
    <3> QED BY <1>1, <2>5, LastExists
  <2>7. Newest(log, T) = t
    <3> HIDE DEF S, T
    <3> QED BY <1>1, <2>6, NewestIsLast
  <2>8. AuditState(log, a) = IF log[t].kind = "set" THEN log[t].value ELSE "none"
    BY <2>5, <2>7 DEF AuditState
  <2>9. t \in DOMAIN log /\ t \in Nat /\ i <= t
    <3> HIDE DEF S, T
    <3> QED BY <1>1, <2>5, <2>6 DEF LastOf
  <2>10. CASE log[i].by = 0
    <3>1. t = i
      <4> SUFFICES ASSUME t # i PROVE FALSE
        OBVIOUS
      <4>1. t > i
        BY <2>1, <2>9
      <4>2. t \notin S
        BY <2>1, <2>9, <4>1 DEF LastOf
      <4>3. log[t].kind = "revert" /\ log[t].target \in S
        BY <2>6, <4>2 DEF AuditTrail
      <4> QED BY <2>2, <2>9, <2>10, <4>1, <4>3 DEF LastOverrideRules
    <3>2. log[i].kind = "set"
      BY <2>1 DEF OverrideSets
    <3> QED BY <2>2, <2>4, <2>8, <2>10, <3>1, <3>2 DEF LastOverrideRules
  <2>11. CASE log[i].by # 0
    <3> DEFINE r == log[i].by
    <3>1. r \in DOMAIN log /\ r > i /\ log[r].kind = "revert" /\ log[r].target = i
      BY <1>1, <2>1, <2>11 DEF TypeOK, RevertsMatch
    <3> HIDE DEF r
    <3>2. Newer(log, r, i)
      <4>1. log[i].at < log[r].at /\ log[i].at \in Nat /\ log[r].at \in Nat
        BY <1>1, <2>1, <3>1, LogFields DEF InOrder, Later
      <4> QED BY <4>1 DEF Newer
    <3>3. r \in T
      BY <2>1, <3>1, <3>2 DEF AuditTrail
    <3>4. r <= t
      BY <2>6, <3>3 DEF LastOf
    <3>5. t > i
      BY <1>1, <2>1, <2>9, <3>1, <3>4
    <3>6. t \notin S
      BY <2>1, <2>9, <3>5 DEF LastOf
    <3>7. log[t].kind = "revert"
      BY <2>6, <3>6 DEF AuditTrail
    <3> QED BY <2>2, <2>4, <2>8, <2>11, <3>7 DEF LastOverrideRules
  <2> QED BY <2>4, <2>10, <2>11
<1> QED BY <1>2, <1>3

\* A set of a family is in force exactly while the user's last request for it stands, and
\* no two of a family are, whatever versions came between (actionState.ts:17-20); the
\* reverts and back-fills of the log match.
THEOREM StateFollowsRequests == Spec => [](TypeOK /\ StateIsLastWish)
<1>1. DecisionInv => TypeOK /\ StateIsLastWish
  BY WishFollows DEF DecisionInv
<1> QED BY <1>1, InitDecisions, NextDecisions, PTL DEF Spec

\* Where no two actions share a millisecond, the log says what was asked last of the
\* overrides too, to the projection and to the audit trail (ruleOverrideProjection.ts,
\* reviewService.ts).
THEOREM LogFollowsRequests == ASSUME ~SameInstant PROVE Spec => []LogIsLastWish
<1>1. DecisionInv => LogIsLastWish
  <2> SUFFICES ASSUME DecisionInv PROVE LogIsLastWish
    OBVIOUS
  <2>1. OverrideIsLastWish
    BY OverrideFollows DEF OverrideIsLastWish, Known
  <2> QED BY <2>1, WishFollows DEF LogIsLastWish, DecisionInv
<1> QED BY <1>1, InitDecisions, NextDecisions, PTL DEF Spec

-----------------------------------------------------------------------------
(* Recommendations.                                                         *)

\* The first of the seven gates that closes gives the reason.
LEMMA GatesInOrder ==
  ASSUME NEW v
  PROVE  BlockReasonFor(v) =
           IF AnalysisOf(v) = 0 /\ AnalysesOf(v) # {} THEN "stale_analysis"
           ELSE IF AnalysisOf(v) = 0 THEN "no_current_analysis"
           ELSE IF AnalysisOf(v) # 0 /\ VerdictOn(v) = "skip" THEN "skip_recommended"
           ELSE IF HasHardConstraintHit(v) THEN "hard_constraint_hit"
           ELSE IF IgnoredUnchanged(v) THEN "ignored_unchanged"
           ELSE IF AppliedPending(v) THEN "applied_pending"
           ELSE ""
<1> DEFINE b1 == ~(AnalysisOf(v) # 0) /\ AnalysesOf(v) # {}
           b2 == ~(AnalysisOf(v) # 0)
           b3 == AnalysisOf(v) # 0 /\ VerdictOn(v) = "skip"
           b4 == HasHardConstraintHit(v)
           b5 == IgnoredUnchanged(v)
           b6 == AppliedPending(v)
           gates == << <<b1, "stale_analysis">>, <<b2, "no_current_analysis">>,
                       <<b3, "skip_recommended">>, <<b4, "hard_constraint_hit">>,
                       <<b5, "ignored_unchanged">>, <<b6, "applied_pending">>, <<TRUE, "">> >>
           K == {k \in DOMAIN gates : gates[k][1]}
<1>1. BlockReasonFor(v) = gates[Min(K)][2]
  BY DEF BlockReasonFor
<1>2. DOMAIN gates = 1..7
  OBVIOUS
<1>3. /\ (gates[1][1] <=> b1) /\ (gates[2][1] <=> b2) /\ (gates[3][1] <=> b3)
      /\ (gates[4][1] <=> b4) /\ (gates[5][1] <=> b5) /\ (gates[6][1] <=> b6)
      /\ gates[7][1]
  <2> HIDE DEF b1, b2, b3, b4, b5, b6
  <2> QED OBVIOUS
<1>4. /\ gates[1][2] = "stale_analysis" /\ gates[2][2] = "no_current_analysis"
       /\ gates[3][2] = "skip_recommended" /\ gates[4][2] = "hard_constraint_hit"
       /\ gates[5][2] = "ignored_unchanged" /\ gates[6][2] = "applied_pending"
       /\ gates[7][2] = ""
  <2> HIDE DEF b1, b2, b3, b4, b5, b6
  <2> QED OBVIOUS
<1> HIDE DEF b1, b2, b3, b4, b5, b6
<1> HIDE DEF gates
<1>5. 7 \in K /\ K \in SUBSET Nat
  <2>1. gates[7][1]
    BY <1>3
  <2>2. 7 \in DOMAIN gates /\ DOMAIN gates \in SUBSET Nat
    BY <1>2
  <2> QED BY <2>1, <2>2
<1>6. PICK n \in K : \A m \in K : n <= m
  <2> HIDE DEF K
  <2> QED BY <1>5, LeastNatural
<1>7. Min(K) \in K /\ \A m \in K : Min(K) <= m
  <2> HIDE DEF K
  <2> QED BY <1>6 DEF Min
<1> DEFINE j == Min(K)
<1>8. j \in 1..7 /\ gates[j][1] /\ \A m \in 1..7 : gates[m][1] => j <= m
  BY <1>2, <1>7
<1> HIDE DEF j
<1>9. \/ j = 1 /\ b1
      \/ j = 2 /\ b2 /\ ~b1
      \/ j = 3 /\ b3 /\ ~b1 /\ ~b2
      \/ j = 4 /\ b4 /\ ~b1 /\ ~b2 /\ ~b3
      \/ j = 5 /\ b5 /\ ~b1 /\ ~b2 /\ ~b3 /\ ~b4
      \/ j = 6 /\ b6 /\ ~b1 /\ ~b2 /\ ~b3 /\ ~b4 /\ ~b5
      \/ j = 7 /\ ~b1 /\ ~b2 /\ ~b3 /\ ~b4 /\ ~b5 /\ ~b6
  BY <1>3, <1>8
<1>10. gates[j][2] = IF b1 THEN "stale_analysis" ELSE IF b2 THEN "no_current_analysis"
                    ELSE IF b3 THEN "skip_recommended" ELSE IF b4 THEN "hard_constraint_hit"
                    ELSE IF b5 THEN "ignored_unchanged" ELSE IF b6 THEN "applied_pending" ELSE ""
  BY <1>4, <1>9
<1>11. BlockReasonFor(v) = gates[j][2]
  BY <1>1 DEF j
<1> QED BY <1>10, <1>11 DEF b1, b2, b3, b4, b5, b6

\* The analysis that answers for a version is one of it, at the version and context now
\* active.
LEMMA AnalysisAnswers ==
  ASSUME TypeOK, NEW v
  PROVE  /\ AnalysisOf(v) \in 0..Len(records)
         /\ AnalysisOf(v) # 0 =>
              /\ AnalysisOf(v) \in DOMAIN records
              /\ records[AnalysisOf(v)].version = v
              /\ v = ActiveVersion(v[1])
              /\ records[AnalysisOf(v)].context = context
              /\ records[AnalysisOf(v)].verdict \in Verdicts
<1>1. records \in Seq(Record) /\ Len(records) \in Nat /\ DOMAIN records = 1..Len(records)
  BY DEF TypeOK
<1>2. CASE CurrentAnalyses(v) = {}
  BY <1>1, <1>2 DEF AnalysisOf
<1>3. CASE CurrentAnalyses(v) # {}
  <2> DEFINE m == Max(CurrentAnalyses(v))
  <2>1. CurrentAnalyses(v) \in SUBSET (1..Len(records))
    BY <1>1 DEF CurrentAnalyses, AnalysesOf
  <2>2. m \in CurrentAnalyses(v)
    BY <1>1, <1>3, <2>1, LastExists
  <2>3. AnalysisOf(v) = m
    BY <1>3 DEF AnalysisOf
  <2> HIDE DEF m
  <2>4. m \in DOMAIN records /\ records[m].version = v /\ IsCurrent(records[m])
    BY <2>2 DEF CurrentAnalyses, AnalysesOf
  <2>5. records[m] \in Record
    BY <1>1, <2>4
  <2> QED BY <1>1, <2>3, <2>4, <2>5 DEF IsCurrent, Record
<1> QED BY <1>2, <1>3

\* The reason is read off the identity, which names the analysis that answers.
LEMMA ReasonIsByIdentity ==
  ASSUME NEW v
  PROVE  BlockReasonFor(v) = ReasonOf(AnalysisIdentity(v))
<1> DEFINE some == AnalysisOf(v) # 0
           stale == AnalysesOf(v) # {}
           skip == VerdictOn(v) = "skip"
<1>1. BlockReasonFor(v) =
        IF AnalysisOf(v) = 0 /\ stale THEN "stale_analysis"
        ELSE IF AnalysisOf(v) = 0 THEN "no_current_analysis"
        ELSE IF some /\ skip THEN "skip_recommended"
        ELSE IF HasHardConstraintHit(v) THEN "hard_constraint_hit"
        ELSE IF IgnoredUnchanged(v) THEN "ignored_unchanged"
        ELSE IF AppliedPending(v) THEN "applied_pending"
        ELSE ""
  BY GatesInOrder
<1> DEFINE id == AnalysisIdentity(v)
<1>2. CASE some
  <2>1. /\ id.analysis = AnalysisOf(v)
        /\ id.hit = HasHardConstraintHit(v)
        /\ id.ignored = IgnoredUnchanged(v) /\ id.applied = AppliedPending(v)
    BY <1>2 DEF AnalysisIdentity
  <2> HIDE DEF id
  <2>2. ReasonOf(id) = BlockReasonFor(v)
    BY <1>1, <1>2, <2>1 DEF ReasonOf, VerdictOn
  <2> QED BY <2>2 DEF id
<1>3. CASE ~some
  <2>1. id.analysis = 0 /\ id.stale = stale
    BY <1>3 DEF AnalysisIdentity
  <2> HIDE DEF id
  <2>2. ReasonOf(id) = BlockReasonFor(v)
    BY <1>1, <1>3, <2>1 DEF ReasonOf
  <2> QED BY <2>2 DEF id
<1> QED BY <1>2, <1>3

LEMMA IdentityNames ==
  ASSUME NEW v
  PROVE  AnalysisIdentity(v).analysis = AnalysisOf(v)
BY DEF AnalysisIdentity

\* The set of a scope is what the identities of its versions call for.
LEMMA SetByIdentity ==
  ASSUME NEW scope
  PROVE  RecommendationSet(scope) = SetBy(IdentitiesOf(scope))
<1> DEFINE ids == IdentitiesOf(scope)
           E == Eligible(scope)
           K == E \ Duplicates(E)
<1>1. DOMAIN ids = scope /\ \A v \in scope : ids[v] = AnalysisIdentity(v)
  BY DEF IdentitiesOf
<1> HIDE DEF ids
<1>2. ASSUME NEW v \in scope
      PROVE  /\ ids[v].analysis = AnalysisOf(v) /\ ReasonOf(ids[v]) = BlockReasonFor(v)
             /\ VerdictBy(ids, v) = VerdictOn(v)
  <2>1. ids[v].analysis = AnalysisOf(v)
    BY <1>1, IdentityNames
  <2>2. ReasonOf(ids[v]) = BlockReasonFor(v)
    BY <1>1, ReasonIsByIdentity
  <2> QED BY <2>1, <2>2 DEF VerdictBy, VerdictOn
<1>3. \A v, w \in scope : BetterBy(ids, v, w) <=> Better(v, w)
  BY <1>2 DEF BetterBy, Better
<1>4. EligibleBy(ids) = E /\ E \subseteq scope
  BY <1>1, <1>2 DEF EligibleBy, Eligible
<1> HIDE DEF E
<1>5. KeptBy(ids) = K /\ K \subseteq E
  BY <1>3, <1>4 DEF KeptBy, Duplicates
<1> HIDE DEF K
<1>6. ASSUME NEW v \in scope
      PROVE  PlaceBy(ids, v) = Place(v, K)
  <2>1. {w \in KeptBy(ids) : BetterBy(ids, w, v)} = {w \in K : Better(w, v)}
    BY <1>3, <1>4, <1>5
  <2> QED BY <2>1 DEF PlaceBy, Place
<1>7. OverflowBy(ids) = Overflow(K) /\ Overflow(K) \subseteq K
  BY <1>4, <1>5, <1>6 DEF OverflowBy, Overflow
<1> DEFINE r == Ranked(scope)
<1>8. r.scope = scope /\ r.eligible = E /\ r.kept = K /\ r.overflow = Overflow(K)
  BY DEF Ranked, E, K
<1>9. RecommendationSet(scope) =
        [recommendations |-> Recommendations(r), blocked |-> Blocked(r),
         emptyReason |-> EmptyReason(r)]
  BY DEF RecommendationSet
<1> HIDE DEF r
<1>10. Recommendations(r) =
        {[version |-> v, kind |-> VerdictBy(ids, v), analysis |-> ids[v].analysis,
          priority |-> PlaceBy(ids, v)] : v \in KeptBy(ids) \ OverflowBy(ids)}
  <2> DEFINE old(v) == [version |-> v, kind |-> VerdictOn(v), analysis |-> AnalysisOf(v),
                        priority |-> Place(v, K)]
             new(v) == [version |-> v, kind |-> VerdictBy(ids, v),
                        analysis |-> ids[v].analysis, priority |-> PlaceBy(ids, v)]
  <2>1. \A v \in K : old(v) = new(v)
    BY <1>2, <1>4, <1>5, <1>6
  <2>2. Recommendations(r) = {old(v) : v \in K \ Overflow(K)}
    BY <1>8 DEF Recommendations
  <2> HIDE DEF old, new
  <2>3. {old(v) : v \in K \ Overflow(K)} = {new(v) : v \in K \ Overflow(K)}
    BY <2>1
  <2> QED BY <1>5, <1>7, <2>2, <2>3 DEF new
<1>11. Blocked(r) =
        {[version |-> v, reason |-> ReasonOf(ids[v])] : v \in DOMAIN ids \ EligibleBy(ids)} \cup
        {[version |-> v, reason |-> "duplicate_candidate"] : v \in EligibleBy(ids) \ KeptBy(ids)} \cup
        {[version |-> v, reason |-> "capacity_exceeded"] : v \in OverflowBy(ids)}
  <2> DEFINE old(v) == [version |-> v, reason |-> BlockReasonFor(v)]
             new(v) == [version |-> v, reason |-> ReasonOf(ids[v])]
  <2>1. \A v \in scope : old(v) = new(v)
    BY <1>2
  <2>2. Blocked(r) =
        {old(v) : v \in scope \ E} \cup
        {[version |-> v, reason |-> "duplicate_candidate"] : v \in E \ K} \cup
        {[version |-> v, reason |-> "capacity_exceeded"] : v \in Overflow(K)}
    BY <1>8 DEF Blocked
  <2> HIDE DEF old, new
  <2>3. {old(v) : v \in scope \ E} = {new(v) : v \in scope \ E}
    BY <2>1
  <2> QED BY <1>1, <1>4, <1>5, <1>7, <2>2, <2>3 DEF new
<1>12. EmptyReason(r) =
        IF KeptBy(ids) \ OverflowBy(ids) # {} THEN ""
        ELSE IF \E v \in DOMAIN ids : ids[v].analysis # 0 THEN "all_candidates_excluded"
        ELSE "no_current_successful_analysis"
  <2>1. (\E v \in DOMAIN ids : ids[v].analysis # 0) <=> \E v \in scope : AnalysisOf(v) # 0
    BY <1>1, <1>2
  <2> QED BY <1>5, <1>7, <1>8, <2>1 DEF EmptyReason
<1> QED BY <1>9, <1>10, <1>11, <1>12 DEF SetBy, ids

\* What was written stays: a set called for by identities that name written analyses does
\* not change when more is written.
LEMMA SetStands ==
  ASSUME NEW ids, \A v \in DOMAIN ids : ids[v].analysis \in 0..Len(records),
         records \in Seq(Record), records' \in Seq(Record), Len(records) <= Len(records'),
         \A i \in DOMAIN records : records'[i] = records[i]
  PROVE  /\ SetBy(ids)' = SetBy(ids)
         /\ \A v \in DOMAIN ids : ids[v].analysis \in 0..Len(records')
<1>0. Len(records) \in Nat /\ Len(records') \in Nat /\ DOMAIN records = 1..Len(records)
  OBVIOUS
<1>1. ASSUME NEW v \in DOMAIN ids
      PROVE  /\ ids[v].analysis \in 0..Len(records')
             /\ ids[v].analysis # 0 => VerdictBy(ids, v)' = VerdictBy(ids, v)
             /\ ReasonOf(ids[v])' = ReasonOf(ids[v])
  <2>1. ids[v].analysis \in 0..Len(records')
    BY <1>0
  <2>2. ids[v].analysis # 0 => records'[ids[v].analysis] = records[ids[v].analysis]
    BY <1>0
  <2> QED BY <2>1, <2>2 DEF VerdictBy, ReasonOf
<1>2. EligibleBy(ids)' = EligibleBy(ids)
  BY <1>1 DEF EligibleBy
<1>3. ASSUME NEW v \in EligibleBy(ids)
      PROVE  v \in DOMAIN ids /\ VerdictBy(ids, v)' = VerdictBy(ids, v)
  <2>1. v \in DOMAIN ids /\ ReasonOf(ids[v]) = ""
    BY DEF EligibleBy
  <2>2. ids[v].analysis # 0
    BY <2>1 DEF ReasonOf
  <2> QED BY <1>1, <2>1, <2>2
<1>4. \A v, w \in EligibleBy(ids) : BetterBy(ids, v, w)' <=> BetterBy(ids, v, w)
  BY <1>3 DEF BetterBy
<1>5. KeptBy(ids)' = KeptBy(ids) /\ KeptBy(ids) \subseteq EligibleBy(ids)
  BY <1>2, <1>4 DEF KeptBy
<1>6. ASSUME NEW v \in KeptBy(ids)
      PROVE  PlaceBy(ids, v)' = PlaceBy(ids, v)
  <2>1. {w \in KeptBy(ids)' : BetterBy(ids, w, v)'} = {w \in KeptBy(ids) : BetterBy(ids, w, v)}
    BY <1>4, <1>5
  <2> QED BY <2>1 DEF PlaceBy
<1>7. OverflowBy(ids)' = OverflowBy(ids) /\ OverflowBy(ids) \subseteq KeptBy(ids)
  BY <1>5, <1>6 DEF OverflowBy
<1> DEFINE rec(v) == [version |-> v, kind |-> VerdictBy(ids, v), analysis |-> ids[v].analysis,
                      priority |-> PlaceBy(ids, v)]
           rea(v) == [version |-> v, reason |-> ReasonOf(ids[v])]
<1>8. ASSUME NEW v \in KeptBy(ids)
      PROVE  rec(v)' = rec(v)
  BY <1>3, <1>5, <1>6
<1>9. \A v \in DOMAIN ids : rea(v)' = rea(v)
  BY <1>1
<1> HIDE DEF rec, rea
<1>10. {rec(v)' : v \in (KeptBy(ids) \ OverflowBy(ids))'} =
       {rec(v) : v \in KeptBy(ids) \ OverflowBy(ids)}
  BY <1>5, <1>7, <1>8
<1>11. {rea(v)' : v \in (DOMAIN ids \ EligibleBy(ids))'} =
       {rea(v) : v \in DOMAIN ids \ EligibleBy(ids)}
  BY <1>2, <1>9
<1>12. SetBy(ids)' = SetBy(ids)
  BY <1>2, <1>5, <1>7, <1>10, <1>11 DEF SetBy, rec, rea
<1> QED BY <1>1, <1>12

\* A batch is stored with the set its key calls for, and what it names stays written.
LEMMA BatchesStand ==
  ASSUME TypeOK, TypeOK', BatchesFollowKeys, Len(records) <= Len(records'),
         \A i \in DOMAIN records : records'[i] = records[i],
         NEW b \in batches
  PROVE  BatchFollowsKey(b)'
<1>1. /\ b.set = SetBy(b.key.identity)
      /\ \A v \in DOMAIN b.key.identity : b.key.identity[v].analysis \in 0..Len(records)
  BY DEF BatchesFollowKeys, BatchFollowsKey
<1> DEFINE ids == b.key.identity
<1> HIDE DEF ids
<1>2. PICK held : held = ids
  OBVIOUS
<1>3. records \in Seq(Record) /\ records' \in Seq(Record)
  BY DEF TypeOK
<1>4. \A v \in DOMAIN held : held[v].analysis \in 0..Len(records)
  BY <1>1, <1>2 DEF ids
<1>5. /\ SetBy(held)' = SetBy(held)
      /\ \A v \in DOMAIN held : held[v].analysis \in 0..Len(records')
  BY <1>3, <1>4, SetStands
<1> QED BY <1>1, <1>2, <1>5 DEF BatchFollowsKey, ids

BatchInv == DecisionInv /\ BatchesFollowKeys

LEMMA NextBatches == BatchInv /\ [Next]_vars => BatchInv'
<1> SUFFICES ASSUME BatchInv, [Next]_vars PROVE BatchInv'
  OBVIOUS
<1>1. DecisionInv /\ DecisionInv' /\ BatchesFollowKeys
  BY NextDecisions DEF BatchInv
<1>2. TypeOK /\ TypeOK' /\ records \in Seq(Record)
  BY <1>1 DEF DecisionInv, TypeOK
<1>3. CASE UNCHANGED <<records, batches>>
  <2>1. Len(records) <= Len(records') /\ \A i \in DOMAIN records : records'[i] = records[i]
    BY <1>2, <1>3
  <2>2. \A b \in batches : BatchFollowsKey(b)'
    BY <1>1, <1>2, <2>1, BatchesStand
  <2> QED BY <1>1, <1>3, <2>2 DEF BatchInv, BatchesFollowKeys
<1>4. CASE \E pair \in met, verdict \in Verdicts : RecordAnalysis(pair, verdict)
  <2>1. PICK pair \in met, verdict \in Verdicts : RecordAnalysis(pair, verdict)
    BY <1>4
  <2> DEFINE r == [version |-> pair[1], context |-> pair[2], verdict |-> verdict]
  <2>2. records' = Append(records, r) /\ batches' = batches
    BY <2>1 DEF RecordAnalysis
  <2>3. r \in Record
    BY <1>2 DEF TypeOK, Record
  <2> HIDE DEF r
  <2>4. Len(records) <= Len(records') /\ \A i \in DOMAIN records : records'[i] = records[i]
    BY <1>2, <2>2, <2>3
  <2>5. \A b \in batches : BatchFollowsKey(b)'
    BY <1>1, <1>2, <2>4, BatchesStand
  <2> QED BY <1>1, <2>2, <2>5 DEF BatchInv, BatchesFollowKeys
<1>5. CASE \E scope \in Scopes : CreateBatch(scope)
  <2>1. PICK scope \in Scopes : CreateBatch(scope)
    BY <1>5
  <2> DEFINE stored == [key |-> BatchKey(scope), set |-> RecommendationSet(scope),
                        context |-> context]
             ids == IdentitiesOf(scope)
  <2>2. batches' = batches \cup {stored} /\ records' = records
    BY <2>1 DEF CreateBatch, Answer
  <2>3. Len(records) <= Len(records') /\ \A i \in DOMAIN records : records'[i] = records[i]
    BY <1>2, <2>2
  <2>4. \A b \in batches : BatchFollowsKey(b)'
    BY <1>1, <1>2, <2>3, BatchesStand
  <2>5. stored.set = SetBy(ids) /\ stored.key.identity = ids
    BY SetByIdentity DEF BatchKey, IdentitiesOf
  <2>6. \A v \in DOMAIN ids : ids[v].analysis \in 0..Len(records)
    <3>1. DOMAIN ids = scope /\ \A v \in scope : ids[v] = AnalysisIdentity(v)
      BY DEF IdentitiesOf
    <3> QED BY <1>2, <3>1, IdentityNames, AnalysisAnswers
  <2>7. PICK new, held : new = stored /\ held = ids
    OBVIOUS
  <2>8. /\ SetBy(held)' = SetBy(held)
        /\ \A v \in DOMAIN held : held[v].analysis \in 0..Len(records')
    <3> HIDE DEF ids
    <3>1. records \in Seq(Record) /\ records' \in Seq(Record)
      BY <1>2 DEF TypeOK
    <3>2. \A v \in DOMAIN held : held[v].analysis \in 0..Len(records)
      BY <2>6, <2>7
    <3> QED BY <2>3, <3>1, <3>2, SetStands
  <2> HIDE DEF stored, ids
  <2>9. BatchFollowsKey(new)'
    BY <2>5, <2>7, <2>8 DEF BatchFollowsKey
  <2>10. \A b \in batches' : b \in batches \/ b = new
    BY <2>2, <2>7
  <2> QED BY <1>1, <2>4, <2>9, <2>10 DEF BatchInv, BatchesFollowKeys
<1> QED BY <1>3, <1>4, <1>5
        DEF Next, vars, MaterialChange, ActivateContext, Decide, ApplySet, ApplyRevert, Ask,
            SetRuleOverride, RevertRuleOverride

\* A key that is the key of a request's scope was stored with the request's set.
LEMMA StoredIsComputed ==
  ASSUME BatchInv, NEW scope, NEW b \in batches, b.key = BatchKey(scope)
  PROVE  b.set = RecommendationSet(scope)
<1>1. b.set = SetBy(b.key.identity)
  BY DEF BatchInv, BatchesFollowKeys, BatchFollowsKey
<1>2. b.key.identity = IdentitiesOf(scope)
  BY DEF BatchKey, IdentitiesOf
<1> QED BY <1>1, <1>2, SetByIdentity

LEMMA AnswerIsComputed ==
  ASSUME BatchInv, NEW scope
  PROVE  Answer(scope).set = SetBy(IdentitiesOf(scope))
<1>1. CASE WithKey(BatchKey(scope)) = {}
  BY <1>1, SetByIdentity DEF Answer
<1>2. CASE WithKey(BatchKey(scope)) # {}
  <2>1. Answer(scope) \in WithKey(BatchKey(scope))
    BY <1>2 DEF Answer
  <2>2. Answer(scope) \in batches /\ Answer(scope).key = BatchKey(scope)
    BY <2>1 DEF WithKey
  <2> HIDE DEF BatchInv
  <2> QED BY <2>2, StoredIsComputed, SetByIdentity
<1> QED BY <1>1, <1>2

\* Every version of a scope is one of a candidate, and every set is made of the scope.
LEMMA DecisionsFollow == BatchInv => DecisionsHonoured
<1> SUFFICES ASSUME BatchInv, NEW scope \in Scopes
             PROVE  LET set == Answer(scope).set
                    IN  /\ \A r \in set.recommendations :
                             /\ r.version = ActiveVersion(r.version[1])
                             /\ records[r.analysis].version = r.version
                             /\ records[r.analysis].context = context
                        /\ \A v \in RecommendedBy(set) : ~wish[v[1]]["appliedPending"]
                        /\ \A b \in set.blocked :
                             b.reason = "ignored_unchanged" => b.version \in dismissed
  BY DEF DecisionsHonoured
<1> DEFINE ids == IdentitiesOf(scope)
           set == Answer(scope).set
<1>1. set = SetBy(ids)
  BY AnswerIsComputed
<1>2. DecisionInv /\ TypeOK
  BY DEF BatchInv, DecisionInv
<1>3. DOMAIN ids = scope /\ \A v \in scope : ids[v] = AnalysisIdentity(v) /\ v \in Version
  BY DEF IdentitiesOf, Scopes, Known
<1> HIDE DEF ids, set
<1>4. \A v \in scope : /\ ids[v].analysis = AnalysisOf(v)
                       /\ ReasonOf(ids[v]) = BlockReasonFor(v)
  BY <1>3, IdentityNames, ReasonIsByIdentity
<1>5. ASSUME NEW v \in KeptBy(ids)
      PROVE  /\ v \in scope /\ ids[v].analysis = AnalysisOf(v)
             /\ v = ActiveVersion(v[1])
             /\ records[AnalysisOf(v)].version = v
             /\ records[AnalysisOf(v)].context = context
             /\ ~wish[v[1]]["appliedPending"]
  <2>1. v \in scope /\ BlockReasonFor(v) = "" /\ v \in Version
    BY <1>3, <1>4 DEF KeptBy, EligibleBy
  <2>2. AnalysisOf(v) # 0 /\ ~AppliedPending(v)
    BY <2>1, GatesInOrder
  <2>3. v[1] \in Candidates
    BY <2>1, VersionParts
  <2>4. ~InForce(log, v[1], "appliedPending")
    BY <2>2 DEF AppliedPending
  <2>5. wish[v[1]]["appliedPending"] \in BOOLEAN
    BY <1>2, <2>3, DecisionsAssumption DEF TypeOK
  <2>6. ~wish[v[1]]["appliedPending"]
    BY <1>2, <2>3, <2>4, <2>5, DecisionsAssumption DEF DecisionInv, WishInForce
  <2> QED BY <1>2, <1>4, <2>1, <2>2, <2>6, AnalysisAnswers
<1>6. ASSUME NEW r \in set.recommendations
      PROVE  r.version \in KeptBy(ids) /\ r.analysis = ids[r.version].analysis
  <2>1. set.recommendations =
          {[version |-> v, kind |-> VerdictBy(ids, v), analysis |-> ids[v].analysis,
            priority |-> PlaceBy(ids, v)] : v \in KeptBy(ids) \ OverflowBy(ids)}
    BY <1>1 DEF SetBy
  <2>2. PICK v \in KeptBy(ids) :
          r = [version |-> v, kind |-> VerdictBy(ids, v), analysis |-> ids[v].analysis,
               priority |-> PlaceBy(ids, v)]
    BY <2>1
  <2>3. r.version = v /\ r.analysis = ids[v].analysis
    BY <2>2
  <2> QED BY <2>3
<1>7. ASSUME NEW b \in set.blocked, b.reason = "ignored_unchanged"
      PROVE  b.version \in dismissed
  <2>1. b.version \in scope /\ ReasonOf(ids[b.version]) = "ignored_unchanged"
    <3>1. set.blocked =
            {[version |-> v, reason |-> ReasonOf(ids[v])] : v \in DOMAIN ids \ EligibleBy(ids)} \cup
            {[version |-> v, reason |-> "duplicate_candidate"] : v \in EligibleBy(ids) \ KeptBy(ids)} \cup
            {[version |-> v, reason |-> "capacity_exceeded"] : v \in OverflowBy(ids)}
      BY <1>1 DEF SetBy
    <3>2. \/ \E v \in DOMAIN ids : b = [version |-> v, reason |-> ReasonOf(ids[v])]
          \/ b.reason = "duplicate_candidate"
          \/ b.reason = "capacity_exceeded"
      BY <3>1
    <3>3. PICK v \in DOMAIN ids : b = [version |-> v, reason |-> ReasonOf(ids[v])]
      BY <1>7, <3>2
    <3>4. b.version = v /\ b.reason = ReasonOf(ids[v])
      BY <3>3
    <3> QED BY <1>3, <1>7, <3>4
  <2>2. IgnoredUnchanged(b.version)
    BY <1>4, <2>1, GatesInOrder
  <2>3. b.version[1] \in Candidates
    BY <1>3, <2>1, VersionParts
  <2> QED BY <1>2, <2>2, <2>3 DEF IgnoredUnchanged, DecisionInv, IgnoredWereDismissed
<1>8. \A r \in set.recommendations :
        /\ r.version = ActiveVersion(r.version[1])
        /\ records[r.analysis].version = r.version
        /\ records[r.analysis].context = context
  BY <1>5, <1>6
<1>9. \A v \in RecommendedBy(set) : ~wish[v[1]]["appliedPending"]
  BY <1>5, <1>6 DEF RecommendedBy
<1> QED BY <1>7, <1>8, <1>9 DEF set

LEMMA InitBatches == Init => BatchInv
BY InitDecisions DEF Init, BatchInv, BatchesFollowKeys

\* A request answered with a stored batch gets what it would get if it were computed again,
\* however the candidates, the context and the log moved in between.
THEOREM ReuseIsSafe == Spec => []ReuseIsFresh
<1>1. BatchInv => ReuseIsFresh
  BY StoredIsComputed DEF ReuseIsFresh
<1> QED BY <1>1, InitBatches, NextBatches, PTL DEF Spec

\* What the user decided holds in every answer, computed or reused: nothing applied is
\* recommended, nothing is suppressed as ignored that was not, and what is recommended was
\* analysed at the version and context now active.
THEOREM AnswersHonourDecisions == Spec => []DecisionsHonoured
BY InitBatches, NextBatches, DecisionsFollow, PTL DEF Spec

-----------------------------------------------------------------------------
(* A scope is accounted for.                                                *)

\* Named apart, the elements of a finite set are counted by their names.
LEMMA NamedApart ==
  ASSUME NEW S, IsFiniteSet(S), NEW f, DOMAIN f = S,
         \A x, y \in S : f[x] = f[y] => x = y
  PROVE  /\ IsFiniteSet({f[x] : x \in S})
         /\ Cardinality({f[x] : x \in S}) = Cardinality(S)
<1> DEFINE T == {f[x] : x \in S}
           g == [x \in S |-> f[x]]
<1>1. g \in Bijection(S, T)
  BY DEF Bijection, Injection, Surjection, IsInjective
<1>2. ExistsBijection(S, T)
  BY <1>1 DEF ExistsBijection
<1> HIDE DEF T
<1> QED BY <1>2, FS_Bijection DEF T

Below(K, R, v) == {w \in K : <<w, v>> \in R}
PlaceIn(K, R, v) == 1 + Cardinality(Below(K, R, v))

StrictOrderOn(K, R) ==
  /\ \A v \in K : <<v, v>> \notin R
  /\ \A u, v, w \in K : <<u, v>> \in R /\ <<v, w>> \in R => <<u, w>> \in R
  /\ \A v, w \in K : v = w \/ <<v, w>> \in R \/ <<w, v>> \in R

\* In a strict order a place is a number from 1 to the count, and what comes later has a
\* later place.
LEMMA PlaceType ==
  ASSUME NEW K, IsFiniteSet(K), NEW R, StrictOrderOn(K, R), NEW v \in K
  PROVE  /\ Cardinality(K) \in Nat /\ PlaceIn(K, R, v) \in 1..Cardinality(K)
         /\ IsFiniteSet(Below(K, R, v)) /\ Cardinality(Below(K, R, v)) \in Nat
<1>1. Below(K, R, v) \in SUBSET (K \ {v})
  BY DEF Below, StrictOrderOn
<1>2. IsFiniteSet(K \ {v}) /\ Cardinality(K \ {v}) = Cardinality(K) - 1
  BY FS_RemoveElement
<1>3. IsFiniteSet(Below(K, R, v)) /\ Cardinality(Below(K, R, v)) <= Cardinality(K \ {v})
  BY <1>1, <1>2, FS_Subset
<1>4. Cardinality(K) \in Nat /\ Cardinality(Below(K, R, v)) \in Nat
  BY <1>3, FS_CardinalityType
<1> QED BY <1>2, <1>3, <1>4 DEF PlaceIn

LEMMA PlaceGrows ==
  ASSUME NEW K, IsFiniteSet(K), NEW R, StrictOrderOn(K, R),
         NEW v \in K, NEW w \in K, <<v, w>> \in R
  PROVE  PlaceIn(K, R, v) < PlaceIn(K, R, w)
<1>1. Below(K, R, v) \in SUBSET Below(K, R, w)
  BY DEF Below, StrictOrderOn
<1>2. v \in Below(K, R, w) /\ v \notin Below(K, R, v)
  BY DEF Below, StrictOrderOn
<1>3. /\ IsFiniteSet(Below(K, R, w)) /\ Cardinality(Below(K, R, w)) \in Nat
      /\ Cardinality(Below(K, R, v)) \in Nat
  BY PlaceType
<1>4. /\ Cardinality(Below(K, R, v)) <= Cardinality(Below(K, R, w))
      /\ Cardinality(Below(K, R, v)) # Cardinality(Below(K, R, w))
  BY <1>1, <1>2, <1>3, FS_Subset
<1> QED BY <1>3, <1>4 DEF PlaceIn

LEMMA PlacesDiffer ==
  ASSUME NEW K, IsFiniteSet(K), NEW R, StrictOrderOn(K, R),
         NEW v \in K, NEW w \in K, PlaceIn(K, R, v) = PlaceIn(K, R, w)
  PROVE  v = w
<1>1. PlaceIn(K, R, v) \in Nat /\ PlaceIn(K, R, w) \in Nat
  BY PlaceType
<1>2. CASE <<v, w>> \in R
  BY <1>1, <1>2, PlaceGrows
<1>3. CASE <<w, v>> \in R
  BY <1>1, <1>3, PlaceGrows
<1> QED BY <1>2, <1>3 DEF StrictOrderOn

\* Every number up to the count is the place of one element.
LEMMA PlacesAreTaken ==
  ASSUME NEW K, IsFiniteSet(K), NEW R, StrictOrderOn(K, R)
  PROVE  {PlaceIn(K, R, v) : v \in K} = 1..Cardinality(K)
<1> DEFINE n == Cardinality(K)
           f == [v \in K |-> PlaceIn(K, R, v)]
<1>1. n \in Nat
  BY FS_CardinalityType
<1>2. \A v \in K : PlaceIn(K, R, v) \in 1..n
  BY PlaceType
<1>3. \A v, w \in K : PlaceIn(K, R, v) = PlaceIn(K, R, w) => v = w
  BY PlacesDiffer
<1> HIDE DEF n
<1>4. f \in Injection(K, 1..n)
  BY <1>2, <1>3 DEF Injection, IsInjective
<1>5. IsFiniteSet(1..n) /\ Cardinality(1..n) = n
  BY <1>1, FS_Interval
<1>6. f \in Surjection(K, 1..n)
  <2>1. Cardinality(K) = Cardinality(1..n)
    BY <1>5 DEF n
  <2> HIDE DEF f
  <2> QED BY <1>4, <1>5, <2>1, FS_Injection
<1>7. \A p \in 1..n : \E v \in K : PlaceIn(K, R, v) = p
  BY <1>6 DEF Surjection
<1> QED BY <1>2, <1>7 DEF n

FirstPlaces(K, R, limit) == {v \in K : PlaceIn(K, R, v) <= limit}

\* The places up to a limit are taken by as many elements as there are such places.
LEMMA FirstPlacesAreTaken ==
  ASSUME NEW K, IsFiniteSet(K), NEW R, StrictOrderOn(K, R), NEW limit \in Nat
  PROVE  {PlaceIn(K, R, v) : v \in FirstPlaces(K, R, limit)} =
           1..Cardinality(FirstPlaces(K, R, limit))
<1> DEFINE n == Cardinality(K)
           first == {v \in K : PlaceIn(K, R, v) <= limit}
           f == [v \in first |-> PlaceIn(K, R, v)]
<1>1. n \in Nat /\ {PlaceIn(K, R, v) : v \in K} = 1..n
  BY FS_CardinalityType, PlacesAreTaken
<1>2. PICK m \in Nat : m <= n /\ m <= limit /\ \A p \in 1..n : p <= limit => p <= m
  <2> HIDE DEF n
  <2>1. CASE n <= limit
    BY <1>1, <2>1
  <2>2. CASE limit <= n
    BY <1>1, <2>2
  <2> QED BY <1>1, <2>1, <2>2
<1>3. {PlaceIn(K, R, v) : v \in first} = 1..m
  BY <1>1, <1>2
<1>4. first \in SUBSET K
  OBVIOUS
<1>5. IsFiniteSet(first)
  BY <1>4, FS_Subset
<1>6. \A v, w \in first : f[v] = f[w] => v = w
  BY <1>4, PlacesDiffer
<1>7. Cardinality({f[v] : v \in first}) = Cardinality(first)
  <2> HIDE DEF first
  <2>1. DOMAIN f = first
    OBVIOUS
  <2> HIDE DEF f
  <2> QED BY <1>5, <1>6, <2>1, NamedApart
<1>8. {f[v] : v \in first} = 1..m
  BY <1>3
<1>9. Cardinality(1..m) = m
  BY FS_Interval
<1> QED BY <1>3, <1>7, <1>8, <1>9 DEF FirstPlaces

\* A database holds finitely many versions.
LEMMA VersionsAreFinite == IsFiniteSet(Version)
<1> DEFINE f == [c \in Candidates |-> {c} \X (1..MaxVersion[c])]
           T == {f[c] : c \in Candidates}
<1>1. f \in Surjection(Candidates, T)
  BY DEF Surjection
<1>2. IsFiniteSet(T)
  <2> HIDE DEF f, T
  <2> QED BY <1>1, DecisionsAssumption, FS_Surjection
<1>3. ASSUME NEW t \in T
      PROVE  IsFiniteSet(t)
  <2>1. PICK c \in Candidates : t = {c} \X (1..MaxVersion[c])
    OBVIOUS
  <2>2. MaxVersion[c] \in Nat
    BY DecisionsAssumption
  <2>3. IsFiniteSet({c})
    BY FS_Singleton
  <2>4. IsFiniteSet(1..MaxVersion[c])
    BY <2>2, FS_Interval
  <2> QED BY <2>1, <2>3, <2>4, FS_Product
<1>4. Version = UNION T
  BY DEF Version
<1> HIDE DEF T
<1> QED BY <1>2, <1>3, <1>4, FS_UNION

LEMMA ScopeIsFinite ==
  ASSUME NEW scope \in Scopes
  PROVE  scope \in SUBSET Version /\ IsFiniteSet(scope)
<1>1. scope \in SUBSET Version
  BY DEF Scopes, Known
<1> QED BY <1>1, VersionsAreFinite, FS_Subset

\* A version that is let through has a verdict that ranks.
LEMMA EligibleRanks ==
  ASSUME TypeOK, NEW v, BlockReasonFor(v) = ""
  PROVE  KindRank[VerdictOn(v)] \in Nat
<1>1. AnalysisOf(v) # 0 /\ VerdictOn(v) # "skip"
  BY GatesInOrder
<1>2. VerdictOn(v) \in Verdicts
  BY <1>1, AnalysisAnswers DEF VerdictOn
<1>3. VerdictOn(v) \in {"apply_now", "stretch", "verify"}
  BY <1>1, <1>2, DecisionsAssumption
<1>4. \A k \in {"apply_now", "stretch", "verify"} : KindRank[k] \in Nat
  <2>1. KindRank \in [apply_now : Nat, stretch : Nat, verify : Nat]
    BY DEF KindRank
  <2>2. KindRank.apply_now \in Nat /\ KindRank.stretch \in Nat /\ KindRank.verify \in Nat
    BY <2>1
  <2> QED BY <2>2
<1> QED BY <1>3, <1>4

OrderOn(K) == {p \in K \X K : Better(p[1], p[2])}

\* Kind, then candidate, then version is a strict order of the versions let through.
LEMMA BetterOrders ==
  ASSUME NEW K \in SUBSET Version, \A v \in K : KindRank[VerdictOn(v)] \in Nat
  PROVE  /\ StrictOrderOn(K, OrderOn(K))
         /\ \A v \in K : Place(v, K) = PlaceIn(K, OrderOn(K), v)
<1>1. \A v \in K : /\ v[1] \in Nat /\ v[2] \in Nat /\ v = <<v[1], v[2]>>
                   /\ KindRank[VerdictOn(v)] \in Nat
  BY VersionParts, CandidatesAssumption
<1>2. \A v, w \in K : <<v, w>> \in OrderOn(K) <=> Better(v, w)
  BY DEF OrderOn
<1>3. \A v \in K : ~Better(v, v)
  BY <1>1 DEF Better
<1>4. \A u, v, w \in K : Better(u, v) /\ Better(v, w) => Better(u, w)
  <2> SUFFICES ASSUME NEW u \in K, NEW v \in K, NEW w \in K, Better(u, v), Better(v, w)
               PROVE  Better(u, w)
    OBVIOUS
  <2> QED BY <1>1 DEF Better
<1>5. \A v, w \in K : v = w \/ Better(v, w) \/ Better(w, v)
  <2> SUFFICES ASSUME NEW v \in K, NEW w \in K, ~Better(v, w), ~Better(w, v)
               PROVE  v = w
    OBVIOUS
  <2>1. v[1] = w[1] /\ v[2] = w[2]
    BY <1>1 DEF Better
  <2> QED BY <1>1, <2>1
<1>6. \A v \in K : {w \in K : Better(w, v)} = Below(K, OrderOn(K), v)
  BY <1>2 DEF Below
<1> QED BY <1>2, <1>3, <1>4, <1>5, <1>6 DEF StrictOrderOn, Place, PlaceIn

\* What a scope is split into.
LEMMA ScopeSplits ==
  ASSUME TypeOK, NEW scope \in Scopes
  PROVE  LET r == Ranked(scope) IN
         /\ r.scope = scope /\ r.eligible = Eligible(scope)
         /\ r.kept \subseteq r.eligible /\ r.eligible \subseteq scope
         /\ r.overflow = {v \in r.kept : Place(v, r.kept) > MaxRecommendations}
         /\ r.kept \in SUBSET Version /\ IsFiniteSet(r.kept)
         /\ \A v \in r.kept : KindRank[VerdictOn(v)] \in Nat
<1> DEFINE r == Ranked(scope)
           kept == Eligible(scope) \ Duplicates(Eligible(scope))
<1>1. r.scope = scope /\ r.eligible = Eligible(scope) /\ r.kept = kept /\ r.overflow = Overflow(kept)
  BY DEF Ranked
<1>2. Eligible(scope) \in SUBSET scope /\ kept \in SUBSET Eligible(scope)
  BY DEF Eligible
<1>3. kept \in SUBSET Version /\ kept \in SUBSET scope /\ IsFiniteSet(scope)
  BY <1>2, ScopeIsFinite
<1>4. IsFiniteSet(kept)
  <2> HIDE DEF kept
  <2> QED BY <1>3, FS_Subset
<1>5. ASSUME NEW v \in kept
      PROVE  KindRank[VerdictOn(v)] \in Nat
  <2>1. BlockReasonFor(v) = ""
    BY <1>2 DEF Eligible
  <2> QED BY <2>1, EligibleRanks
<1>6. Overflow(kept) = {v \in kept : Place(v, kept) > MaxRecommendations}
  BY DEF Overflow
<1> HIDE DEF kept, r
<1> QED BY <1>1, <1>2, <1>3, <1>4, <1>5, <1>6 DEF r

\* Each version is recommended or blocked with one reason; the recommended take the first
\* places, and what capacity leaves out is of no better kind.
LEMMA ScopeAccounts ==
  ASSUME TypeOK, NEW scope \in Scopes
  PROVE  LET set == RecommendationSet(scope)
             named == RecommendedBy(set)
         IN  /\ named \cup {b.version : b \in set.blocked} = scope
             /\ Cardinality(set.recommendations) + Cardinality(set.blocked) = Cardinality(scope)
             /\ {r.priority : r \in set.recommendations} = 1..Cardinality(named)
             /\ \A b \in set.blocked : b.reason = "capacity_exceeded" =>
                  \A v \in named : KindRank[VerdictOn(v)] <= KindRank[VerdictOn(b.version)]
<1> DEFINE r == Ranked(scope)
           E == r.eligible
           K == r.kept
           O == r.overflow
           set == RecommendationSet(scope)
           first == K \ O
           rest == scope \ first
<1>1. /\ r.scope = scope /\ E = Eligible(scope) /\ K \subseteq E /\ E \subseteq scope
      /\ O = {v \in K : Place(v, K) > MaxRecommendations}
      /\ K \in SUBSET Version /\ IsFiniteSet(K)
      /\ \A v \in K : KindRank[VerdictOn(v)] \in Nat
  BY ScopeSplits
<1>2. set.recommendations = Recommendations(r) /\ set.blocked = Blocked(r)
  BY DEF RecommendationSet
<1> HIDE DEF set
<1> DEFINE rec == [v \in first |-> [version |-> v, kind |-> VerdictOn(v),
                                    analysis |-> AnalysisOf(v), priority |-> Place(v, K)]]
           why(v) == IF v \in E THEN IF v \in K THEN "capacity_exceeded"
                                     ELSE "duplicate_candidate"
                     ELSE BlockReasonFor(v)
           blk == [v \in rest |-> [version |-> v, reason |-> why(v)]]
<1>3. set.recommendations = {rec[v] : v \in first}
  BY <1>2 DEF Recommendations
<1>4. set.blocked = {blk[v] : v \in rest}
  <2>1. set.blocked =
          {[version |-> v, reason |-> BlockReasonFor(v)] : v \in scope \ E} \cup
          {[version |-> v, reason |-> "duplicate_candidate"] : v \in E \ K} \cup
          {[version |-> v, reason |-> "capacity_exceeded"] : v \in O}
    BY <1>1, <1>2 DEF Blocked
  <2>2. rest = (scope \ E) \cup (E \ K) \cup O
    BY <1>1
  <2>3. O \subseteq K
    BY <1>1
  <2>4. /\ \A v \in scope \ E : v \in rest /\ blk[v] = [version |-> v, reason |-> BlockReasonFor(v)]
        /\ \A v \in E \ K : v \in rest /\ blk[v] = [version |-> v, reason |-> "duplicate_candidate"]
        /\ \A v \in O : v \in rest /\ blk[v] = [version |-> v, reason |-> "capacity_exceeded"]
    BY <1>1, <2>2, <2>3
  <2> HIDE DEF blk, rest
  <2>5. /\ {blk[v] : v \in scope \ E} = {[version |-> v, reason |-> BlockReasonFor(v)] : v \in scope \ E}
        /\ {blk[v] : v \in E \ K} = {[version |-> v, reason |-> "duplicate_candidate"] : v \in E \ K}
        /\ {blk[v] : v \in O} = {[version |-> v, reason |-> "capacity_exceeded"] : v \in O}
    BY <2>4
  <2>6. {blk[v] : v \in rest} = {blk[v] : v \in scope \ E} \cup {blk[v] : v \in E \ K} \cup {blk[v] : v \in O}
    BY <2>2
  <2> QED BY <2>1, <2>5, <2>6
<1>5. /\ DOMAIN rec = first /\ DOMAIN blk = rest
      /\ \A v \in first : rec[v].version = v /\ rec[v].priority = Place(v, K)
      /\ \A v \in rest : blk[v].version = v /\ (blk[v].reason = "capacity_exceeded" => v \in K)
  <2>1. ASSUME NEW v \in rest, v \notin E
        PROVE  BlockReasonFor(v) # "capacity_exceeded"
    BY GatesInOrder
  <2> QED BY <1>1, <2>1
<1> HIDE DEF rec, blk
<1>6. RecommendedBy(set) = first
  BY <1>3, <1>5 DEF RecommendedBy
<1>7. {b.version : b \in set.blocked} = rest
  BY <1>4, <1>5
<1>8. IsFiniteSet(scope) /\ first \in SUBSET scope /\ rest \in SUBSET scope
  BY <1>1, ScopeIsFinite
<1> HIDE DEF K, O, E, r
<1>9. first \cup rest = scope /\ first \cap rest = {}
  BY <1>8
<1>10. Cardinality(set.recommendations) + Cardinality(set.blocked) = Cardinality(scope)
  <2> HIDE DEF first, rest
  <2>1. IsFiniteSet(first) /\ IsFiniteSet(rest)
    BY <1>8, FS_Subset
  <2>2. \A v, w \in first : rec[v] = rec[w] => v = w
    BY <1>5
  <2>3. Cardinality(set.recommendations) = Cardinality(first)
    BY <1>3, <1>5, <2>1, <2>2, NamedApart
  <2>4. \A v, w \in rest : blk[v] = blk[w] => v = w
    BY <1>5
  <2>5. Cardinality(set.blocked) = Cardinality(rest)
    BY <1>4, <1>5, <2>1, <2>4, NamedApart
  <2>6. Cardinality(first \cup rest) = Cardinality(first) + Cardinality(rest) - Cardinality(first \cap rest)
    BY <2>1, FS_Union
  <2>7. Cardinality(first) \in Nat /\ Cardinality(rest) \in Nat
    BY <2>1, FS_CardinalityType
  <2>8. Cardinality(first \cup rest) = Cardinality(scope)
    BY <1>9
  <2>9. Cardinality(first \cap rest) = 0
    BY <1>9, FS_EmptySet
  <2> QED BY <2>3, <2>5, <2>6, <2>7, <2>8, <2>9
<1> DEFINE R == OrderOn(K)
<1>11. StrictOrderOn(K, R) /\ \A v \in K : Place(v, K) = PlaceIn(K, R, v)
  BY <1>1, BetterOrders DEF K
<1>12. IsFiniteSet(K) /\ MaxRecommendations \in Nat /\ \A v \in K : PlaceIn(K, R, v) \in Nat
  <2>1. IsFiniteSet(K)
    BY <1>1
  <2> HIDE DEF R
  <2> QED BY <1>11, <2>1, PlaceType, DecisionsAssumption
<1> HIDE DEF R
<1>13. /\ first = FirstPlaces(K, R, MaxRecommendations)
       /\ \A v \in K : v \in first <=> PlaceIn(K, R, v) <= MaxRecommendations
  BY <1>1, <1>11, <1>12 DEF FirstPlaces
<1>14. {PlaceIn(K, R, v) : v \in first} = 1..Cardinality(first)
  <2> HIDE DEF first
  <2>1. {PlaceIn(K, R, v) : v \in FirstPlaces(K, R, MaxRecommendations)} =
          1..Cardinality(FirstPlaces(K, R, MaxRecommendations))
    BY <1>11, <1>12, FirstPlacesAreTaken
  <2> QED BY <1>13, <2>1
<1>15. {x.priority : x \in set.recommendations} = {PlaceIn(K, R, v) : v \in first}
  <2>1. \A v \in first : rec[v].priority = PlaceIn(K, R, v)
    BY <1>5, <1>11
  <2>2. {x.priority : x \in set.recommendations} = {rec[v].priority : v \in first}
    BY <1>3
  <2> HIDE DEF first
  <2> QED BY <2>1, <2>2
<1>16. ASSUME NEW b \in set.blocked, b.reason = "capacity_exceeded", NEW v \in first
       PROVE  KindRank[VerdictOn(v)] <= KindRank[VerdictOn(b.version)]
  <2>1. b.version \in K /\ b.version \in rest
    BY <1>4, <1>5, <1>16
  <2> DEFINE w == b.version
  <2>2. ~(PlaceIn(K, R, w) <= MaxRecommendations) /\ w \in K
    BY <1>13, <2>1
  <2>3. PlaceIn(K, R, v) <= MaxRecommendations /\ v \in K
    BY <1>13
  <2>4. <<w, v>> \notin R
    <3> SUFFICES ASSUME <<w, v>> \in R PROVE FALSE
      OBVIOUS
    <3>1. PlaceIn(K, R, w) < PlaceIn(K, R, v)
      BY <1>11, <1>12, <2>2, <2>3, PlaceGrows
    <3> QED BY <1>12, <2>2, <2>3, <3>1
  <2>5. ~Better(w, v)
    BY <2>2, <2>3, <2>4 DEF R, OrderOn
  <2>6. KindRank[VerdictOn(w)] \in Nat /\ KindRank[VerdictOn(v)] \in Nat
    BY <1>1, <2>2, <2>3
  <2> QED BY <2>5, <2>6 DEF Better
<1> HIDE DEF first, rest
<1> QED BY <1>6, <1>7, <1>9, <1>10, <1>14, <1>15, <1>16 DEF set

\* Every version a request names is accounted for, whatever the scope and the history.
THEOREM ScopesAreAccounted == Spec => []ScopeIsAccounted
<1>1. DecisionInv => ScopeIsAccounted
  BY ScopeAccounts DEF ScopeIsAccounted, DecisionInv
<1> QED BY <1>1, InitDecisions, NextDecisions, PTL DEF Spec

-----------------------------------------------------------------------------
(* The log only grows.                                                      *)

GrowsOnly(old, new) ==
  /\ Len(old) <= Len(new)
  /\ \A i \in DOMAIN old :
       new[i] = old[i] \/ (old[i].by = 0 /\ new[i] = [old[i] EXCEPT !.by = new[i].by])

LEMMA AdditionGrows ==
  ASSUME NEW old \in Seq(Entry(Version)), NEW new, NEW e, NEW i, AddsTo(old, new, e, i)
  PROVE  GrowsOnly(old, new)
<1>1. Len(old) <= Len(new)
  BY DEF AddsTo
<1>2. ASSUME NEW k \in DOMAIN old
      PROVE  new[k] = old[k] \/ (old[k].by = 0 /\ new[k] = [old[k] EXCEPT !.by = new[k].by])
  <2>1. CASE k = i /\ old[k].by = 0
    <3> DEFINE n == Len(old) + 1
    <3>0. n \in Nat /\ old[k] \in Entry(Version)
      OBVIOUS
    <3>1. new[k] = WithdrawnBy(old[k], n)
      BY <2>1 DEF AddsTo
    <3> HIDE DEF n
    <3>2. new[k].by = n
      BY <3>0, <3>1, WithdrawnType
    <3> QED BY <2>1, <3>1, <3>2 DEF WithdrawnBy
  <2>2. CASE ~(k = i /\ old[k].by = 0)
    BY <2>2 DEF AddsTo
  <2> QED BY <2>1, <2>2
<1> QED BY <1>1, <1>2 DEF GrowsOnly

LEMMA NextGrows == DecisionInv /\ [Next]_vars => GrowsOnly(log, log')
<1> SUFFICES ASSUME DecisionInv, [Next]_vars PROVE GrowsOnly(log, log')
  OBVIOUS
<1>1. TypeOK /\ log \in Seq(Entry(Version))
  BY DEF DecisionInv, TypeOK
<1>2. CASE log' = log
  BY <1>1, <1>2 DEF GrowsOnly
<1>3. CASE Decide
  <2>1. PICK stamp \in Stamps(log) :
          \/ \E c \in Candidates, f \in Families : ApplySet(c, f, stamp) \/ ApplyRevert(c, f, stamp)
          \/ \E a \in HitVersions \cap Known :
               \/ \E value \in {"pass", "block"} : SetRuleOverride(a, value, stamp)
               \/ RevertRuleOverride(a, stamp)
    BY <1>3 DEF Decide
  <2>2. ASSUME NEW c \in Candidates, NEW f \in Families, ApplySet(c, f, stamp)
        PROVE  GrowsOnly(log, log')
    <3>1. f \in ActionFamilies \cup {"override"} /\ ActiveVersion(c) \in Version
      BY <1>1, ActiveVersionType, DecisionsAssumption
    <3>2. AddsTo(log, Insert(log, "set", f, ActiveVersion(c), "", 0, stamp),
                 Insertion("set", f, ActiveVersion(c), "", 0, stamp), 0)
      BY <1>1, <3>1, InsertAdds
    <3> QED BY <1>1, <1>2, <2>2, <3>2, AdditionGrows DEF ApplySet
  <2>3. ASSUME NEW c \in Candidates, NEW f \in Families, ApplyRevert(c, f, stamp), log' # log
        PROVE  GrowsOnly(log, log')
    <3> DEFINE i == Newest(log, ActiveSets(log, c, f))
    <3>1. ActiveSets(log, c, f) # {} /\ log' = Withdraw(log, i, stamp)
      BY <2>3 DEF ApplyRevert, InForce
    <3>2. PICK k \in ActiveSets(log, c, f) : ActiveSets(log, c, f) = {k}
      BY <3>1 DEF DecisionInv, OneInForce
    <3>3. i = k /\ k \in DOMAIN log
      BY <3>2, NewestOfOne DEF ActiveSets
    <3>4. AddsTo(log, Withdraw(log, k, stamp),
                 Insertion("revert", log[k].family, log[k].version, "", k, stamp), k)
      BY <1>1, <3>3, WithdrawAdds
    <3> HIDE DEF i
    <3> QED BY <1>1, <3>1, <3>3, <3>4, AdditionGrows
  <2>4. ASSUME NEW a \in HitVersions \cap Known, NEW value \in {"pass", "block"},
               SetRuleOverride(a, value, stamp)
        PROVE  GrowsOnly(log, log')
    <3>1. a \in Version
      BY DEF Known
    <3>2. AddsTo(log, Insert(log, "set", "override", a, value, 0, stamp),
                 Insertion("set", "override", a, value, 0, stamp), 0)
      BY <1>1, <3>1, InsertAdds
    <3> QED BY <1>1, <2>4, <3>2, AdditionGrows DEF SetRuleOverride
  <2>5. ASSUME NEW a \in HitVersions \cap Known, RevertRuleOverride(a, stamp)
        PROVE  GrowsOnly(log, log')
    <3> DEFINE i == LatestOverrideSet(log, a)
    <3>1. i # 0 /\ log' = Withdraw(log, i, stamp)
      BY <2>5 DEF RevertRuleOverride
    <3>2. i \in DOMAIN log
      BY <1>1, <3>1, LatestOverride DEF DecisionInv, OverrideSets
    <3>3. PICK k \in DOMAIN log : k = i
      BY <3>2
    <3>4. AddsTo(log, Withdraw(log, k, stamp),
                 Insertion("revert", log[k].family, log[k].version, "", k, stamp), k)
      BY <1>1, WithdrawAdds
    <3> HIDE DEF i
    <3> QED BY <1>1, <3>1, <3>3, <3>4, AdditionGrows
  <2> QED BY <1>2, <2>1, <2>2, <2>3, <2>4, <2>5
<1> QED BY <1>2, <1>3
        DEF Next, vars, MaterialChange, ActivateContext, RecordAnalysis, CreateBatch

\* Nothing in the log of actions is removed, reordered or rewritten, but that a set is told
\* once which revert withdrew it (actionRepository.ts:14-17).
THEOREM NothingIsRewritten == Spec => LogOnlyGrows
<1>1. DecisionInv /\ [Next]_vars =>
        [/\ Len(log) <= Len(log')
         /\ \A i \in DOMAIN log :
              log'[i] = log[i] \/ (log[i].by = 0 /\ log'[i] = [log[i] EXCEPT !.by = log'[i].by])]_vars
  BY NextGrows DEF GrowsOnly
<1> QED BY <1>1, InitDecisions, NextDecisions, PTL DEF Spec, LogOnlyGrows

-----------------------------------------------------------------------------
(* The inductive invariant.  A window shows a relation that is still        *)
(* stored: a ruling on one that is not would bring it back in either order. *)

SeenExists ==
  /\ DOMAIN seen = Windows
  /\ \A w \in Windows : seen[w] # None => Has(seen[w].pair)

ReviewInv == ReviewTypeOK /\ SeenExists

-----------------------------------------------------------------------------
(* The operators.                                                           *)

\* Two candidates have one pair, the smaller of them first (normalizeCandidatePair).
LEMMA PairIsOrdered ==
  ASSUME NEW a \in Candidates, NEW b \in Candidates, a # b
  PROVE  LET p == NormalizeCandidatePair(a, b)
         IN  /\ p \in Pairs
             /\ p[1] < p[2]
             /\ p = NormalizeCandidatePair(b, a)
  BY CandidatesAssumption DEF NormalizeCandidatePair, Pairs

\* The next entry of a log gets an instant and a rank (occurred_at, id).
LEMMA RulingStampType ==
  ASSUME ReviewTypeOK, NEW stamp \in Stamps(trail)
  PROVE  stamp.at \in Nat /\ stamp.rank \in 0..2
<1>1. Instant(trail) \in Nat
  <2>1. CASE trail = << >>
    BY <2>1 DEF Instant
  <2>2. CASE trail # << >>
    <3>1. trail[Len(trail)] \in Ruling
      BY <2>2 DEF ReviewTypeOK
    <3>2. trail[Len(trail)].at \in Nat
      BY <3>1 DEF Ruling
    <3> QED BY <2>2, <3>2 DEF Instant
  <2> QED BY <2>1, <2>2
<1> QED BY <1>1 DEF Stamps

\* A trail is typed when its last entry is (appendAction only appends).
LEMMA TrailGrows ==
  ASSUME ReviewTypeOK, NEW entry \in Ruling
  PROVE  /\ Append(trail, entry) \in Seq(Ruling)
         /\ Len(Append(trail, entry)) = Len(trail) + 1
         /\ Len(trail) + 1 \in Nat
         /\ \A i \in DOMAIN Append(trail, entry) :
              Append(trail, entry)[i] = IF i = Len(trail) + 1 THEN entry ELSE trail[i]
         /\ \A i \in DOMAIN Append(trail, entry) : i = Len(trail) + 1 \/ i \in DOMAIN trail
         /\ Append(trail, entry)[Len(trail) + 1] = entry
BY DEF ReviewTypeOK

-----------------------------------------------------------------------------
(* The steps.                                                               *)

\* A pair registered for the first time touches no other relation and no event.
LEMMA RegisterKeeps ==
  ASSUME ReviewInv, NEW a \in Candidates, NEW b \in Candidates,
         RegisterSuspectedDuplicate(a, b)
  PROVE  /\ ReviewInv'
         /\ \A p \in Pairs : relations[p] # None => relations'[p] = relations[p]
<1> DEFINE p    == NormalizeCandidatePair(a, b)
           new  == [status |-> "suspected_duplicate", resolved |-> FALSE, action |-> 0]
<1>1. p \in Pairs /\ p[1] < p[2]
  BY PairIsOrdered DEF RegisterSuspectedDuplicate
<1>2. new \in Relation /\ new # None
  <2>1. new \in Relation
    BY DEF Relation, Statuses
  <2> HIDE DEF new
  <2> QED BY <2>1, NoneAssumption
<1> HIDE DEF new
<1>3. relations[p] = None /\ relations' = [relations EXCEPT ![p] = new] /\ trail' = trail /\ seen' = seen
  BY DEF RegisterSuspectedDuplicate, new
<1> HIDE DEF p
<1>4. \A q \in Pairs : relations'[q] = IF q = p THEN new ELSE relations[q]
  BY <1>3 DEF ReviewInv, ReviewTypeOK
<1>5. ReviewTypeOK'
  <2>1. relations' \in [Pairs -> Relation \cup {None}]
    BY <1>1, <1>2, <1>3 DEF ReviewInv, ReviewTypeOK
  <2>2. \A q \in Pairs : relations'[q] # None => q[1] < q[2]
    BY <1>1, <1>4 DEF ReviewInv, ReviewTypeOK, Has
  <2> QED BY <2>1, <2>2, <1>3 DEF ReviewInv, ReviewTypeOK, Has
<1>6. SeenExists'
  BY <1>2, <1>3, <1>4 DEF ReviewInv, ReviewTypeOK, SeenExists, Has
<1> QED BY <1>3, <1>4, <1>5, <1>6 DEF ReviewInv

\* A window opens on a relation that is there.
LEMMA OpenKeeps ==
  ASSUME ReviewInv, NEW w \in Windows, NEW p \in Pairs, Open(w, p)
  PROVE  ReviewInv' /\ relations' = relations
<1> DEFINE shown == [pair |-> p, status |-> relations[p].status]
<1>1. shown \in [pair : Pairs, status : Statuses] /\ shown.pair = p /\ Has(p)
  BY DEF Open, ReviewInv, ReviewTypeOK, Relation, Has
<1> HIDE DEF shown
<1>2. seen' = [seen EXCEPT ![w] = shown] /\ relations' = relations /\ trail' = trail
  BY DEF Open, shown
<1>3. \A v \in Windows : seen'[v] = IF v = w THEN shown ELSE seen[v]
  BY <1>2 DEF ReviewInv, SeenExists
<1>4. ReviewTypeOK'
  BY <1>1, <1>2, <1>3 DEF ReviewInv, ReviewTypeOK, Has
<1>5. SeenExists'
  BY <1>1, <1>2, <1>3 DEF ReviewInv, SeenExists, Has
<1> QED BY <1>2, <1>4, <1>5 DEF ReviewInv

\* A ruling that passed its guard replaces the status its window shows, and says so.
LEMMA RulingKeeps ==
  ASSUME ReviewInv, NEW w \in Windows, NEW stamp \in Stamps(trail),
         NEW status \in Statuses, GuardRelation(w), AppendRuling(w, status, stamp)
  PROVE  /\ ReviewInv'
         /\ \A q \in Pairs : relations'[q] # relations[q] =>
              /\ Len(trail') = Len(trail) + 1
              /\ trail'[Len(trail')].pair = q
              /\ trail'[Len(trail')].previous = relations[q].status
<1> DEFINE p     == seen[w].pair
           entry == [pair |-> p, previous |-> relations[p].status, result |-> status,
                     at |-> stamp.at, rank |-> stamp.rank]
           new   == [status |-> status, action |-> Len(trail) + 1,
                     resolved |-> status \in Decided]
<1>1. /\ p \in Pairs /\ Has(p) /\ seen[w] \in [pair : Pairs, status : Statuses]
      /\ relations[p].status = seen[w].status /\ seen[w].status \in Statuses
  BY DEF GuardRelation, ReviewInv, ReviewTypeOK, SeenExists
<1>2. entry \in Ruling
  BY <1>1, RulingStampType DEF ReviewInv, Ruling
<1>3. new \in Relation /\ new # None
  <2>1. Len(trail) + 1 \in Nat
    BY DEF ReviewInv, ReviewTypeOK
  <2>2. (status \in Decided) \in BOOLEAN
    OBVIOUS
  <2>3. new \in Relation
    BY <2>1, <2>2 DEF Relation
  <2> HIDE DEF new
  <2> QED BY <2>3, NoneAssumption
<1>4. /\ trail' = Append(trail, entry)
      /\ relations' = [relations EXCEPT ![p] = new]
      /\ seen' = [seen EXCEPT ![w].status = status]
  BY DEF AppendRuling
<1>5. entry.pair = p /\ entry.previous = relations[p].status
  OBVIOUS
<1> HIDE DEF entry, new
<1>6. \A q \in Pairs : relations'[q] = IF q = p THEN new ELSE relations[q]
  BY <1>1, <1>4 DEF ReviewInv, ReviewTypeOK
<1>7. /\ DOMAIN seen' = Windows
      /\ seen'[w] \in [pair : Pairs, status : Statuses] /\ seen'[w].pair = p
      /\ \A v \in Windows : v # w => seen'[v] = seen[v]
  BY <1>1, <1>4 DEF ReviewInv, SeenExists
<1>8. ReviewTypeOK'
  <2>1. relations' \in [Pairs -> Relation \cup {None}]
    BY <1>1, <1>3, <1>4 DEF ReviewInv, ReviewTypeOK
  <2>2. \A q \in Pairs : relations'[q] # None => q[1] < q[2]
    BY <1>1, <1>6 DEF ReviewInv, ReviewTypeOK, Has
  <2>3. trail' \in Seq(Ruling)
    BY <1>2, <1>4, TrailGrows DEF ReviewInv
  <2>4. \A v \in Windows : seen'[v] # None => seen'[v] \in [pair : Pairs, status : Statuses]
    BY <1>7 DEF ReviewInv, ReviewTypeOK
  <2> QED BY <2>1, <2>2, <2>3, <2>4 DEF ReviewTypeOK, Has
<1>9. SeenExists'
  BY <1>1, <1>3, <1>6, <1>7 DEF ReviewInv, ReviewTypeOK, SeenExists, Has
<1>11. /\ Len(trail') = Len(trail) + 1
       /\ trail'[Len(trail')] = entry
  BY <1>2, <1>4, TrailGrows DEF ReviewInv
<1>12. \A q \in Pairs : relations'[q] # relations[q] => q = p
  BY <1>6
<1> HIDE DEF p
<1> QED BY <1>5, <1>8, <1>9, <1>11, <1>12 DEF ReviewInv

-----------------------------------------------------------------------------
(* The theorems.                                                            *)

\* A relation that is there changes only by a ruling that names the status it leaves.
RulingNamesIt ==
  \A p \in Pairs : relations[p] # None /\ relations'[p] # relations[p] =>
    /\ Len(trail') = Len(trail) + 1
    /\ trail'[Len(trail')].pair = p
    /\ trail'[Len(trail')].previous = relations[p].status

LEMMA ReviewInitHolds == ReviewInit => ReviewInv
<1> SUFFICES ASSUME ReviewInit PROVE ReviewInv
  OBVIOUS
<1>1. ReviewTypeOK
  BY DEF ReviewInit, ReviewTypeOK, Has
<1>2. SeenExists
  BY DEF ReviewInit, SeenExists
<1> QED BY <1>1, <1>2 DEF ReviewInv

LEMMA ReviewNextHolds == ReviewInv /\ [ReviewNext]_reviewVars => ReviewInv' /\ RulingNamesIt
<1> SUFFICES ASSUME ReviewInv, [ReviewNext]_reviewVars PROVE ReviewInv' /\ RulingNamesIt
  OBVIOUS
<1>1. CASE UNCHANGED reviewVars
  BY <1>1 DEF reviewVars, ReviewInv, ReviewTypeOK, SeenExists, Has, RulingNamesIt
<1>2. CASE \E a, b \in Candidates : RegisterSuspectedDuplicate(a, b)
  BY <1>2, RegisterKeeps DEF RulingNamesIt
<1>3. ASSUME NEW w \in Windows, NEW p \in Pairs, Open(w, p)
      PROVE  ReviewInv' /\ RulingNamesIt
  BY <1>3, OpenKeeps DEF RulingNamesIt
<1>4. ASSUME NEW w \in Windows, NEW stamp \in Stamps(trail), Rule(w, stamp)
      PROVE  ReviewInv' /\ RulingNamesIt
  <2>1. PICK status \in Statuses : GuardRelation(w) /\ AppendRuling(w, status, stamp)
    BY <1>4 DEF Rule, Confirm, RevertDecision, RequestRecheck, Decided, Statuses
  <2> QED BY <2>1, RulingKeeps DEF RulingNamesIt
<1> QED BY <1>1, <1>2, <1>3, <1>4 DEF ReviewNext

\* No step, detection least of all, changes a stored relation without an audit event that
\* names the status it leaves (duplicateAdjudicationService.ts:51-57).
THEOREM DecisionsAreTheUsers == ReviewSpec => DecisionsStand
<1>1. ReviewInv /\ [ReviewNext]_reviewVars =>
        [\A p \in Pairs : relations[p] # None /\ relations'[p] # relations[p] =>
           /\ Len(trail') = Len(trail) + 1
           /\ trail'[Len(trail')].pair = p
           /\ trail'[Len(trail')].previous = relations[p].status]_reviewVars
  BY ReviewNextHolds DEF RulingNamesIt
<1> QED BY <1>1, ReviewInitHolds, ReviewNextHolds, PTL DEF ReviewSpec, DecisionsStand

-----------------------------------------------------------------------------
(* The timeline of a relation.                                              *)

\* The order of writing, of a finite set of positions, is the order of its sequence.
Ascending(S, s) ==
  /\ s \in [1..Cardinality(S) -> S]
  /\ \A i, j \in 1..Cardinality(S) : i < j => s[i] < s[j]

LEMMA AscendingExists ==
  ASSUME NEW S \in SUBSET Nat, IsFiniteSet(S)
  PROVE  \E s : Ascending(S, s)
<1> DEFINE R == {p \in S \X S : p[1] < p[2]}
           n == Cardinality(S)
           s == [k \in 1..n |-> CHOOSE i \in S : PlaceIn(S, R, i) = k]
<1>0. \A i \in S : i \in Nat
  OBVIOUS
<1>1. \A i, j \in S : <<i, j>> \in R <=> i < j
  OBVIOUS
<1> HIDE DEF R
<1>2. StrictOrderOn(S, R)
  BY <1>1 DEF StrictOrderOn
<1>3. {PlaceIn(S, R, i) : i \in S} = 1..n
  BY <1>2, PlacesAreTaken
<1>4. \A k \in 1..n : s[k] \in S /\ PlaceIn(S, R, s[k]) = k
  BY <1>3
<1> HIDE DEF n
<1>5. s \in [1..n -> S]
  BY <1>4
<1>6. ASSUME NEW i \in 1..n, NEW j \in 1..n, i < j
      PROVE  s[i] < s[j]
  <2>1. s[i] \in S /\ s[j] \in S /\ PlaceIn(S, R, s[i]) = i /\ PlaceIn(S, R, s[j]) = j
    BY <1>4
  <2> HIDE DEF s
  <2>2. s[i] # s[j]
    BY <1>6, <2>1
  <2>3. ~(s[j] < s[i])
    <3> SUFFICES ASSUME s[j] < s[i] PROVE FALSE
      OBVIOUS
    <3>1. <<s[j], s[i]>> \in R
      BY <1>1, <2>1
    <3>2. PlaceIn(S, R, s[j]) < PlaceIn(S, R, s[i])
      BY <1>2, <2>1, <3>1, PlaceGrows
    <3> QED BY <1>6, <2>1, <3>2
  <2>4. s[i] \in Nat /\ s[j] \in Nat
    BY <1>0, <2>1
  <2> QED BY <2>2, <2>3, <2>4
<1> HIDE DEF s
<1> QED BY <1>5, <1>6 DEF Ascending, n

\* Such a sequence has every element of the set in it.
LEMMA AscendingIsWhole ==
  ASSUME NEW S \in SUBSET Nat, IsFiniteSet(S), NEW s, Ascending(S, s)
  PROVE  /\ Cardinality(S) \in Nat /\ s \in Seq(S) /\ Len(s) = Cardinality(S)
         /\ \A i \in S : \E k \in 1..Cardinality(S) : s[k] = i
<1> DEFINE n == Cardinality(S)
<1>1. n \in Nat
  BY FS_CardinalityType
<1>2. s \in [1..n -> S] /\ \A i, j \in 1..n : i < j => s[i] < s[j]
  BY DEF Ascending
<1>3. IsFiniteSet(1..n) /\ Cardinality(1..n) = n
  BY <1>1, FS_Interval
<1>0. \A i \in S : i \in Nat
  OBVIOUS
<1>4. ASSUME NEW i \in 1..n, NEW j \in 1..n, s[i] = s[j]
      PROVE  i = j
  <2> HIDE DEF n
  <2>0. s[i] \in S /\ s[j] \in S
    BY <1>2
  <2>1. s[i] \in Nat /\ s[j] \in Nat
    BY <1>0, <2>0
  <2>2. i \in Nat /\ j \in Nat
    BY <1>1
  <2>3. ~(i < j) /\ ~(j < i)
    BY <1>2, <1>4, <2>1
  <2> QED BY <2>2, <2>3
<1>5. s \in Injection(1..n, S)
  BY <1>2, <1>4 DEF Injection, IsInjective
<1>6. s \in Surjection(1..n, S)
  BY <1>3, <1>5, FS_Injection
<1>7. \A i \in S : \E k \in 1..n : s[k] = i
  BY <1>6 DEF Surjection
<1>8. s \in Seq(S) /\ Len(s) = n
  <2> HIDE DEF n
  <2> QED BY <1>1, <1>2
<1> QED BY <1>1, <1>7, <1>8

-----------------------------------------------------------------------------
\* Where no two entries share a millisecond, the order of listing is that of writing.
TrailInOrder == \A i, j \in DOMAIN trail : i < j => trail[i].at < trail[j].at

\* The ruling before another on one relation, the first and the last one.
Precedes(S, k, i) == k \in S /\ k < i /\ \A j \in S : j <= k \/ i <= j
FirstOf(S, i) == i \in S /\ \A j \in S : i <= j

\* Each ruling replaces what the one before left, and the last one left the status.
RulingsChain(p) ==
  LET S == RulingsOn(p)
  IN  /\ \A i \in DOMAIN trail : FirstOf(S, i) => trail[i].previous = "suspected_duplicate"
      /\ \A i, k \in DOMAIN trail :
           i \in S /\ Precedes(S, k, i) => trail[i].previous = trail[k].result
      /\ \A i \in DOMAIN trail : LastOf(S, i) => Has(p) /\ relations[p].status = trail[i].result
      /\ S = {} /\ Has(p) => relations[p].status = "suspected_duplicate"

TrailInv ==
  /\ ReviewInv /\ (SameInstant \/ TrailInOrder)
  /\ \A p \in Pairs : RulingsChain(p)
  /\ Len(trail) <= MaxRulings

\* A ruling on the relation carries the chain on.
LEMMA RulingChains ==
  ASSUME ReviewInv, ReviewInv', NEW p \in Pairs, RulingsChain(p), NEW entry,
         trail' = Append(trail, entry), entry.pair = p,
         Has(p), Has(p)', entry.previous = relations[p].status, relations'[p].status = entry.result
  PROVE  RulingsChain(p)'
<1> DEFINE n == Len(trail) + 1
           S == RulingsOn(p)
<1>1. /\ trail \in Seq(Ruling) /\ n \in Nat /\ DOMAIN trail' = 1..n /\ DOMAIN trail = 1..Len(trail)
      /\ trail'[n] = entry /\ \A i \in DOMAIN trail : trail'[i] = trail[i] /\ i \in Nat /\ i < n
      /\ n \notin DOMAIN trail
      /\ \A i \in DOMAIN trail' : i = n \/ i \in DOMAIN trail
  BY DEF ReviewInv, ReviewTypeOK
<1>2. RulingsOn(p)' = S \cup {n} /\ S \subseteq DOMAIN trail
  BY <1>1 DEF RulingsOn
<1> HIDE DEF S, n
<1>3. ASSUME NEW i \in DOMAIN trail', FirstOf(S \cup {n}, i)
      PROVE  trail'[i].previous = "suspected_duplicate"
  <2>1. CASE i = n
    <3>1. S = {}
      BY <1>1, <1>2, <1>3, <2>1 DEF FirstOf
    <3> QED BY <1>1, <2>1, <3>1 DEF RulingsChain, S
  <2>2. CASE i # n
    <3>1. i \in DOMAIN trail /\ FirstOf(S, i)
      BY <1>1, <1>2, <1>3, <2>2 DEF FirstOf
    <3> QED BY <1>1, <3>1 DEF RulingsChain, S
  <2> QED BY <2>1, <2>2
<1>4. ASSUME NEW i \in DOMAIN trail', NEW k \in DOMAIN trail',
             i \in S \cup {n}, Precedes(S \cup {n}, k, i)
      PROVE  trail'[i].previous = trail'[k].result
  <2>1. k \in DOMAIN trail /\ k \in S
    BY <1>1, <1>2, <1>4 DEF Precedes
  <2>2. CASE i = n
    <3>1. LastOf(S, k)
      BY <1>1, <1>2, <1>4, <2>1, <2>2 DEF Precedes, LastOf
    <3> QED BY <1>1, <2>1, <2>2, <3>1 DEF RulingsChain, S
  <2>3. CASE i # n
    <3>1. i \in DOMAIN trail /\ i \in S /\ Precedes(S, k, i)
      BY <1>1, <1>2, <1>4, <2>1, <2>3 DEF Precedes
    <3> QED BY <1>1, <2>1, <3>1 DEF RulingsChain, S
  <2> QED BY <2>2, <2>3
<1>5. ASSUME NEW i \in DOMAIN trail', LastOf(S \cup {n}, i)
      PROVE  i = n
  <2>1. n <= i
    BY <1>5 DEF LastOf
  <2> QED BY <1>1, <2>1
<1>6. S \cup {n} # {}
  OBVIOUS
<1>7. PICK T : T = S \cup {n}
  OBVIOUS
<1>8. /\ \A i \in DOMAIN trail' : FirstOf(T, i) => trail'[i].previous = "suspected_duplicate"
      /\ \A i, k \in DOMAIN trail' :
           i \in T /\ Precedes(T, k, i) => trail'[i].previous = trail'[k].result
  BY <1>3, <1>4, <1>7
<1>9. /\ \A i \in DOMAIN trail' : LastOf(T, i) => Has(p)' /\ relations'[p].status = trail'[i].result
      /\ T = {} /\ Has(p)' => relations'[p].status = "suspected_duplicate"
  BY <1>1, <1>5, <1>6, <1>7
<1>10. RulingsOn(p)' = T
  BY <1>2, <1>7
<1> QED BY <1>8, <1>9, <1>10 DEF RulingsChain

\* A ruling on another relation, or a pair registered beside it, leaves the chain alone.
LEMMA OthersChain ==
  ASSUME ReviewInv, NEW p \in Pairs, RulingsChain(p),
         RulingsOn(p)' = RulingsOn(p), DOMAIN trail \subseteq DOMAIN trail',
         \A i \in DOMAIN trail : trail'[i] = trail[i],
         \/ relations'[p] = relations[p]
         \/ ~Has(p) /\ Has(p)' /\ relations'[p].status = "suspected_duplicate"
  PROVE  RulingsChain(p)'
<1> DEFINE S == RulingsOn(p)
<1>1. S \subseteq DOMAIN trail
  BY DEF RulingsOn
<1>2. /\ \A i : FirstOf(S, i) => i \in DOMAIN trail
      /\ \A i : LastOf(S, i) => i \in DOMAIN trail
      /\ \A i, k : i \in S /\ Precedes(S, k, i) => i \in DOMAIN trail /\ k \in DOMAIN trail
  BY <1>1 DEF FirstOf, LastOf, Precedes
<1>3. /\ \A i \in DOMAIN trail : FirstOf(S, i) => trail[i].previous = "suspected_duplicate"
      /\ \A i, k \in DOMAIN trail : i \in S /\ Precedes(S, k, i) => trail[i].previous = trail[k].result
      /\ \A i \in DOMAIN trail : LastOf(S, i) => Has(p) /\ relations[p].status = trail[i].result
      /\ S = {} /\ Has(p) => relations[p].status = "suspected_duplicate"
  BY DEF RulingsChain
<1>4. PICK T : T = S
  OBVIOUS
<1>5. RulingsOn(p)' = T
  BY <1>4
<1> HIDE DEF S
<1>6. /\ \A i \in DOMAIN trail' : FirstOf(T, i) => trail'[i].previous = "suspected_duplicate"
      /\ \A i, k \in DOMAIN trail' : i \in T /\ Precedes(T, k, i) => trail'[i].previous = trail'[k].result
  BY <1>2, <1>3, <1>4
<1>7. /\ \A i \in DOMAIN trail' : LastOf(T, i) => Has(p)' /\ relations'[p].status = trail'[i].result
      /\ T = {} /\ Has(p)' => relations'[p].status = "suspected_duplicate"
  BY <1>2, <1>3, <1>4 DEF Has
<1> QED BY <1>5, <1>6, <1>7 DEF RulingsChain

\* A new entry is later than all others, where no two share a millisecond.
LEMMA TrailStaysInOrder ==
  ASSUME ReviewInv, ReviewInv', ~SameInstant, TrailInOrder, NEW stamp \in Stamps(trail), NEW entry,
         trail' = Append(trail, entry), entry.at = stamp.at
  PROVE  TrailInOrder'
<1> DEFINE n == Len(trail) + 1
<1>1. /\ trail \in Seq(Ruling) /\ n \in Nat /\ DOMAIN trail' = 1..n /\ DOMAIN trail = 1..Len(trail)
      /\ trail'[n] = entry /\ \A i \in DOMAIN trail : trail'[i] = trail[i] /\ i \in Nat /\ i < n
      /\ \A i \in DOMAIN trail' : i = n \/ i \in DOMAIN trail
  BY DEF ReviewInv, ReviewTypeOK
<1>2. ASSUME NEW i \in DOMAIN trail
      PROVE  trail[i].at \in Nat
  <2>1. trail[i] \in Ruling
    BY <1>1
  <2> QED BY <2>1 DEF Ruling
<1>3. stamp.at = Instant(trail) + 1
  BY DEF Stamps
<1>4. ASSUME NEW i \in DOMAIN trail
      PROVE  trail[i].at < stamp.at
  <2>1. trail # <<>> /\ Len(trail) \in DOMAIN trail /\ i \in Nat /\ Len(trail) \in Nat /\ i <= Len(trail)
    BY <1>1
  <2>2. Instant(trail) = trail[Len(trail)].at
    BY <2>1 DEF Instant
  <2>3. i = Len(trail) \/ trail[i].at < trail[Len(trail)].at
    BY <2>1 DEF TrailInOrder
  <2> QED BY <1>2, <1>3, <2>1, <2>2, <2>3
<1> HIDE DEF n
<1>5. ASSUME NEW i \in DOMAIN trail', NEW j \in DOMAIN trail', i < j
      PROVE  trail'[i].at < trail'[j].at
  <2>1. i \in DOMAIN trail
    <3>1. i # n
      <4>1. \A k \in DOMAIN trail' : k <= n
        BY <1>1
      <4> QED BY <1>1, <1>5, <4>1
    <3> QED BY <1>1, <3>1
  <2>2. CASE j = n
    BY <1>1, <1>4, <2>1, <2>2
  <2>3. CASE j # n
    <3>1. j \in DOMAIN trail
      BY <1>1, <2>3
    <3> QED BY <1>1, <1>5, <2>1, <3>1 DEF TrailInOrder
  <2> QED BY <2>2, <2>3
<1> QED BY <1>5 DEF TrailInOrder

LEMMA RuleChains ==
  ASSUME TrailInv, NEW w \in Windows, NEW stamp \in Stamps(trail), Rule(w, stamp)
  PROVE  TrailInv'
<1>1. PICK status \in Statuses : GuardRelation(w) /\ AppendRuling(w, status, stamp)
  BY DEF Rule, Confirm, RevertDecision, RequestRecheck, Decided, Statuses
<1>2. ReviewInv /\ ReviewInv'
  BY <1>1, RulingKeeps DEF TrailInv
<1> DEFINE p     == seen[w].pair
           entry == [pair |-> p, previous |-> relations[p].status, result |-> status,
                     at |-> stamp.at, rank |-> stamp.rank]
           new   == [status |-> status, action |-> Len(trail) + 1, resolved |-> status \in Decided]
<1>3. p \in Pairs /\ Has(p)
  BY <1>1, <1>2 DEF GuardRelation, ReviewInv, ReviewTypeOK, SeenExists
<1>4. trail' = Append(trail, entry) /\ relations' = [relations EXCEPT ![p] = new]
  BY <1>1 DEF AppendRuling
<1>5. /\ entry.pair = p /\ entry.previous = relations[p].status /\ entry.result = status
      /\ entry.at = stamp.at /\ new.status = status
  OBVIOUS
<1>6. new # None
  <2>1. Len(trail) + 1 \in Nat
    BY <1>2 DEF ReviewInv, ReviewTypeOK
  <2>2. (status \in Decided) \in BOOLEAN
    OBVIOUS
  <2>3. new \in Relation
    BY <2>1, <2>2 DEF Relation
  <2> HIDE DEF new
  <2> QED BY <2>3, NoneAssumption
<1> HIDE DEF entry, new
<1>7. PICK q \in Pairs : q = p
  BY <1>3
<1> HIDE DEF p
<1>8. relations'[q] = new /\ \A r \in Pairs : r # q => relations'[r] = relations[r]
  BY <1>2, <1>4, <1>7 DEF ReviewInv, ReviewTypeOK
<1>9. RulingsChain(q)'
  <2>1. Has(q) /\ Has(q)' /\ RulingsChain(q)
    BY <1>3, <1>6, <1>7, <1>8 DEF Has, TrailInv
  <2>2. relations'[q].status = entry.result /\ entry.pair = q /\ entry.previous = relations[q].status
    BY <1>5, <1>7, <1>8
  <2> QED BY <1>2, <1>4, <2>1, <2>2, RulingChains
<1>10. /\ DOMAIN trail \subseteq DOMAIN trail' /\ \A i \in DOMAIN trail : trail'[i] = trail[i]
       /\ \A i \in DOMAIN trail' : i \in DOMAIN trail \/ trail'[i] = entry
       /\ Len(trail') = Len(trail) + 1 /\ Len(trail) \in Nat
  BY <1>2, <1>4 DEF ReviewInv, ReviewTypeOK
<1>11. ASSUME NEW r \in Pairs, r # q
       PROVE  RulingsChain(r)'
  <2>1. RulingsOn(r)' = RulingsOn(r)
    BY <1>5, <1>7, <1>10, <1>11 DEF RulingsOn
  <2> QED BY <1>2, <1>8, <1>10, <1>11, <2>1, OthersChain DEF TrailInv
<1>12. (SameInstant \/ TrailInOrder)'
  BY <1>2, <1>4, <1>5, TrailStaysInOrder DEF TrailInv
<1>13. Len(trail') <= MaxRulings
  BY <1>10, ReviewAssumption DEF Rule
<1> QED BY <1>2, <1>9, <1>11, <1>12, <1>13 DEF TrailInv

LEMMA TrailInvInit == ReviewInit => TrailInv
<1> SUFFICES ASSUME ReviewInit PROVE TrailInv
  OBVIOUS
<1>1. trail = <<>> /\ \A p \in Pairs : ~Has(p)
  BY DEF ReviewInit, Has
<1>2. TrailInOrder /\ Len(trail) <= MaxRulings
  BY <1>1, ReviewAssumption DEF TrailInOrder
<1>3. \A p \in Pairs : RulingsChain(p)
  BY <1>1 DEF RulingsChain
<1> QED BY <1>2, <1>3, ReviewInitHolds DEF TrailInv

LEMMA TrailInvNext == TrailInv /\ [ReviewNext]_reviewVars => TrailInv'
<1> SUFFICES ASSUME TrailInv, [ReviewNext]_reviewVars PROVE TrailInv'
  OBVIOUS
<1>1. ReviewInv /\ ReviewInv'
  BY ReviewNextHolds DEF TrailInv
<1>2. ASSUME trail' = trail,
             \A p \in Pairs : \/ relations'[p] = relations[p]
                              \/ ~Has(p) /\ Has(p)' /\ relations'[p].status = "suspected_duplicate"
      PROVE  TrailInv'
  <2>1. ASSUME NEW p \in Pairs
        PROVE  RulingsChain(p)'
    <3>1. RulingsOn(p)' = RulingsOn(p)
      BY <1>2 DEF RulingsOn
    <3> QED BY <1>1, <1>2, <3>1, OthersChain DEF TrailInv
  <2> QED BY <1>1, <1>2, <2>1 DEF TrailInv, TrailInOrder
<1>3. ASSUME NEW a \in Candidates, NEW b \in Candidates, RegisterSuspectedDuplicate(a, b)
      PROVE  TrailInv'
  <2> DEFINE p   == NormalizeCandidatePair(a, b)
             new == [status |-> "suspected_duplicate", resolved |-> FALSE, action |-> 0]
  <2>1. p \in Pairs /\ relations[p] = None /\ trail' = trail
        /\ relations' = [relations EXCEPT ![p] = new]
    BY <1>3, PairIsOrdered DEF RegisterSuspectedDuplicate
  <2>2. new.status = "suspected_duplicate" /\ new # None
    <3>1. new \in Relation
      BY DEF Relation, Statuses
    <3>2. new.status = "suspected_duplicate"
      OBVIOUS
    <3> HIDE DEF new
    <3> QED BY <3>1, <3>2, NoneAssumption
  <2> HIDE DEF p, new
  <2>3. \A q \in Pairs : relations'[q] = IF q = p THEN new ELSE relations[q]
    BY <1>1, <2>1 DEF ReviewInv, ReviewTypeOK
  <2> QED BY <1>2, <2>1, <2>2, <2>3 DEF Has
<1>4. ASSUME NEW w \in Windows, NEW p \in Pairs, Open(w, p)
      PROVE  TrailInv'
  BY <1>2, <1>4 DEF Open
<1>5. ASSUME NEW w \in Windows, NEW stamp \in Stamps(trail), Rule(w, stamp)
      PROVE  TrailInv'
  BY <1>5, RuleChains
<1>6. CASE UNCHANGED reviewVars
  BY <1>2, <1>6 DEF reviewVars
<1> QED BY <1>3, <1>4, <1>5, <1>6 DEF ReviewNext

\* Where no two entries share a millisecond, the timeline lists every ruling once, in the
\* order they were made.
LEMMA TimelineIsAscending ==
  ASSUME TrailInv, TrailInOrder, MaxRulings <= TimelineMax, NEW p \in Pairs
  PROVE  /\ Ascending(RulingsOn(p), AuditTimeline(p))
         /\ RulingsOn(p) \subseteq DOMAIN trail /\ IsFiniteSet(RulingsOn(p))
<1> DEFINE S == RulingsOn(p)
           n == Cardinality(S)
<1>1. /\ trail \in Seq(Ruling) /\ Len(trail) \in Nat /\ DOMAIN trail = 1..Len(trail)
      /\ S \subseteq DOMAIN trail /\ S \subseteq 1..Len(trail)
      /\ Len(trail) <= MaxRulings /\ MaxRulings \in Nat /\ TimelineMax \in Nat
  BY ReviewAssumption DEF TrailInv, ReviewInv, ReviewTypeOK, RulingsOn
<1>2. IsFiniteSet(S) /\ n \in Nat /\ n <= Len(trail)
  <2>1. IsFiniteSet(1..Len(trail)) /\ Cardinality(1..Len(trail)) = Len(trail)
    <3>1. PICK m \in Nat : m = Len(trail)
      BY <1>1
    <3>2. IsFiniteSet(1..m) /\ Cardinality(1..m) = m
      BY FS_Interval
    <3> QED BY <3>1, <3>2
  <2> HIDE DEF S
  <2>2. IsFiniteSet(S) /\ n <= Len(trail)
    BY <1>1, <2>1, FS_Subset
  <2> QED BY <2>2, FS_CardinalityType
<1>3. \A i \in S : i \in Nat
  BY <1>1
<1>4. \A i, j \in S : Newer(trail, j, i) <=> i < j
  <2> SUFFICES ASSUME NEW i \in S, NEW j \in S PROVE Newer(trail, j, i) <=> i < j
    OBVIOUS
  <2>1. trail[i] \in Ruling /\ trail[j] \in Ruling /\ i \in DOMAIN trail /\ j \in DOMAIN trail
    BY <1>1
  <2>2. trail[i].at \in Nat /\ trail[j].at \in Nat
    BY <2>1 DEF Ruling
  <2>3. trail[i].rank \in Nat /\ trail[j].rank \in Nat
    BY <2>1 DEF Ruling
  <2>4. i \in Nat /\ j \in Nat
    BY <1>3
  <2>5. (i < j => trail[i].at < trail[j].at) /\ (j < i => trail[j].at < trail[i].at)
    BY <2>1 DEF TrailInOrder
  <2>6. CASE i = j
    BY <2>2, <2>3, <2>4, <2>6 DEF Newer
  <2>7. CASE i < j
    BY <2>2, <2>4, <2>5, <2>7 DEF Newer
  <2>8. CASE j < i
    BY <2>2, <2>4, <2>5, <2>8 DEF Newer
  <2> QED BY <2>4, <2>6, <2>7, <2>8
<1> HIDE DEF S
<1>5. Ascending(S, OldestFirst(S))
  <2>1. S \in SUBSET Nat
    BY <1>3
  <2>2. PICK s : Ascending(S, s)
    BY <1>2, <2>1, AscendingExists
  <2>3. s \in [1..n -> S] /\ \A i, j \in DOMAIN s : i < j => Newer(trail, s[j], s[i])
    BY <1>4, <2>2 DEF Ascending
  <2>4. /\ OldestFirst(S) \in [1..n -> S]
        /\ \A i, j \in DOMAIN OldestFirst(S) : i < j => Newer(trail, OldestFirst(S)[j], OldestFirst(S)[i])
    BY <2>3 DEF OldestFirst
  <2> QED BY <1>4, <2>4 DEF Ascending
<1> DEFINE listed == OldestFirst(S)
<1>6. listed \in Seq(S) /\ Len(listed) = n
  <2>1. S \in SUBSET Nat
    BY <1>3
  <2> QED BY <1>2, <1>5, <2>1, AscendingIsWhole
<1>7. AuditTimeline(p) = SubSeq(listed, 1, n)
  <2>1. n <= TimelineMax
    BY <1>1, <1>2
  <2>2. (IF Len(listed) < TimelineMax THEN Len(listed) ELSE TimelineMax) = n
    <3> HIDE DEF n, listed
    <3> QED BY <1>1, <1>2, <1>6, <2>1
  <2> QED BY <2>2 DEF AuditTimeline, S
<1> HIDE DEF n, listed
<1>8. SubSeq(listed, 1, n) = listed
  BY <1>2, <1>6
<1> QED BY <1>1, <1>2, <1>5, <1>7, <1>8 DEF S, listed

\* The relation's rulings, listed, chain from the suspicion to its status.
LEMMA TimelineFollows == TrailInv /\ TrailInOrder /\ MaxRulings <= TimelineMax => TimelineChains
<1> SUFFICES ASSUME TrailInv, TrailInOrder, MaxRulings <= TimelineMax, NEW p \in Pairs, Has(p)
             PROVE  LET line == AuditTimeline(p)
                        before == [k \in 1..(Len(line) + 1) |->
                                     IF k = 1 THEN "suspected_duplicate" ELSE trail[line[k - 1]].result]
                    IN  /\ \A k \in DOMAIN line : trail[line[k]].previous = before[k]
                        /\ relations[p].status = before[Len(line) + 1]
  BY DEF TimelineChains
<1> DEFINE S == RulingsOn(p)
           line == AuditTimeline(p)
           n == Cardinality(S)
           before == [k \in 1..(Len(line) + 1) |->
                        IF k = 1 THEN "suspected_duplicate" ELSE trail[line[k - 1]].result]
<1>1. Ascending(S, line) /\ S \subseteq DOMAIN trail /\ IsFiniteSet(S)
  BY TimelineIsAscending
<1>0. /\ \A i \in S : i \in Nat
      /\ RulingsChain(p)
  BY <1>1 DEF TrailInv, ReviewInv, ReviewTypeOK
<1>2. \A i \in DOMAIN trail : FirstOf(S, i) => trail[i].previous = "suspected_duplicate"
  BY <1>0 DEF RulingsChain
<1>3. \A i, k \in DOMAIN trail : i \in S /\ Precedes(S, k, i) => trail[i].previous = trail[k].result
  BY <1>0 DEF RulingsChain
<1>4. \A i \in DOMAIN trail : LastOf(S, i) => relations[p].status = trail[i].result
  BY <1>0 DEF RulingsChain
<1>5. S = {} => relations[p].status = "suspected_duplicate"
  BY <1>0 DEF RulingsChain
<1> HIDE DEF S, line
<1>6. /\ n \in Nat /\ line \in Seq(S) /\ Len(line) = n
      /\ \A i \in S : \E k \in 1..n : line[k] = i
  <2>1. S \in SUBSET Nat
    BY <1>0
  <2> QED BY <1>1, <2>1, AscendingIsWhole
<1>7. line \in [1..n -> S] /\ \A i, j \in 1..n : i < j => line[i] < line[j]
  BY <1>1 DEF Ascending
<1>8. \A i, j \in 1..n : line[i] <= line[j] => i <= j
  <2> SUFFICES ASSUME NEW i \in 1..n, NEW j \in 1..n, line[i] <= line[j], j < i PROVE FALSE
    BY <1>6
  <2>1. line[j] < line[i]
    BY <1>7
  <2>2. line[i] \in S /\ line[j] \in S
    BY <1>7
  <2>3. line[i] \in Nat /\ line[j] \in Nat
    BY <1>0, <2>2
  <2> QED BY <2>1, <2>3
<1>81. \A i, j \in 1..n : i <= j => line[i] <= line[j]
  <2> SUFFICES ASSUME NEW i \in 1..n, NEW j \in 1..n, i <= j PROVE line[i] <= line[j]
    OBVIOUS
  <2>1. line[i] \in S /\ line[j] \in S
    BY <1>7
  <2>2. line[i] \in Nat /\ line[j] \in Nat
    BY <1>0, <2>1
  <2>3. i = j \/ i < j
    BY <1>6
  <2> QED BY <1>7, <2>2, <2>3
<1>9. DOMAIN line = 1..n
  BY <1>7
<1> HIDE DEF n
<1>10. \A k \in 1..(n + 1) : before[k] = IF k = 1 THEN "suspected_duplicate" ELSE trail[line[k - 1]].result
  BY <1>6
<1> HIDE DEF before
<1>11. ASSUME NEW k \in 1..n
       PROVE  trail[line[k]].previous = before[k]
  <2>1. line[k] \in S /\ line[k] \in DOMAIN trail /\ k \in Nat /\ k \in 1..(n + 1)
    BY <1>1, <1>6, <1>7
  <2>2. CASE k = 1
    <3>1. \A i \in S : line[k] <= i
      <4> SUFFICES ASSUME NEW i \in S PROVE line[k] <= i
        OBVIOUS
      <4>1. PICK j \in 1..n : line[j] = i
        BY <1>6
      <4>2. k <= j
        BY <1>6, <2>2
      <4> QED BY <1>81, <4>1, <4>2
    <3>2. FirstOf(S, line[k])
      BY <2>1, <3>1 DEF FirstOf
    <3>3. before[k] = "suspected_duplicate"
      BY <1>10, <2>1, <2>2
    <3> QED BY <1>2, <2>1, <3>2, <3>3
  <2>3. CASE k # 1
    <3>1. k - 1 \in 1..n /\ k - 1 < k
      BY <1>6, <2>1, <2>3
    <3>2. PICK m \in 1..n : m = k - 1
      BY <3>1
    <3>3. line[m] \in S /\ line[m] \in DOMAIN trail /\ line[m] < line[k]
      BY <1>1, <1>7, <3>1, <3>2
    <3>4. \A i \in S : i <= line[m] \/ line[k] <= i
      <4> SUFFICES ASSUME NEW i \in S PROVE i <= line[m] \/ line[k] <= i
        OBVIOUS
      <4>1. PICK j \in 1..n : line[j] = i
        BY <1>6
      <4>2. j <= m \/ k <= j
        BY <1>6, <3>2
      <4> QED BY <1>81, <4>1, <4>2
    <3>5. Precedes(S, line[m], line[k])
      BY <3>3, <3>4 DEF Precedes
    <3>6. before[k] = trail[line[m]].result
      BY <1>10, <2>1, <2>3, <3>2
    <3> QED BY <1>3, <2>1, <3>3, <3>5, <3>6
  <2> QED BY <2>2, <2>3
<1>12. relations[p].status = before[n + 1]
  <2>1. CASE n = 0
    <3>1. S = {}
      BY <1>6, <2>1
    <3>2. before[n + 1] = "suspected_duplicate"
      BY <1>10, <2>1
    <3> QED BY <1>5, <3>1, <3>2
  <2>2. CASE n # 0
    <3>1. n \in 1..n /\ n + 1 \in 1..(n + 1) /\ (n + 1) - 1 = n /\ n + 1 # 1
      BY <1>6, <2>2
    <3>2. line[n] \in S /\ line[n] \in DOMAIN trail
      BY <1>1, <1>7, <3>1
    <3>3. \A i \in S : i <= line[n]
      <4> SUFFICES ASSUME NEW i \in S PROVE i <= line[n]
        OBVIOUS
      <4>1. PICK j \in 1..n : line[j] = i
        BY <1>6
      <4>2. j <= n
        BY <1>6
      <4> QED BY <1>81, <3>1, <4>1, <4>2
    <3>4. LastOf(S, line[n])
      BY <3>2, <3>3 DEF LastOf
    <3>5. before[n + 1] = trail[line[n]].result
      BY <1>10, <3>1
    <3> QED BY <1>4, <3>2, <3>4, <3>5
  <2> QED BY <2>1, <2>2
<1> QED BY <1>6, <1>9, <1>11, <1>12 DEF line, before

\* Where no two entries share a millisecond and a timeline has room for every ruling, the
\* timeline of each relation leads from the suspicion to the status it now has.
THEOREM TimelinesAreWhole ==
  ASSUME ~SameInstant, MaxRulings <= TimelineMax
  PROVE  ReviewSpec => []TimelineIsWhole
<1>1. TrailInv => TimelineIsWhole
  <2> SUFFICES ASSUME TrailInv PROVE TimelineIsWhole
    OBVIOUS
  <2>1. ReviewTypeOK /\ TrailInOrder
    BY DEF TrailInv, ReviewInv
  <2> QED BY <2>1, TimelineFollows DEF TimelineIsWhole
<1> QED BY <1>1, TrailInvInit, TrailInvNext, PTL DEF ReviewSpec
=============================================================================
