---------------------------- MODULE DuplicateReview ----------------------------
(***************************************************************************)
(* Suspected duplicates among radar candidates and the user's rulings on   *)
(* them (duplicateAdjudicationService.ts, candidateRelationRepository.ts,  *)
(* reviewService.ts).  A detector registers pairs; review windows read a   *)
(* relation and later send a ruling that names the status they saw.  Each  *)
(* ruling updates the relation and appends an audit event in one           *)
(* transaction; the timeline of a relation is read back from the events.   *)
(***************************************************************************)
EXTENDS RadarActionLog, FiniteSets

CONSTANTS Windows, None,
          TimelineMax,  \* entries a timeline returns (100 in the code)
          MaxRulings

ASSUME ReviewAssumption ==
  /\ TimelineMax \in Nat \ {0}
  /\ MaxRulings \in Nat

VARIABLES relations,  \* <<low, high>> -> the stored relation or None
          trail,      \* the duplicate_* entries of radar_actions
          seen        \* window -> the <<pair, status>> it shows, or None

reviewVars == <<relations, trail, seen>>

Pairs == Candidates \X Candidates
Statuses == {"suspected_duplicate", "confirmed_same", "confirmed_distinct", "needs_recheck"}
Decided == {"confirmed_same", "confirmed_distinct"}

\* `resolved' says whether resolved_at is set, `action' is resolution_action_id.
Relation == [status : Statuses, resolved : BOOLEAN, action : Nat]

Ruling == [pair : Pairs, previous : Statuses, result : Statuses, at : Nat, rank : 0..2]

\* `None' stands for what is not there and is no relation.
ASSUME NoneAssumption == None \notin Relation

NormalizeCandidatePair(a, b) == IF a < b THEN <<a, b>> ELSE <<b, a>>

ReviewInit ==
  /\ relations = [p \in Pairs |-> None]
  /\ trail = << >>
  /\ seen = [w \in Windows |-> None]

\* Mutated: a pair found again is put before the user again.
RegisterAgain(a, b) ==
  /\ a # b
  /\ relations' = [relations EXCEPT ![NormalizeCandidatePair(a, b)] =
                     [status |-> "suspected_duplicate", resolved |-> FALSE, action |-> 0]]
  /\ UNCHANGED <<trail, seen>>

\* A pair that has a relation keeps it, whatever its status (only the time it was
\* last detected moves).
RegisterSuspectedDuplicate(a, b) ==
  LET p == NormalizeCandidatePair(a, b)
  IN  /\ a # b
      /\ relations[p] = None
      /\ relations' = [relations EXCEPT ![p] =
                         [status |-> "suspected_duplicate", resolved |-> FALSE, action |-> 0]]
      /\ UNCHANGED <<trail, seen>>

Open(w, p) ==
  /\ relations[p] # None
  /\ seen' = [seen EXCEPT ![w] = [pair |-> p, status |-> relations[p].status]]
  /\ UNCHANGED <<relations, trail>>

\* The ruling of a window is taken only if the relation still has the status the
\* window showed.
GuardRelation(w) ==
  /\ seen[w] # None
  /\ relations[seen[w].pair].status = seen[w].status

\* Mutated: the relation is updated before the event that records its status.
AppendRulingLate(w, status, stamp) ==
  LET p == seen[w].pair
  IN  /\ trail' = Append(trail, [pair |-> p, previous |-> status, result |-> status,
                                 at |-> stamp.at, rank |-> stamp.rank])
      /\ relations' = [relations EXCEPT ![p] =
                         [status |-> status, action |-> Len(trail) + 1,
                          resolved |-> status \in Decided]]
      /\ seen' = [seen EXCEPT ![w].status = status]

\* The audit event, then the status, in one transaction; the answer tells the
\* window the new status.
AppendRuling(w, status, stamp) ==
  LET p == seen[w].pair
  IN  /\ trail' = Append(trail, [pair |-> p, previous |-> relations[p].status, result |-> status,
                                 at |-> stamp.at, rank |-> stamp.rank])
      /\ relations' = [relations EXCEPT ![p] =
                         [status |-> status, action |-> Len(trail) + 1,
                          resolved |-> status \in Decided]]
      /\ seen' = [seen EXCEPT ![w].status = status]

\* confirmSame and confirmDistinct answer a repeated request without an event.
Confirm(w, status, stamp) ==
  /\ GuardRelation(w)
  /\ relations[seen[w].pair].status # status
  /\ AppendRuling(w, status, stamp)

RevertDecision(w, stamp) ==
  /\ GuardRelation(w)
  /\ AppendRuling(w, "suspected_duplicate", stamp)

RequestRecheck(w, stamp) ==
  /\ GuardRelation(w)
  /\ relations[seen[w].pair].status # "needs_recheck"
  /\ AppendRuling(w, "needs_recheck", stamp)

Rule(w, stamp) ==
  /\ Len(trail) < MaxRulings
  /\ \/ \E status \in Decided : Confirm(w, status, stamp)
     \/ RevertDecision(w, stamp)
     \/ RequestRecheck(w, stamp)

ReviewNext ==
  \/ \E a, b \in Candidates : RegisterSuspectedDuplicate(a, b)
  \/ \E w \in Windows :
       \/ \E p \in Pairs : Open(w, p)
       \/ \E stamp \in Stamps(trail) : Rule(w, stamp)

ReviewSpec == ReviewInit /\ [][ReviewNext]_reviewVars

-----------------------------------------------------------------------------
(* Properties.                                                             *)

Has(p) == relations[p] # None

\* Types; a relation is stored under its smaller candidate first, so two candidates
\* have at most one, in whichever order and however often they are found alike
\* (candidateRelationRepository.ts:20-24).
ReviewTypeOK ==
  /\ relations \in [Pairs -> Relation \cup {None}]
  /\ \A p \in Pairs : Has(p) => p[1] < p[2]
  /\ trail \in Seq(Ruling)
  /\ \A w \in Windows : seen[w] # None => seen[w] \in [pair : Pairs, status : Statuses]

RulingsOn(p) == {i \in DOMAIN trail : trail[i].pair = p}

OldestFirst(S) ==
  CHOOSE s \in [1..Cardinality(S) -> S] : \A i, j \in DOMAIN s : i < j => Newer(trail, s[j], s[i])

\* The events of a relation oldest first, in the order the review page shows
\* them, and no more than TimelineMax of them.
AuditTimeline(p) ==
  LET listed == OldestFirst(RulingsOn(p))
  IN  SubSeq(listed, 1, IF Len(listed) < TimelineMax THEN Len(listed) ELSE TimelineMax)

LatestDecision(p) ==
  LET shown == SelectSeq(AuditTimeline(p), LAMBDA i : trail[i].result # "needs_recheck")
  IN  IF shown = << >> THEN 0 ELSE shown[Len(shown)]

\* A pair is ruled on again only by the user: a decided relation changes only with
\* an audit event that names the status it leaves, so detection never brings a
\* rejected pair back (duplicateAdjudicationService.ts:51-57).
DecisionsStand ==
  [][\A p \in Pairs : relations[p] # None /\ relations'[p] # relations[p] =>
       /\ Len(trail') = Len(trail) + 1
       /\ trail'[Len(trail')].pair = p
       /\ trail'[Len(trail')].previous = relations[p].status]_reviewVars

\* The events of a relation chain from the suspicion to its present status.
TimelineChains ==
  \A p \in Pairs : Has(p) =>
    LET line == AuditTimeline(p)
        before == [k \in 1..(Len(line) + 1) |->
                     IF k = 1 THEN "suspected_duplicate" ELSE trail[line[k - 1]].result]
    IN  /\ \A k \in DOMAIN line : trail[line[k]].previous = before[k]
        /\ relations[p].status = before[Len(line) + 1]

\* resolution_action_id is the last event of the relation, and resolved_at is set
\* exactly while the relation is decided.
ResolutionIsLast ==
  \A p \in Pairs : Has(p) =>
    /\ relations[p].resolved <=> relations[p].status \in Decided
    /\ IF RulingsOn(p) = {} THEN relations[p].action = 0
       ELSE relations[p].action \in RulingsOn(p) /\ \A i \in RulingsOn(p) : i <= relations[p].action

\* The pairs are stored in one order, and the audit trail of each leads to the status it
\* now has (normalizeCandidatePair, appendAction).
TimelineIsWhole == ReviewTypeOK /\ TimelineChains


(* Documented, and not so: what the README's list of divergences refers to. *)

\* duplicateAdjudicationService.ts:109-112: only a confirmed relation is put to
\* recheck.
RecheckAfterDecision ==
  \A i \in DOMAIN trail : trail[i].result = "needs_recheck" => trail[i].previous \in Decided

\* reviewService.ts:212-213: the detail shows the reason of the user's decision,
\* that is of the last one.
DecisionShown ==
  \A p \in Pairs : \A i \in RulingsOn(p) :
    trail[i].result # "needs_recheck" => LatestDecision(p) >= i

\* reviewService.ts:267: the timeline is read oldest first.
TimelineInOrder ==
  \A p \in Pairs : \A k \in 2..Len(AuditTimeline(p)) : AuditTimeline(p)[k - 1] < AuditTimeline(p)[k]
=============================================================================
