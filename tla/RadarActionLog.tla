---------------------------- MODULE RadarActionLog ----------------------------
(***************************************************************************)
(* The append-only log of user actions on radar candidates (table         *)
(* radar_actions) and the projections that read it.  An entry is either a  *)
(* "set" (saved, ignored, marked_priority, marked_applied_pending,         *)
(* rule_override_set) or the "revert" that withdraws one; withdrawing also *)
(* fills the reverted_by_action_id of the set.                             *)
(*                                                                         *)
(* A log is a sequence in insertion order.  The readers see it ordered by  *)
(* occurred_at DESC, id DESC, where occurred_at is a millisecond clock and *)
(* id a random UUID: `at' is the instant and `rank' the place the random   *)
(* id takes among the entries of one instant.                              *)
(***************************************************************************)
EXTENDS Integers, Sequences

CONSTANTS Candidates,
          SameInstant  \* may two entries carry the same millisecond?

ASSUME SameInstantAssumption == SameInstant \in BOOLEAN
ASSUME CandidatesAssumption == Candidates \subseteq Nat

ActionFamilies == {"save", "ignore", "priority", "appliedPending"}

\* `version' is <<candidate, number>>, the audit anchor of every entry; an
\* override is about the hard-constraint assessment of that version.  `target'
\* is metadata.revertsActionId and `by' reverted_by_action_id (0: null).
Entry(Version) ==
  [kind : {"set", "revert"}, family : ActionFamilies \cup {"override"},
   version : Version, value : {"", "pass", "block"},
   target : Nat, by : Nat, at : Nat, rank : 0..2]

Instant(log) == IF log = << >> THEN 0 ELSE log[Len(log)].at

\* The stamps the next entry may get: a new millisecond, or the millisecond of
\* the last entry with an id on either side of that entry's.
Stamps(log) ==
  {[at |-> Instant(log) + 1, rank |-> 1]} \cup
  {[at |-> Instant(log), rank |-> r] :
     r \in IF SameInstant /\ log # << >> /\ log[Len(log)].rank = 1 THEN {0, 2} ELSE {}}

Newer(log, i, j) ==
  \/ log[i].at > log[j].at
  \/ log[i].at = log[j].at /\ log[i].rank > log[j].rank

\* The first of the entries S in the order listByCandidate returns them.
Newest(log, S) == CHOOSE i \in S : \A j \in S \ {i} : Newer(log, i, j)

Insert(log, kind, family, version, value, target, stamp) ==
  Append(log, [kind |-> kind, family |-> family, version |-> version, value |-> value,
               target |-> target, by |-> 0, at |-> stamp.at, rank |-> stamp.rank])

MarkReverted(log, i, by) == IF log[i].by = 0 THEN [log EXCEPT ![i].by = by] ELSE log

\* A revert event and the back-fill of the set it withdraws, in one transaction.
Withdraw(log, i, stamp) ==
  MarkReverted(Insert(log, "revert", log[i].family, log[i].version, "", i, stamp),
               i, Len(log) + 1)

ActiveSets(log, c, f) ==
  {i \in DOMAIN log : /\ log[i].kind = "set" /\ log[i].family = f
                      /\ log[i].version[1] = c /\ log[i].by = 0}

InForce(log, c, f) == ActiveSets(log, c, f) # {}

\* rule_override_set events about the assessment of version a.
OverrideSets(log, a) ==
  {i \in DOMAIN log : log[i].kind = "set" /\ log[i].family = "override" /\ log[i].version = a}

LatestOverrideSet(log, a) ==
  IF OverrideSets(log, a) = {} THEN 0 ELSE Newest(log, OverrideSets(log, a))

OverrideState(log, a) ==
  LET i == LatestOverrideSet(log, a)
  IN  IF i = 0 THEN "none" ELSE IF log[i].by # 0 THEN "none" ELSE log[i].value

\* The state the audit trail of an assessment ends in: the trail is replayed in
\* ascending listing order and takes a revert only after the set it names.
AuditTrail(log, a) ==
  OverrideSets(log, a) \cup
  {i \in DOMAIN log : /\ log[i].kind = "revert"
                      /\ log[i].target \in OverrideSets(log, a)
                      /\ Newer(log, i, log[i].target)}

AuditState(log, a) ==
  IF AuditTrail(log, a) = {} THEN "none"
  ELSE LET i == Newest(log, AuditTrail(log, a))
       IN  IF log[i].kind = "set" THEN log[i].value ELSE "none"
=============================================================================
