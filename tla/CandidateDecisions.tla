-------------------------- MODULE CandidateDecisions --------------------------
(***************************************************************************)
(* What the user decides about radar candidates (save, ignore, priority,   *)
(* applied, rule override; actionService.ts, ruleEvidenceService.ts,       *)
(* reviewService.ts) and what the recommendation batches make of it        *)
(* (recommendationBatchService.ts, recommendationProjection.ts,            *)
(* recommendationService.ts).                                              *)
(*                                                                         *)
(* Every handler runs in one turn of the event loop over synchronous       *)
(* SQLite, so each is one step.  A candidate moves between versions when   *)
(* its material facts change; the profile context (resume, job-match       *)
(* profile, baseline, market, strategy, rule and prompt versions) moves    *)
(* too, and an analysis answers for the version and context it froze.      *)
(* Confidence, risk and evidence counts only order recommendations of one  *)
(* kind; here the version orders them.                                     *)
(***************************************************************************)
EXTENDS RadarActionLog, FiniteSets, FiniteSetsExt

CONSTANTS Contexts, Verdicts, Families,
          MaxVersion,          \* candidate -> the versions it may come to have
          HitVersions,         \* versions a hard_constraint rule assessment hits
          MaxRecommendations,
          Limits               \* bounds, in alternatives: of log, records, batches and met

\* A database holds finitely many candidates; an instance may leave out the families of
\* action that nothing but their own button reads, and applied is not one of them.
ASSUME DecisionsAssumption ==
  /\ IsFiniteSet(Candidates)
  /\ MaxVersion \in [Candidates -> Nat \ {0}]
  /\ Verdicts \subseteq {"apply_now", "stretch", "verify", "skip"}
  /\ Families \subseteq ActionFamilies /\ "appliedPending" \in Families
  /\ \A v \in HitVersions : v[1] \in Candidates /\ v[2] \in 1..MaxVersion[v[1]]
  /\ MaxRecommendations \in Nat \ {0}

VARIABLES active,     \* candidate -> number of its active version
          latest,     \* candidate -> number of its newest version
          context,    \* the active profile context
          met,        \* <<version, context>> pairs that were active together
          records,    \* successful analyses in the order they were written
          log,        \* radar_actions
          batches,    \* radar_recommendation_batches
          wish,       \* history: candidate -> family -> what the user last asked
          dismissed,  \* history: versions the user ignored since the last restore
          ruling      \* history: version -> the override the user last asked for

vars == <<active, latest, context, met, records, log, batches, wish, dismissed, ruling>>

Version == UNION {{c} \X (1..MaxVersion[c]) : c \in Candidates}
ActiveVersion(c) == <<c, active[c]>>
Known == {v \in Version : v[2] <= latest[v[1]]}

Record == [version : Version, context : Contexts, verdict : Verdicts]

-----------------------------------------------------------------------------
(* The recommendation of a scope, a set of version ids.                    *)

IsCurrent(r) == r.version = ActiveVersion(r.version[1]) /\ r.context = context
AnalysesOf(v) == {i \in DOMAIN records : records[i].version = v}
CurrentAnalyses(v) == {i \in AnalysesOf(v) : IsCurrent(records[i])}

\* The newest current analysis answers for the version (listed created_at DESC).
AnalysisOf(v) == IF CurrentAnalyses(v) = {} THEN 0 ELSE Max(CurrentAnalyses(v))

HasHardConstraintHit(v) == v \in HitVersions

IgnoredUnchanged(v) ==
  \E i \in ActiveSets(log, v[1], "ignore") : log[i].version = v

\* Mutated: an application is remembered for the version it was marked on only.
AppliedAtThisVersion(v) ==
  \E i \in ActiveSets(log, v[1], "appliedPending") : log[i].version = v

AppliedPending(v) == InForce(log, v[1], "appliedPending")

\* Mutated: the handled state is left out of the identity of the analysis.
IdentityWithoutHandled(v) ==
  IF AnalysisOf(v) # 0
  THEN [analysis |-> AnalysisOf(v), stale |-> FALSE, hit |-> HasHardConstraintHit(v),
        ignored |-> FALSE, applied |-> FALSE]
  ELSE [analysis |-> 0, stale |-> AnalysesOf(v) # {}, hit |-> FALSE,
        ignored |-> FALSE, applied |-> FALSE]

\* What is known of a version; without a current analysis the handled state and
\* the rule assessments do not enter the identity.
AnalysisIdentity(v) ==
  IF AnalysisOf(v) # 0
  THEN [analysis |-> AnalysisOf(v), stale |-> FALSE, hit |-> HasHardConstraintHit(v),
        ignored |-> IgnoredUnchanged(v), applied |-> AppliedPending(v)]
  ELSE [analysis |-> 0, stale |-> AnalysesOf(v) # {}, hit |-> FALSE,
        ignored |-> FALSE, applied |-> FALSE]

VerdictOn(v) == records[AnalysisOf(v)].verdict

\* The first gate that closes gives the reason; "" lets the version through.
BlockReasonFor(v) ==
  LET some  == AnalysisOf(v) # 0
      gates == << <<~some /\ AnalysesOf(v) # {}, "stale_analysis">>,
                  <<~some, "no_current_analysis">>,
                  <<some /\ VerdictOn(v) = "skip", "skip_recommended">>,
                  <<HasHardConstraintHit(v), "hard_constraint_hit">>,
                  <<IgnoredUnchanged(v), "ignored_unchanged">>,
                  <<AppliedPending(v), "applied_pending">>,
                  <<TRUE, "">> >>
  IN  gates[Min({k \in DOMAIN gates : gates[k][1]})][2]

KindRank == [apply_now |-> 0, stretch |-> 1, verify |-> 2]

Better(v, w) ==
  \/ KindRank[VerdictOn(v)] < KindRank[VerdictOn(w)]
  \/ /\ KindRank[VerdictOn(v)] = KindRank[VerdictOn(w)]
     /\ v[1] < w[1] \/ (v[1] = w[1] /\ v[2] < w[2])

Eligible(scope) == {v \in scope : BlockReasonFor(v) = ""}
Duplicates(eligible) == {v \in eligible : \E w \in eligible : w[1] = v[1] /\ Better(w, v)}
Place(v, kept) == 1 + Cardinality({w \in kept : Better(w, v)})
Overflow(kept) == {v \in kept : Place(v, kept) > MaxRecommendations}

\* The best version of each candidate is kept, and of those the first few.
Ranked(scope) ==
  LET eligible == Eligible(scope)
      kept     == eligible \ Duplicates(eligible)
  IN  [scope |-> scope, eligible |-> eligible, kept |-> kept, overflow |-> Overflow(kept)]

\* Mutated: what does not fit is dropped without a reason.
BlockedWithoutOverflow(r) ==
  {[version |-> v, reason |-> BlockReasonFor(v)] : v \in r.scope \ r.eligible} \cup
  {[version |-> v, reason |-> "duplicate_candidate"] : v \in r.eligible \ r.kept}

Blocked(r) ==
  {[version |-> v, reason |-> BlockReasonFor(v)] : v \in r.scope \ r.eligible} \cup
  {[version |-> v, reason |-> "duplicate_candidate"] : v \in r.eligible \ r.kept} \cup
  {[version |-> v, reason |-> "capacity_exceeded"] : v \in r.overflow}

Recommendations(r) ==
  {[version |-> v, kind |-> VerdictOn(v), analysis |-> AnalysisOf(v), priority |-> Place(v, r.kept)] :
     v \in r.kept \ r.overflow}

EmptyReason(r) ==
  IF r.kept \ r.overflow # {} THEN ""
  ELSE IF \E v \in r.scope : AnalysisOf(v) # 0 THEN "all_candidates_excluded"
  ELSE "no_current_successful_analysis"

RecommendationSet(scope) ==
  LET r == Ranked(scope)
  IN  [recommendations |-> Recommendations(r), blocked |-> Blocked(r), emptyReason |-> EmptyReason(r)]

BatchKey(scope) ==
  [identity |-> [v \in scope |-> AnalysisIdentity(v)], emptyReason |-> EmptyReason(Ranked(scope))]

WithKey(key) == {b \in batches : b.key = key}

\* The batch a request for the scope is answered with.
Answer(scope) ==
  LET key == BatchKey(scope)
  IN  IF WithKey(key) # {} THEN CHOOSE b \in WithKey(key) : TRUE
      ELSE [key |-> key, set |-> RecommendationSet(scope), context |-> context]

Scopes == SUBSET Known \ {{}}

\* The model's bound: some alternative has room for one more of these.
Room(actions, analyses, stored, pairs) ==
  \E limit \in Limits :
    /\ Len(log) + actions <= limit.actions
    /\ Len(records) + analyses <= limit.records
    /\ Cardinality(batches) + stored <= limit.batches
    /\ Cardinality(met \cup pairs) <= limit.met

-----------------------------------------------------------------------------
Init ==
  /\ active = [c \in Candidates |-> 1]
  /\ latest = [c \in Candidates |-> 1]
  /\ context \in Contexts
  /\ met = {<< <<c, 1>>, context>> : c \in Candidates}
  /\ records = << >>
  /\ log = << >>
  /\ batches = {}
  /\ wish = [c \in Candidates |-> [f \in Families |-> FALSE]]
  /\ dismissed = {}
  /\ ruling = [v \in Version |-> "none"]

\* A capture changes material facts: a new version, or an old one again.
MaterialChange(c) ==
  /\ \E n \in 1..MaxVersion[c] \ {active[c]} :
       /\ n <= latest[c] + 1
       /\ Room(0, 0, 0, {<< <<c, n>>, context>>})
       /\ active' = [active EXCEPT ![c] = n]
       /\ latest' = [latest EXCEPT ![c] = Max({n, latest[c]})]
       /\ met' = met \cup {<< <<c, n>>, context>>}
  /\ UNCHANGED <<context, records, log, batches, wish, dismissed, ruling>>

\* Some profile version is activated, or an earlier one restored.
ActivateContext(k) ==
  /\ k # context
  /\ Room(0, 0, 0, {<<ActiveVersion(c), k>> : c \in Candidates})
  /\ context' = k
  /\ met' = met \cup {<<ActiveVersion(c), k>> : c \in Candidates}
  /\ UNCHANGED <<active, latest, records, log, batches, wish, dismissed, ruling>>

\* A task that froze a version and a context succeeds, perhaps much later.
RecordAnalysis(pair, verdict) ==
  /\ pair \in met
  /\ Room(0, 1, 0, {})
  /\ records' = Append(records, [version |-> pair[1], context |-> pair[2], verdict |-> verdict])
  /\ UNCHANGED <<active, latest, context, met, log, batches, wish, dismissed, ruling>>

Ask(c, f, on) ==
  /\ wish' = [wish EXCEPT ![c][f] = on]
  /\ dismissed' = IF f # "ignore" THEN dismissed
                  ELSE IF on THEN dismissed \cup {ActiveVersion(c)}
                  ELSE {v \in dismissed : v[1] # c}
  /\ UNCHANGED <<active, latest, context, met, records, batches, ruling>>

\* Mutated: a repeated request appends a second event.
ApplySetAlways(c, f, stamp) ==
  /\ Ask(c, f, TRUE)
  /\ log' = Insert(log, "set", f, ActiveVersion(c), "", 0, stamp)

ApplySet(c, f, stamp) ==
  /\ Ask(c, f, TRUE)
  /\ log' = IF InForce(log, c, f) THEN log
            ELSE Insert(log, "set", f, ActiveVersion(c), "", 0, stamp)

ApplyRevert(c, f, stamp) ==
  /\ Ask(c, f, FALSE)
  /\ log' = IF ~InForce(log, c, f) THEN log
            ELSE Withdraw(log, Newest(log, ActiveSets(log, c, f)), stamp)

\* The request names the override state it saw; a request that saw another state
\* than the one found is refused and changes nothing.
SetRuleOverride(a, value, stamp) ==
  /\ log' = Insert(log, "set", "override", a, value, 0, stamp)
  /\ ruling' = [ruling EXCEPT ![a] = value]
  /\ UNCHANGED <<active, latest, context, met, records, batches, wish, dismissed>>

\* The expected state may be "none": then the set found is one already reverted.
RevertRuleOverride(a, stamp) ==
  /\ LatestOverrideSet(log, a) # 0
  /\ log' = Withdraw(log, LatestOverrideSet(log, a), stamp)
  /\ ruling' = [ruling EXCEPT ![a] = "none"]
  /\ UNCHANGED <<active, latest, context, met, records, batches, wish, dismissed>>

CreateBatch(scope) ==
  /\ Room(0, 0, 1, {})
  /\ WithKey(BatchKey(scope)) = {}
  /\ batches' = batches \cup {Answer(scope)}
  /\ UNCHANGED <<active, latest, context, met, records, log, wish, dismissed, ruling>>

Decide ==
  /\ Room(1, 0, 0, {})
  /\ \E stamp \in Stamps(log) :
       \/ \E c \in Candidates, f \in Families : ApplySet(c, f, stamp) \/ ApplyRevert(c, f, stamp)
       \/ \E a \in HitVersions \cap Known :
            \/ \E value \in {"pass", "block"} : SetRuleOverride(a, value, stamp)
            \/ RevertRuleOverride(a, stamp)

Next ==
  \/ \E c \in Candidates : MaterialChange(c)
  \/ \E k \in Contexts : ActivateContext(k)
  \/ \E pair \in met, verdict \in Verdicts : RecordAnalysis(pair, verdict)
  \/ Decide
  \/ \E scope \in Scopes : CreateBatch(scope)

Spec == Init /\ [][Next]_vars

-----------------------------------------------------------------------------
(* Properties.                                                             *)

\* A back-fill names a later revert that names the set back, of the same family
\* and on the same version; a revert names an earlier set.
RevertsMatch ==
  /\ \A i \in DOMAIN log : log[i].by # 0 =>
       /\ log[i].by \in DOMAIN log /\ log[i].by > i
       /\ log[i].kind = "set"
       /\ log[log[i].by].kind = "revert" /\ log[log[i].by].target = i
  /\ \A i \in DOMAIN log : log[i].kind = "revert" =>
       /\ log[i].target \in 1..(i - 1)
       /\ log[log[i].target].kind = "set"
       /\ log[log[i].target].family = log[i].family
       /\ log[log[i].target].version = log[i].version
       /\ log[log[i].target].by # 0

\* Types; the active version is one of the candidate, an analysis is of a version
\* and context that were once active together, and reverts and back-fills match.
TypeOK ==
  /\ active \in [Candidates -> Nat] /\ latest \in [Candidates -> Nat]
  /\ \A c \in Candidates : active[c] \in 1..MaxVersion[c] /\ latest[c] \in 1..MaxVersion[c]
  /\ \A c \in Candidates : active[c] <= latest[c] /\ <<ActiveVersion(c), context>> \in met
  /\ context \in Contexts
  /\ met \subseteq Version \X Contexts
  /\ records \in Seq(Record)
  /\ \A i \in DOMAIN records : <<records[i].version, records[i].context>> \in met
  /\ log \in Seq(Entry(Version))
  /\ wish \in [Candidates -> [Families -> BOOLEAN]]
  /\ dismissed \subseteq Version
  /\ ruling \in [Version -> {"none", "pass", "block"}]
  /\ RevertsMatch

\* The state derived from the log is what the user asked for last, however often
\* the requests were repeated and whatever versions came between; the promise of
\* actionState.ts:17-20 that at most one set of a family is in force.
StateIsLastWish ==
  \A c \in Candidates, f \in Families :
    /\ InForce(log, c, f) = wish[c][f]
    /\ Cardinality(ActiveSets(log, c, f)) <= 1

\* The effective override and the one the audit trail ends in are both what was
\* asked last (ruleOverrideProjection.ts:25-29, reviewService.ts:312-345).
OverrideIsLastWish ==
  \A a \in Known : OverrideState(log, a) = ruling[a] /\ AuditState(log, a) = ruling[a]

\* The log is well formed and says what was asked last.
LogIsLastWish == TypeOK /\ StateIsLastWish /\ OverrideIsLastWish

\* Nothing in the log is removed, reordered or rewritten but for one back-fill of
\* reverted_by_action_id per set (actionRepository.ts:14-17).
LogOnlyGrows ==
  [][/\ Len(log) <= Len(log')
     /\ \A i \in DOMAIN log :
          log'[i] = log[i] \/ (log[i].by = 0 /\ log'[i] = [log[i] EXCEPT !.by = log'[i].by])]_vars

\* A request answered with a stored batch gets the recommendations and the
\* reasons it would get if they were computed again (computeBatchKey, 171-174).
ReuseIsFresh ==
  \A b \in batches : LET scope == DOMAIN b.key.identity
                    IN  b.key = BatchKey(scope) => b.set = RecommendationSet(scope)

RecommendedBy(set) == {r.version : r \in set.recommendations}

\* Every version asked about is recommended or blocked with one reason, never
\* both, priorities count from 1 without a gap, and what capacity leaves out is of
\* no better kind than what is recommended.
ScopeIsAccounted ==
  \A scope \in Scopes :
    LET set == RecommendationSet(scope)
        named == RecommendedBy(set)
    IN  /\ named \cup {b.version : b \in set.blocked} = scope
        /\ Cardinality(set.recommendations) + Cardinality(set.blocked) = Cardinality(scope)
        /\ {r.priority : r \in set.recommendations} = 1..Cardinality(named)
        /\ \A b \in set.blocked : b.reason = "capacity_exceeded" =>
             \A v \in named : KindRank[VerdictOn(v)] <= KindRank[VerdictOn(b.version)]

\* A candidate the user marked as applied is not recommended again, in a fresh
\* batch or a reused one, at this version or a later one, until that is withdrawn;
\* a version is suppressed as ignored only if the user ignored that version, so a
\* candidate whose facts changed may be recommended again (PRD 4.7).  What is recommended
\* was analysed at the version and context now active.
DecisionsHonoured ==
  \A scope \in Scopes :
    LET set == Answer(scope).set
    IN  /\ \A r \in set.recommendations :
             /\ r.version = ActiveVersion(r.version[1])
             /\ records[r.analysis].version = r.version
             /\ records[r.analysis].context = context
        /\ \A v \in RecommendedBy(set) : ~wish[v[1]]["appliedPending"]
        /\ \A b \in set.blocked : b.reason = "ignored_unchanged" => b.version \in dismissed

(* Documented, and not so: what the README's list of divergences refers to. *)

\* recommendationContract.ts:11: an ignored, unchanged candidate is suppressed.
IgnoreHolds ==
  \A scope \in Scopes : RecommendedBy(Answer(scope).set) \cap dismissed = {}

\* recommendationService.ts:35: a hard constraint blocks if it is hit and not
\* overridden to pass.
OverrideUnblocks ==
  \A scope \in Scopes : \A b \in Answer(scope).set.blocked :
    b.reason = "hard_constraint_hit" => OverrideState(log, b.version) # "pass"

\* ruleOverrideProjection.ts:27: the override in force is the most recent one.
LatestOverrideWins == \A a \in Known : OverrideState(log, a) = ruling[a]

\* actionRepository.ts:14-17: a revert back-fills the action it withdraws.
EveryRevertIsBackfilled ==
  \A i \in DOMAIN log : log[i].kind = "revert" => log[log[i].target].by = i

\* Technical design 13.3: the active context versions are part of the batch key,
\* so a batch that is reused carries the versions now active.
ReusedBatchNamesContext == \A scope \in Scopes : Answer(scope).context = context
=============================================================================
