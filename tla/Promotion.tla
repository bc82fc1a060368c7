------------------------------ MODULE Promotion ------------------------------
(***************************************************************************)
(* promotionService.ts, promotionPlan.ts: a radar candidate becomes a      *)
(* formal job, an application and a feedback event in one transaction.     *)
(* The promotion writes to the tables of JobMemory, beside the commands of *)
(* its service and the job routes; here the three share one history.       *)
(*                                                                         *)
(* One candidate is followed; committing a capture with other facts gives  *)
(* it another active version.  The scope of the idempotency key is a       *)
(* function of the version (its company, role and city) and adds nothing   *)
(* to it.  A promotion either commits all it writes or throws and writes   *)
(* nothing, which is not a step.                                           *)
(***************************************************************************)
EXTENDS JobMemory

CONSTANTS Asked,         \* the triggers the clients of the instance send
          MaxVersions, MaxPromotions

ASSUME PromotionAssumption == {MaxVersions, MaxPromotions} \subseteq Nat

VARIABLES jobRows,        \* the jobs in the jobs table
          activeVersion,  \* radar_candidates.active_version_id
          promotions,     \* radar_promotions in the order they were written
          reply           \* the trigger and job of the last request answered, and the promotion it was told of

promotionVars == <<vars, jobRows, activeVersion, promotions, reply>>

\* PROMOTION_DEPTH_ORDER.
Depths == [job_only |-> 0, application |-> 1, feedback |-> 2]

\* The deepest promotion a trigger allows and the event it proves; no_response
\* allows none.
TriggerPolicy ==
  [hr_replied            |-> [depth |-> Depths.feedback, event |-> "hr_replied"],
   contact_exchanged     |-> [depth |-> Depths.feedback, event |-> "hr_contacted"],
   interview_scheduled   |-> [depth |-> Depths.feedback, event |-> "interview_scheduled"],
   explicit_rejection    |-> [depth |-> Depths.feedback, event |-> "rejected"],
   user_priority         |-> [depth |-> Depths.job_only, event |-> "none"],
   user_explicit_request |-> [depth |-> Depths.application, event |-> "none"],
   no_response           |-> [depth |-> -1, event |-> "none"]]

Triggers == DOMAIN TriggerPolicy

\* A request names what the client believes is there: a job (or None), an application (or 0).
Request ==
  [version : 1..MaxVersions, trigger : Triggers, depth : 0..2,
   job : Jobs \cup {None}, app : 0..MaxApplications]

\* Mutated: the requested depth is taken as it is.
EffectiveDepthUnclamped(request) == request.depth

EffectiveDepth(request) ==
  LET max == TriggerPolicy[request.trigger].depth
  IN  IF request.depth <= max THEN request.depth ELSE max

\* The idempotency key: version and effective depth (and the version's scope).
KeyOf(request) == <<request.version, EffectiveDepth(request)>>

ReloadFormalObjects(request) ==
  /\ request.job # None => request.job \in jobRows
  /\ request.app # 0 => request.app \in DOMAIN applications /\ ~applications[request.app].voided

TargetsAgree(request) ==
  request.app # 0 /\ request.job # None => applications[request.app].job = request.job

DerivePlan(request) ==
  /\ request.version = activeVersion
  /\ ReloadFormalObjects(request)
  /\ TriggerPolicy[request.trigger].depth >= 0
  /\ TargetsAgree(request)

PromotionsFor(key) == {p \in DOMAIN promotions : promotions[p].key = key}

\* Rows of a promotion, keyed by what it promotes.
PromotionRowKey(word, key) == <<None, word, key[1], key[2]>>

ApplicationRow(job, key) ==
  [job |-> job, resume |-> None, version |-> 1, voided |-> FALSE, superseded |-> 0,
   key |-> PromotionRowKey("promoted application", key)]

Answer(request, p) == [trigger |-> request.trigger, job |-> request.job, promotion |-> p]

-----------------------------------------------------------------------------
PromotionInit ==
  /\ Init
  /\ jobRows = {applications[a].job : a \in DOMAIN applications}
  /\ activeVersion = 1
  /\ promotions = << >>
  /\ reply = None

\* POST /jobs.
CreateJob(job) ==
  /\ job \notin jobRows
  /\ jobRows' = jobRows \cup {job}
  /\ UNCHANGED <<vars, activeVersion, promotions, reply>>

\* DELETE /jobs/:id, refused by the foreign keys on jobs(id).
DeleteJob(job) ==
  /\ job \in jobRows
  /\ \A a \in DOMAIN applications : applications[a].job # job
  /\ \A p \in DOMAIN promotions : promotions[p].job # job
  /\ jobRows' = jobRows \ {job}
  /\ UNCHANGED <<vars, activeVersion, promotions, reply>>

\* The commit of a changed capture (CandidateIntake) moves the active version.
CandidateChanges ==
  /\ activeVersion < MaxVersions
  /\ activeVersion' = activeVersion + 1
  /\ UNCHANGED <<vars, jobRows, promotions, reply>>

\* A command of jobMemoryService; requireJob finds the job of a new application.
UserCommand ==
  /\ ResumeCommand \/ Command
  /\ \A a \in DOMAIN applications' : applications'[a].job \in jobRows
  /\ UNCHANGED <<jobRows, activeVersion, promotions, reply>>

\* A promotion of this version at this depth is there: it is the answer.
ReplayPromotion(request) ==
  /\ DerivePlan(request)
  /\ \E p \in PromotionsFor(KeyOf(request)) : reply' = Answer(request, p)
  /\ UNCHANGED <<vars, jobRows, activeVersion, promotions>>

\* Mutated: the promotion of an earlier request is not looked for, and the trigger
\* is part of the key that would have refused the row.
WritePromotionAgain(request, new) ==
  LET depth == EffectiveDepth(request)
      job   == IF request.job = None THEN new ELSE request.job
  IN  /\ DerivePlan(request)
      /\ depth = Depths.job_only
      /\ jobRows' = jobRows \cup {job}
      /\ promotions' = Append(promotions, [key |-> KeyOf(request), job |-> job, app |-> 0, event |-> 0])
      /\ reply' = Answer(request, Len(promotions) + 1)
      /\ UNCHANGED <<vars, activeVersion>>

\* The plan is written: what the request names is linked, the rest created.  `new' is
\* the id a created job gets.
WritePromotion(request, new) ==
  LET key   == KeyOf(request)
      depth == EffectiveDepth(request)
      job   == IF request.job = None THEN new ELSE request.job
      app   == IF depth < Depths.application THEN 0
               ELSE IF request.app = 0 THEN Len(applications) + 1 ELSE request.app
      event == IF depth < Depths.feedback THEN 0 ELSE Len(events) + 1
  IN  /\ DerivePlan(request)
      /\ PromotionsFor(key) = {}
      /\ jobRows' = jobRows \cup {job}
      /\ applications' = IF app > Len(applications) THEN Append(applications, ApplicationRow(job, key))
                         ELSE applications
      /\ events' = IF event = 0 THEN events
                   ELSE Append(events, MakeFeedbackEvent(app, TriggerPolicy[request.trigger].event, Now, 0,
                                                         PromotionRowKey("promoted feedback", key)))
      /\ promotions' = Append(promotions, [key |-> key, job |-> job, app |-> app, event |-> event])
      /\ reply' = Answer(request, Len(promotions) + 1)
      /\ UNCHANGED <<resumes, activeResume, activeVersion>>

Requests == {r \in Request : /\ r.version = activeVersion /\ r.trigger \in Asked
                             /\ r.app \in 0..Len(applications)}

NewJobs(request) == IF request.job = None THEN Jobs \ jobRows ELSE {None}

PromotionNext ==
  \/ UserCommand
  \/ CandidateChanges
  \/ \E job \in Jobs : CreateJob(job) \/ DeleteJob(job)
  \/ \E request \in Requests : ReplayPromotion(request)
  \/ /\ Len(promotions) < MaxPromotions
     /\ Len(events) < MaxEvents /\ Len(applications) < MaxApplications
     /\ \E request \in Requests : \E new \in NewJobs(request) : WritePromotion(request, new)

PromotionSpec == PromotionInit /\ [][PromotionNext]_promotionVars

-----------------------------------------------------------------------------
(* Properties.                                                             *)

\* One promotion per version and depth, whatever triggered it, and however often
\* the client asked (promotionPlan.ts, computePromotionIdempotencyKey).
PromotedOnce ==
  \A p, q \in DOMAIN promotions : promotions[p].key = promotions[q].key => p = q

\* A promotion names exactly the rows its depth calls for, its event is about its
\* application, and no row a promotion created is left without one (promotionService.ts:219).
PromotionIsWhole ==
  /\ \A p \in DOMAIN promotions :
       LET row == promotions[p]
       IN  /\ row.app \in 0..Len(applications) /\ row.event \in 0..Len(events)
           /\ row.app # 0 <=> row.key[2] >= Depths.application
           /\ row.event # 0 <=> row.key[2] = Depths.feedback
           /\ row.event # 0 => events[row.event].app = row.app
  /\ \A a \in DOMAIN applications : applications[a].key[2] = "promoted application" =>
       \E p \in DOMAIN promotions : promotions[p].app = a
  /\ \A i \in DOMAIN events : events[i].key[2] = "promoted feedback" =>
       \E p \in DOMAIN promotions : promotions[p].event = i

\* Nothing that still refers to a job outlives it.
JobsInUseStay ==
  /\ \A a \in DOMAIN applications : applications[a].job \in jobRows
  /\ \A p \in DOMAIN promotions : promotions[p].job \in jobRows

\* What a promotion writes is no more than its trigger proves: silence proves
\* nothing, the user's own wish proves no feedback (PRD v0.8, US-09).
ProgressIsProven ==
  [][promotions' # promotions =>
       LET p      == promotions'[Len(promotions')]
           policy == TriggerPolicy[reply'.trigger]
       IN  /\ p.key = <<activeVersion, p.key[2]>>
           /\ p.key[2] <= policy.depth
           /\ p.event # 0 => events'[p.event].type = policy.event]_promotionVars

\* A voided application receives nothing more, from a promotion either.
VoidedIsLeftAlone ==
  [][\A a \in DOMAIN applications : applications[a].voided =>
       /\ applications'[a] = applications[a]
       /\ EventsOf(events', a) = EventsOf(events, a)]_promotionVars

\* However often a promotion is asked for, and wherever it fails, its rows are written
\* once, all of them or none (promote, writePromotion).
PromotedWholeOnce == PromotedOnce /\ PromotionIsWhole


(* Documented, and not so: what the README's list of divergences refers to. *)

\* Technical design v0.7.0-b, section 16: the row version moves with every event.
EventsMoveTheVersion ==
  [][\A a \in DOMAIN applications :
       EventsOf(events', a) # EventsOf(events, a) =>
         applications'[a].version # applications[a].version]_promotionVars

\* Technical design v0.7.0-b, line 691: an application is created together with its
\* application_created event.
CreationIsRecorded ==
  \A a \in DOMAIN applications : \E i \in EventsOf(events, a) :
    events[i].type \in {"application_created", "legacy_status_imported"}

\* promotionPlan.ts:127: the facts must not hang on another job than their application.
ApplicationBelongs ==
  \A p \in DOMAIN promotions :
    promotions[p].app # 0 => applications[promotions[p].app].job = promotions[p].job

\* promotionPlan.ts:67: two requests for different jobs do not displace each other.
AnswerNamesTarget ==
  reply # None /\ reply.job # None => promotions[reply.promotion].job = reply.job

\* PRD v0.8, US-09: an existing job is linked before one is created.
OneJobPerVersion ==
  \A p, q \in DOMAIN promotions :
    promotions[p].key[1] = promotions[q].key[1] => promotions[p].job = promotions[q].job
=============================================================================
