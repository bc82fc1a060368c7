------------------------ MODULE ApplicationProjection ------------------------
(***************************************************************************)
(* projectApplication.ts: the stage of an application is never stored, it  *)
(* is folded from the feedback events recorded about it, in the order they *)
(* happened rather than the order they were written down.                  *)
(*                                                                         *)
(* A log is a sequence of events in the order they were written, which is  *)
(* the order of created_at; two events written by one command at one       *)
(* millisecond are ordered by their random ids in the code and as written  *)
(* here.  Dates other than the business time of an event, contact channels *)
(* and payload texts are left out, and so are the complaints about rows    *)
(* that violate their schema and about one id, or one idempotency key, in  *)
(* two events: a log has each position once and the table each key once.   *)
(***************************************************************************)
EXTENDS Integers, Sequences, FiniteSets, SequencesExt

\* Events that move the stage and the communication status: <<stage, status>>.
Moves ==
  [applied             |-> <<"applied", "not_contacted">>,
   hr_contacted        |-> <<"contacted", "replied">>,
   greeting_sent       |-> <<"contacted", "greeted_unread">>,
   message_viewed      |-> <<"contacted", "greeted_read_no_reply">>,
   hr_replied          |-> <<"contacted", "replied">>,
   resume_requested    |-> <<"screening", "replied">>,
   phone_screen        |-> <<"screening", "replied">>,
   interview_scheduled |-> <<"interviewing", "interviewing">>,
   interview_completed |-> <<"interviewing", "interviewing">>,
   interview_advanced  |-> <<"interviewing", "interviewing">>,
   offer_received      |-> <<"offer", "replied">>]

\* Events that close the process: <<outcome, status>>.
Closings ==
  [rejected        |-> <<"rejected", "rejected">>,
   user_withdrew   |-> <<"user_withdrew", "closed">>,
   position_closed |-> <<"position_closed", "closed">>,
   marked_stale    |-> <<"stale", "closed">>,
   offer_declined  |-> <<"offer_declined", "closed">>,
   offer_accepted  |-> <<"offer_accepted", "closed">>]

Pauses == {"recruitment_paused", "recruitment_frozen"}

UserEventTypes ==
  DOMAIN Moves \cup DOMAIN Closings \cup Pauses
    \cup {"follow_up_sent", "no_response_recorded", "process_resumed"}

AuditEventTypes ==
  {"legacy_status_imported", "application_metadata_corrected", "application_voided", "event_voided"}

EventTypes == UserEventTypes \cup AuditEventTypes \cup {"application_created"}

\* A migrated application starts from what its old status said:
\* <<stage, outcome, status, closed>>.
LegacySeeds ==
  [not_contacted         |-> <<"created", "none", "not_contacted", FALSE>>,
   greeted_unread        |-> <<"contacted", "none", "greeted_unread", FALSE>>,
   greeted_read_no_reply |-> <<"contacted", "none", "greeted_read_no_reply", FALSE>>,
   replied               |-> <<"contacted", "none", "replied", FALSE>>,
   interviewing          |-> <<"interviewing", "none", "interviewing", FALSE>>,
   paused                |-> <<"paused", "none", "paused", FALSE>>,
   closed                |-> <<"closed", "none", "closed", TRUE>>,
   rejected              |-> <<"closed", "rejected", "rejected", TRUE>>]

EmptyState ==
  [stage |-> "created", outcome |-> "none", status |-> "not_contacted", closed |-> FALSE,
   pausedStage |-> "none", pausedStatus |-> "none", followUps |-> 0, warned |-> {}]

MoveTo(s, stage, status) == [s EXCEPT !.stage = stage, !.status = status]

Close(s, outcome, status) ==
  [s EXCEPT !.stage = "closed", !.outcome = outcome, !.status = status, !.closed = TRUE]

Pause(s) ==
  IF s.stage = "paused" THEN MoveTo(s, "paused", "paused")
  ELSE [MoveTo(s, "paused", "paused") EXCEPT !.pausedStage = s.stage, !.pausedStatus = s.status]

CanResume(s) == s.stage = "paused" /\ s.pausedStage # "none"

Resume(s) ==
  [MoveTo(s, s.pausedStage, s.pausedStatus) EXCEPT !.pausedStage = "none", !.pausedStatus = "none"]

FollowUp(s) ==
  [MoveTo(s, IF s.stage \in {"created", "applied"} THEN "contacted" ELSE s.stage, "greeted_unread")
     EXCEPT !.followUps = @ + 1]

\* Mutated: an event recorded after the end of the process counts.
ReduceReopening(s, e) ==
  CASE e.type \in DOMAIN Moves    -> [MoveTo(s, Moves[e.type][1], Moves[e.type][2]) EXCEPT !.closed = FALSE]
    [] e.type \in DOMAIN Closings -> Close(s, Closings[e.type][1], Closings[e.type][2])
    [] OTHER                      -> s

\* One business event; `e.id' is its place in the log.
ReduceBusinessEvent(s, e) ==
  CASE s.closed                                     -> [s EXCEPT !.warned = @ \cup {<<"EVENT_AFTER_CLOSED", e.id>>}]
    [] ~s.closed /\ e.type \in DOMAIN Moves         -> MoveTo(s, Moves[e.type][1], Moves[e.type][2])
    [] ~s.closed /\ e.type \in DOMAIN Closings      -> Close(s, Closings[e.type][1], Closings[e.type][2])
    [] ~s.closed /\ e.type \in Pauses               -> Pause(s)
    [] ~s.closed /\ e.type = "follow_up_sent"       -> FollowUp(s)
    [] ~s.closed /\ e.type = "process_resumed" /\ CanResume(s)  -> Resume(s)
    [] ~s.closed /\ e.type = "process_resumed" /\ ~CanResume(s) ->
         [s EXCEPT !.warned = @ \cup {<<"RESUME_WITHOUT_PAUSE", e.id>>}]
    [] OTHER                                        -> s

\* A later business event may reopen what only the migration said was closed.
Reopens(e) == e.type \notin {"application_created", "no_response_recorded"}

Reduce(acc, e) ==
  IF acc.legacyClosed /\ Reopens(e)
  THEN [legacyClosed |-> FALSE,
        state |-> ReduceBusinessEvent(
                    [acc.state EXCEPT !.stage = "created", !.outcome = "none",
                                      !.status = "not_contacted", !.closed = FALSE], e)]
  ELSE [acc EXCEPT !.state = ReduceBusinessEvent(acc.state, e)]

-----------------------------------------------------------------------------
EventsOf(log, app) == {i \in DOMAIN log : log[i].app = app}

VoidsOf(log, app) == {i \in EventsOf(log, app) : log[i].type = "event_voided"}

\* What the projection calls invalid about the void events of an application.
VoidErrors(log, app) ==
  {<<"VOID_TARGET_OTHER_APPLICATION", i>> : i \in
     {k \in VoidsOf(log, app) : log[k].target \in DOMAIN log /\ log[log[k].target].app # app}} \cup
  {<<"VOID_TARGET_IS_VOID", i>> : i \in
     {k \in VoidsOf(log, app) : log[k].target \in VoidsOf(log, app)}}

\* What it only warns of.
VoidWarnings(log, app) ==
  {<<"VOID_TARGET_NOT_FOUND", i>> : i \in {k \in VoidsOf(log, app) : log[k].target \notin DOMAIN log}} \cup
  {<<"DUPLICATE_VOID", i>> : i \in
     {k \in VoidsOf(log, app) :
        /\ log[k].target \in EventsOf(log, app) \ VoidsOf(log, app)
        /\ \E j \in VoidsOf(log, app) : j < k /\ log[j].target = log[k].target}}

VoidedEvents(log, app) ==
  {log[i].target : i \in VoidsOf(log, app)} \cap (EventsOf(log, app) \ VoidsOf(log, app))

ActiveEvents(log, app) == EventsOf(log, app) \ VoidedEvents(log, app)

\* compareBusinessTime.
Before(log, i, j) == log[i].at < log[j].at \/ (log[i].at = log[j].at /\ i < j)

\* S in the order of a relation: the k-th is the one with k - 1 before it.
InOrder(S, precedes) ==
  [k \in 1..Cardinality(S) |->
     CHOOSE x \in S : Cardinality({y \in S : <<y, x>> \in precedes}) = k - 1]

BusinessOrder(log, S) == InOrder(S, {p \in S \X S : Before(log, p[1], p[2])})

BusinessEvents(log, app) ==
  LET order == BusinessOrder(log, {i \in ActiveEvents(log, app) : log[i].type \notin AuditEventTypes})
  IN  [k \in DOMAIN order |-> [type |-> log[order[k]].type, id |-> order[k]]]

SeedEvents(log, app) == {i \in ActiveEvents(log, app) : log[i].type = "legacy_status_imported"}

LegacySeedOf(log, app) ==
  LET seeds == SeedEvents(log, app)
  IN  IF seeds = {} THEN EmptyState
      ELSE LET seed == LegacySeeds[log[CHOOSE i \in seeds : \A j \in seeds : i <= j].legacy]
           IN  [EmptyState EXCEPT !.stage = seed[1], !.outcome = seed[2],
                                  !.status = seed[3], !.closed = seed[4]]

\* The earliest seed is used, and reported; so is that there are others.
SeedWarnings(log, app) ==
  LET seeds == SeedEvents(log, app)
      earliest == {i \in seeds : \A j \in seeds : i <= j}
  IN  {<<"LEGACY_SEED_APPLIED", i>> : i \in earliest} \cup
      {<<"MULTIPLE_LEGACY_SEEDS", i>> : i \in {k \in earliest : seeds # {k}}}

\* The fold, before a void of the whole application hides it.
Folded(log, app) ==
  FoldLeft(Reduce, [state |-> LegacySeedOf(log, app), legacyClosed |-> LegacySeedOf(log, app).closed],
           BusinessEvents(log, app)).state

\* The audit event of a voided application and its row must agree.
VoidAudited(log, app) == \E i \in ActiveEvents(log, app) : log[i].type = "application_voided"

AuditWarnings(log, app, voided) ==
  (IF voided /\ ~VoidAudited(log, app) THEN {<<"APPLICATION_VOID_AUDIT_MISSING", 0>>} ELSE {}) \cup
  (IF ~voided /\ VoidAudited(log, app) THEN {<<"APPLICATION_VOID_AUDIT_WITHOUT_ROW", 0>>} ELSE {})

ProjectApplication(log, app, voided) ==
  LET s == Folded(log, app)
  IN  [stage    |-> IF voided THEN "closed" ELSE s.stage,
       outcome  |-> IF voided THEN "none" ELSE s.outcome,
       closed   |-> voided \/ s.closed,
       errors   |-> VoidErrors(log, app),
       warnings |-> s.warned \cup VoidWarnings(log, app) \cup AuditWarnings(log, app, voided)
                      \cup SeedWarnings(log, app)]
=============================================================================
