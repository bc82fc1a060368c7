------------------------------ MODULE JobMemory ------------------------------
(***************************************************************************)
(* jobMemoryService.ts: applications to jobs, the append-only feedback     *)
(* events about them and the resume versions they name.                    *)
(*                                                                         *)
(* Several browser tabs write.  A command carries an idempotency key and   *)
(* may arrive again after its answer was lost; a command on an existing    *)
(* application also carries the row version its tab read, which may be any *)
(* earlier one.  A command is one SQLite transaction, hence one step: a    *)
(* refused command changes nothing and is not a step.                      *)
(***************************************************************************)
EXTENDS ApplicationProjection

CONSTANTS Jobs, Resumes, Keys, None,
          UserTypes,       \* the user event types of the instance
          Times,           \* business times
          LegacyStatuses,  \* statuses a migrated application may come from
          MaxApplications,
          MaxEvents,       \* events after which no command is sent
          MaxResumeEvents  \* the same where there is a resume version

ASSUME JobMemoryAssumption ==
  /\ UserTypes \subseteq UserEventTypes
  /\ Times \subseteq Nat /\ \E t \in Times : \A u \in Times : u <= t
  /\ LegacyStatuses \subseteq DOMAIN LegacySeeds
  /\ {MaxApplications, MaxEvents, MaxResumeEvents} \subseteq Nat

\* The key of a command, and the keys the service derives from it.
KeyFor(key, word) == <<key, word, 0, 0>>
Words == {"", "created", "initial", "replacement", "migration", "metadata", "void",
          "promoted application", "promoted feedback",
          "imported application", "imported created", "imported event"}
DerivedKeys == (Keys \cup {None}) \X Words \X Nat \X Nat

VARIABLES applications,  \* applications in the order they were created
          events,        \* feedback_events in the order they were written
          resumes,       \* resume -> "none", "live" or "archived"
          activeResume   \* app_meta.active_resume_version_id, or None

vars == <<applications, events, resumes, activeResume>>

\* The key of an audit event names the application and its new row version.
AuditKey(a, word) == <<None, word, a, applications[a].version + 1>>

\* `superseded' is superseded_by_application_id (0: null).
Application ==
  [job : Jobs, resume : Resumes \cup {None}, version : Nat, voided : BOOLEAN,
   superseded : Nat, key : DerivedKeys]

Event ==
  [app : Nat, type : EventTypes, at : Nat, target : Nat, legacy : {""} \cup LegacyStatuses,
   key : DerivedKeys]

MakeFeedbackEvent(app, type, at, target, key) ==
  [app |-> app, type |-> type, at |-> at, target |-> target, legacy |-> "", key |-> key]

AppKeys == {applications[a].key : a \in DOMAIN applications}
EventKeys == {events[i].key : i \in DOMAIN events}
Now == CHOOSE t \in Times : \A u \in Times : u <= t

Selectable(resume) == resume # None => resumes[resume] = "live"

AssertApplicationWritable(a, expected) ==
  /\ a \in DOMAIN applications
  /\ ~applications[a].voided
  /\ applications[a].version = expected

\* Mutated: the event is appended and the row version kept.
IncrementNothing(a) == applications

IncrementVersion(a) == [applications EXCEPT ![a].version = @ + 1]

-----------------------------------------------------------------------------
\* The migration leaves at most one application, with its legacy event.
Init ==
  /\ \/ applications = << >> /\ events = << >>
     \/ \E job \in Jobs, status \in LegacyStatuses, key \in Keys :
          /\ applications = <<[job |-> job, resume |-> None, version |-> 1, voided |-> FALSE,
                               superseded |-> 0, key |-> KeyFor(key, "migration")]>>
          /\ events = <<[MakeFeedbackEvent(1, "legacy_status_imported", 0, 0, KeyFor(key, "migration"))
                           EXCEPT !.legacy = status]>>
  /\ resumes = [r \in Resumes |-> "none"]
  /\ activeResume = None

CreateResumeVersion(r) ==
  /\ resumes[r] = "none"
  /\ resumes' = [resumes EXCEPT ![r] = "live"]
  /\ UNCHANGED <<applications, events, activeResume>>

ActivateResumeVersion(r) ==
  /\ resumes[r] = "live"
  /\ activeResume' = r
  /\ UNCHANGED <<applications, events, resumes>>

\* `replacement' is None for clearActive; both are only allowed, and one of them
\* asked for, when the active version is archived.
ArchiveResumeVersion(r, replacement) ==
  /\ resumes[r] = "live"
  /\ IF activeResume = r
     THEN /\ replacement # r
          /\ replacement # None => resumes[replacement] = "live"
          /\ activeResume' = replacement
     ELSE replacement = None /\ UNCHANGED activeResume
  /\ resumes' = [resumes EXCEPT ![r] = "archived"]
  /\ UNCHANGED <<applications, events>>

\* Mutated: the row that is there already is ignored, its events are written again.
CreateApplicationIgnoringConflict(key, job, resume, initial, at) ==
  LET a == Len(applications) + 1
  IN  /\ Selectable(resume)
      /\ applications' = IF KeyFor(key, "") \in AppKeys THEN applications ELSE Append(applications,
           [job |-> job, resume |-> resume, version |-> 1, voided |-> FALSE,
            superseded |-> 0, key |-> KeyFor(key, "")])
      /\ events' = Append(events, MakeFeedbackEvent(a, "application_created", Now, 0, KeyFor(key, "created")))
      /\ UNCHANGED <<resumes, activeResume>>

CreateApplication(key, job, resume, initial, at) ==
  LET a == Len(applications) + 1
      created == MakeFeedbackEvent(a, "application_created", Now, 0, KeyFor(key, "created"))
  IN  /\ KeyFor(key, "") \notin AppKeys
      /\ Selectable(resume)
      /\ KeyFor(key, "created") \notin EventKeys
      /\ applications' = Append(applications,
           [job |-> job, resume |-> resume, version |-> 1, voided |-> FALSE,
            superseded |-> 0, key |-> KeyFor(key, "")])
      /\ events' = IF initial = None THEN Append(events, created)
                   ELSE events \o <<created, MakeFeedbackEvent(a, initial, at, 0, KeyFor(key, "initial"))>>
      /\ UNCHANGED <<resumes, activeResume>>

AppendFeedbackEvent(key, a, expected, type, at) ==
  /\ KeyFor(key, "") \notin EventKeys
  /\ AssertApplicationWritable(a, expected)
  /\ events' = Append(events, MakeFeedbackEvent(a, type, at, 0, KeyFor(key, "")))
  /\ applications' = IncrementVersion(a)
  /\ UNCHANGED <<resumes, activeResume>>

\* Mutated: an event that was voided already can be voided again.
VoidFeedbackEventAgain(key, target, expected, replacement, at) ==
  LET a == events[target].app
  IN  /\ KeyFor(key, "") \notin EventKeys
      /\ events[target].type # "event_voided"
      /\ AssertApplicationWritable(a, expected)
      /\ events' = Append(events, MakeFeedbackEvent(a, "event_voided", Now, target, KeyFor(key, "")))
      /\ applications' = IncrementVersion(a)
      /\ UNCHANGED <<resumes, activeResume>>

VoidFeedbackEvent(key, target, expected, replacement, at) ==
  LET a == events[target].app
      voided == MakeFeedbackEvent(a, "event_voided", Now, target, KeyFor(key, ""))
  IN  /\ KeyFor(key, "") \notin EventKeys
      /\ events[target].type # "event_voided"
      /\ AssertApplicationWritable(a, expected)
      /\ \A i \in DOMAIN events : ~(events[i].type = "event_voided" /\ events[i].target = target)
      /\ events' = IF replacement = None THEN Append(events, voided)
                   ELSE events \o <<voided, MakeFeedbackEvent(a, replacement, at, 0, KeyFor(key, "replacement"))>>
      /\ applications' = IncrementVersion(a)
      /\ UNCHANGED <<resumes, activeResume>>

UpdateApplicationMetadata(a, expected, resume) ==
  /\ AssertApplicationWritable(a, expected)
  /\ Selectable(resume)
  /\ resume # applications[a].resume
  /\ applications' = [IncrementVersion(a) EXCEPT ![a].resume = resume]
  /\ events' = Append(events, MakeFeedbackEvent(a, "application_metadata_corrected", Now, 0,
                                                AuditKey(a, "metadata")))
  /\ UNCHANGED <<resumes, activeResume>>

VoidApplication(a, expected, successor) ==
  /\ AssertApplicationWritable(a, expected)
  /\ successor # 0 => /\ successor \in DOMAIN applications
                      /\ successor # a
                      /\ applications[successor].job = applications[a].job
                      /\ ~applications[successor].voided
  /\ applications' = [IncrementVersion(a) EXCEPT ![a].voided = TRUE, ![a].superseded = successor]
  /\ events' = Append(events, MakeFeedbackEvent(a, "application_voided", Now, 0,
                                                AuditKey(a, "void")))
  /\ UNCHANGED <<resumes, activeResume>>

\* The model's bound.
InUse == {r \in Resumes : resumes[r] # "none"}
Bound == IF InUse = {} THEN MaxEvents ELSE MaxResumeEvents

\* The row versions a tab may have read.
ReadVersions(a) == 1..applications[a].version

ResumeCommand ==
  /\ Len(events) <= MaxResumeEvents
  /\ \E r \in Resumes :
       \/ CreateResumeVersion(r)
       \/ ActivateResumeVersion(r)
       \/ \E replacement \in Resumes \cup {None} : ArchiveResumeVersion(r, replacement)

Command ==
  /\ Len(events) < Bound
  /\ \/ /\ Len(applications) < MaxApplications
        /\ \E key \in Keys, job \in Jobs, resume \in Resumes \cup {None},
              initial \in UserTypes \cup {None}, at \in Times :
             CreateApplication(key, job, resume, initial, at)
     \/ \E a \in DOMAIN applications : \E expected \in ReadVersions(a) :
          \/ \E key \in Keys, type \in UserTypes, at \in Times :
               AppendFeedbackEvent(key, a, expected, type, at)
          \/ \E resume \in Resumes \cup {None} : UpdateApplicationMetadata(a, expected, resume)
          \/ \E successor \in 0..Len(applications) : VoidApplication(a, expected, successor)
     \/ \E target \in DOMAIN events : \E expected \in ReadVersions(events[target].app) :
          \E key \in Keys, replacement \in UserTypes \cup {None}, at \in Times :
            VoidFeedbackEvent(key, target, expected, replacement, at)

Next == ResumeCommand \/ Command

Spec == Init /\ [][Next]_vars

-----------------------------------------------------------------------------
(* Properties.                                                             *)

\* Types, and that no event, void or successor refers to a row that is not there
\* (technical design v0.7.0-b, section 16: no orphan event after a failed write).
TypeOK ==
  /\ \A a \in DOMAIN applications : /\ applications[a] \in Application
                                   /\ applications[a].superseded \in 0..Len(applications)
  /\ \A i \in DOMAIN events : /\ events[i] \in Event
                             /\ events[i].app \in DOMAIN applications
                             /\ events[i].target \in 0..(i - 1)
  /\ resumes \in [Resumes -> {"none", "live", "archived"}]
  /\ activeResume \in {r \in Resumes : resumes[r] = "live"} \cup {None}

\* A row version stands for one set of events and facts: whatever is written about
\* an application moves its version, so a tab that presents the version now stored
\* has seen everything (technical design v0.7.0-b, section 16).
VersionNamesContents ==
  [][\A a \in DOMAIN applications :
       /\ applications'[a].version >= applications[a].version
       /\ (EventsOf(events', a) # EventsOf(events, a) \/ applications'[a] # applications[a])
            => applications'[a].version = applications[a].version + 1]_vars

\* A command that arrives again does nothing: no two applications and no two
\* events carry one key.
KeysOnce ==
  /\ \A a, b \in DOMAIN applications : applications[a].key = applications[b].key => a = b
  /\ \A i, j \in DOMAIN events : events[i].key = events[j].key => i = j

\* Nothing is recorded about a voided application, and it stays as it was left.
VoidedStays ==
  [][\A a \in DOMAIN applications : applications[a].voided =>
       /\ applications'[a] = applications[a]
       /\ EventsOf(events', a) = EventsOf(events, a)]_vars

\* A voided application is succeeded within its job, and following the successors never
\* comes back: of whatever applications one looks at, some one is not succeeded by another
\* of them.
SuccessorsEnd ==
  /\ \A a \in DOMAIN applications : applications[a].superseded # 0 =>
       /\ applications[a].voided
       /\ applications[applications[a].superseded].job = applications[a].job
  /\ \A S \in SUBSET DOMAIN applications : S # {} => \E a \in S : applications[a].superseded \notin S

\* An application comes to name a resume version only while that is live.
ResumeChosenLive ==
  [][\A a \in DOMAIN applications' :
       LET before == IF a \in DOMAIN applications THEN applications[a].resume ELSE None
       IN  applications'[a].resume \notin {None, before} => resumes[applications'[a].resume] = "live"]_vars

\* What the service writes is never a log the projection calls invalid; the warnings it
\* leaves are the two about the order of business events and, of an application that was
\* migrated, the one that names its only seed; and a paused process knows where to resume,
\* unless the migration found it paused (projectApplication.ts:405-485).
ProjectionIsClean ==
  \A a \in DOMAIN applications :
    LET p == ProjectApplication(events, a, applications[a].voided)
        s == Folded(events, a)
    IN  /\ p.errors = {}
        /\ \A w \in p.warnings :
             \/ w[1] \in {"EVENT_AFTER_CLOSED", "RESUME_WITHOUT_PAUSE"}
             \/ w[1] = "LEGACY_SEED_APPLIED" /\ SeedEvents(events, a) = {w[2]}
        /\ s.pausedStage # "paused"
        /\ s.stage = "paused" /\ LegacySeedOf(events, a).stage # "paused" => s.pausedStage # "none"

\* A process ends with the first closing event in business time and stays ended:
\* every business event after it is reported, none before it.
ClosedIsFinal ==
  \A a \in DOMAIN applications :
    LET line == BusinessEvents(events, a)
        closers == {k \in DOMAIN line : line[k].type \in DOMAIN Closings}
        s == Folded(events, a)
    IN  ~LegacySeedOf(events, a).closed =>
          /\ s.closed <=> closers # {}
          /\ {w[2] : w \in {v \in s.warned : v[1] = "EVENT_AFTER_CLOSED"}} =
               {line[k].id : k \in {j \in DOMAIN line : \E c \in closers : c < j}}
          /\ closers # {} => s.outcome = Closings[line[CHOOSE c \in closers : \A d \in closers : c <= d].type][1]
=============================================================================
