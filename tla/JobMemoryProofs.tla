---------------------------- MODULE JobMemoryProofs ----------------------------
(***************************************************************************)
(* For any number of tabs, keys, applications and events: a command that   *)
(* arrives again does nothing, the row version of an application stands    *)
(* for one set of facts and events, every reference leads to a row, and    *)
(* what the projection makes of the log is never invalid and ends with the *)
(* first event that closes the process.  For any number of candidates'     *)
(* versions, jobs and requests beside them: a promotion into the job       *)
(* memory is written once and whole, and writes no more than its trigger   *)
(* proves.  For any number of drafts and notes: an import makes what its   *)
(* preview showed, once, and all of the above holds beside it.             *)
(***************************************************************************)
EXTENDS Promotion, HistoryImport, FiniteSetTheorems, TLAPS

-----------------------------------------------------------------------------
(* The inductive invariant.  The keys a command derives are not looked up   *)
(* by the code: they are free because the key they are derived from is, and *)
(* because an audit key names a row version that is still to come.          *)

LogTyped == applications \in Seq(Application) /\ events \in Seq(Event)

Traced(key, keys, apps) ==
  /\ key[2] = "initial" => KeyFor(key[1], "created") \in keys
  /\ key[2] = "replacement" => KeyFor(key[1], "") \in keys
  /\ key[2] \in {"metadata", "void"} => key[3] \in DOMAIN apps /\ key[4] <= apps[key[3]].version

KeysTraced(keys, apps) == \A key \in keys : Traced(key, keys, apps)

LogInv == LogTyped /\ KeysOnce /\ KeysTraced(EventKeys, applications)

KeysOf(log) == {log[i].key : i \in DOMAIN log}
Distinct(log) == \A i, j \in DOMAIN log : log[i].key = log[j].key => i = j

-----------------------------------------------------------------------------
(* What appending a row does.                                               *)

\* A row with a new key keeps the keys of a log distinct, and the other rows where they
\* are (insert of the two repositories).
LEMMA RowAppended ==
  ASSUME NEW Row, NEW log \in Seq(Row), NEW row \in Row, Distinct(log), row.key \notin KeysOf(log)
  PROVE  /\ Append(log, row) \in Seq(Row)
         /\ Distinct(Append(log, row))
         /\ KeysOf(Append(log, row)) = KeysOf(log) \cup {row.key}
         /\ DOMAIN Append(log, row) = DOMAIN log \cup {Len(log) + 1}
         /\ \A i \in DOMAIN log : Append(log, row)[i] = log[i]
         /\ Append(log, row)[Len(log) + 1] = row
         /\ Len(log) + 1 \notin DOMAIN log
<1> DEFINE more == Append(log, row)
<1>1. /\ more \in Seq(Row)
      /\ DOMAIN more = DOMAIN log \cup {Len(log) + 1}
      /\ \A i \in DOMAIN log : more[i] = log[i]
      /\ more[Len(log) + 1] = row
      /\ Len(log) + 1 \notin DOMAIN log
  OBVIOUS
<1> HIDE DEF more
<1>2. KeysOf(more) = KeysOf(log) \cup {row.key}
  BY <1>1 DEF KeysOf
<1>3. Distinct(more)
  BY <1>1 DEF KeysOf, Distinct
<1> QED BY <1>1, <1>2, <1>3 DEF more

\* It stands at the end, the others where they were.
LEMMA RowAtTheEnd ==
  ASSUME NEW Row, NEW log \in Seq(Row), NEW row \in Row
  PROVE  /\ DOMAIN Append(log, row) = DOMAIN log \cup {Len(log) + 1}
         /\ \A i \in DOMAIN log : Append(log, row)[i] = log[i]
         /\ Append(log, row)[Len(log) + 1] = row
OBVIOUS

\* The entries of a log are of its type.
LEMMA RowOfLog ==
  ASSUME NEW Row, NEW log \in Seq(Row)
  PROVE  \A i \in DOMAIN log : log[i] \in Row
OBVIOUS

\* Two rows at the end are one after the other.
LEMMA TwoAppended ==
  ASSUME NEW Row, NEW log \in Seq(Row), NEW r \in Row, NEW s \in Row
  PROVE  log \o <<r, s>> = Append(Append(log, r), s)
OBVIOUS

\* An appended event is about one application only.
LEMMA EventsElsewhere ==
  ASSUME NEW log \in Seq(Event), NEW e \in Event, NEW a, e.app # a
  PROVE  EventsOf(Append(log, e), a) = EventsOf(log, a)
<1>1. /\ DOMAIN Append(log, e) = DOMAIN log \cup {Len(log) + 1}
      /\ \A i \in DOMAIN log : Append(log, e)[i] = log[i]
      /\ Append(log, e)[Len(log) + 1] = e
  OBVIOUS
<1> QED BY <1>1 DEF EventsOf

\* A key stays traced when there are more keys and the versions only grow.
LEMMA TracedStays ==
  ASSUME NEW keys, NEW more, keys \subseteq more, KeysTraced(keys, applications),
         LogTyped, applications' \in Seq(Application),
         DOMAIN applications \subseteq DOMAIN applications',
         \A a \in DOMAIN applications : applications'[a].version >= applications[a].version,
         keys \subseteq DerivedKeys
  PROVE  \A key \in keys : Traced(key, more, applications')
<1> SUFFICES ASSUME NEW key \in keys PROVE Traced(key, more, applications')
  OBVIOUS
<1>1. Traced(key, keys, applications)
  BY DEF KeysTraced
<1>2. key[4] \in Nat
  BY DEF DerivedKeys
<1>3. \A a \in DOMAIN applications : applications[a].version \in Nat /\ applications'[a].version \in Nat
  <2>1. /\ \A a \in DOMAIN applications : applications[a] \in Application
        /\ \A a \in DOMAIN applications' : applications'[a] \in Application
    BY RowOfLog DEF LogTyped
  <2> QED BY <2>1 DEF Application
<1>4. CASE key[2] \in {"metadata", "void"}
  <2>1. /\ key[3] \in DOMAIN applications
        /\ key[4] <= applications[key[3]].version
        /\ applications'[key[3]].version >= applications[key[3]].version
    BY <1>1, <1>4 DEF Traced
  <2>2. /\ applications[key[3]].version \in Nat
        /\ applications'[key[3]].version \in Nat
    BY <1>3, <2>1
  <2>3. key[4] <= applications'[key[3]].version
    BY <1>2, <2>1, <2>2
  <2>4. key[2] # "initial" /\ key[2] # "replacement"
    BY <1>4
  <2> QED BY <2>1, <2>3, <2>4 DEF Traced
<1>5. CASE key[2] \notin {"metadata", "void"}
  BY <1>1, <1>5 DEF Traced
<1> QED BY <1>4, <1>5

LEMMA DerivedKey ==
  ASSUME NEW key \in Keys \cup {None}, NEW word \in Words, NEW id \in Nat, NEW number \in Nat
  PROVE  <<key, word, id, number>> \in DerivedKeys
BY DEF DerivedKeys

LEMMA KeyTypes ==
  ASSUME NEW key \in Keys, NEW word \in Words
  PROVE  /\ KeyFor(key, word) \in DerivedKeys
         /\ KeyFor(key, word)[1] = key
         /\ KeyFor(key, word)[2] = word
BY DerivedKey DEF KeyFor

LEMMA WordsOfKeys == {"", "created", "initial", "replacement", "migration"} \subseteq Words
BY DEF Words

LEMMA TypesOfEvents ==
  /\ UserTypes \subseteq EventTypes
  /\ {"application_created", "event_voided", "application_voided",
      "application_metadata_corrected", "legacy_status_imported"} \subseteq EventTypes
  /\ Now \in Nat
  /\ Times \subseteq Nat
<1>1. Now \in Times
  BY JobMemoryAssumption DEF Now
<1> QED BY <1>1, JobMemoryAssumption DEF EventTypes, AuditEventTypes

LEMMA EventType ==
  ASSUME NEW a \in Nat, NEW type \in EventTypes, NEW at \in Nat, NEW target \in Nat,
         NEW key \in DerivedKeys
  PROVE  /\ MakeFeedbackEvent(a, type, at, target, key) \in Event
         /\ MakeFeedbackEvent(a, type, at, target, key).key = key
         /\ MakeFeedbackEvent(a, type, at, target, key).app = a
BY DEF MakeFeedbackEvent, Event

-----------------------------------------------------------------------------
(* The steps.                                                               *)

\* The row of an application that a command writes, with the version after.
Rewritten(a) ==
  /\ a \in DOMAIN applications
  /\ applications' \in Seq(Application)
  /\ DOMAIN applications' = DOMAIN applications
  /\ \A b \in DOMAIN applications : b # a => applications'[b] = applications[b]
  /\ applications'[a].version = applications[a].version + 1
  /\ applications'[a].key = applications[a].key

\* A row version stands for one set of facts and events.
VersionTells ==
  \A a \in DOMAIN applications :
    /\ applications'[a].version >= applications[a].version
    /\ (EventsOf(events', a) # EventsOf(events, a) \/ applications'[a] # applications[a])
         => applications'[a].version = applications[a].version + 1

\* No command takes a row or an event away or gives it another key, and what it adds
\* carries a key of its own.
CommandWords == {"", "created", "initial", "replacement", "metadata", "void"}
RowsStay ==
  /\ DOMAIN applications \subseteq DOMAIN applications'
  /\ \A a \in DOMAIN applications : applications'[a].key = applications[a].key
  /\ \A a \in DOMAIN applications' \ DOMAIN applications : applications'[a].key[2] \in CommandWords
  /\ DOMAIN events \subseteq DOMAIN events'
  /\ \A i \in DOMAIN events : events'[i] = events[i]
  /\ \A i \in DOMAIN events' \ DOMAIN events : events'[i].key[2] \in CommandWords

StepTells == VersionTells /\ RowsStay

\* Both facts of the rows follow from the row that is rewritten.
LEMMA RewrittenRow ==
  ASSUME LogInv, NEW a, Rewritten(a)
  PROVE  /\ Distinct(applications')
         /\ \A b \in DOMAIN applications : applications'[b].version >= applications[b].version
<1>1. \A b \in DOMAIN applications : applications[b].version \in Nat
  <2>1. \A b \in DOMAIN applications : applications[b] \in Application
    BY RowOfLog DEF LogInv, LogTyped
  <2> QED BY <2>1 DEF Application
<1>2. \A b \in DOMAIN applications : applications'[b].key = applications[b].key
  BY DEF Rewritten
<1>3. Distinct(applications')
  BY <1>2 DEF Rewritten, LogInv, KeysOnce, Distinct
<1> QED BY <1>1, <1>3 DEF Rewritten

\* One event about the application that is rewritten, under a key that is new.
LEMMA OneEventKeeps ==
  ASSUME LogInv, NEW a, Rewritten(a), NEW e \in Event, e.app = a, e.key \notin EventKeys,
         e.key[2] \in CommandWords,
         Traced(e.key, EventKeys \cup {e.key}, applications'),
         events' = Append(events, e)
  PROVE  LogInv' /\ StepTells
<1>1. Distinct(events) /\ KeysOf(events) = EventKeys /\ events \in Seq(Event)
  BY DEF LogInv, LogTyped, KeysOnce, Distinct, KeysOf, EventKeys
<1>2. events' \in Seq(Event) /\ Distinct(events') /\ KeysOf(events') = EventKeys \cup {e.key}
  BY <1>1, RowAppended
<1>3. EventKeys' = EventKeys \cup {e.key}
  BY <1>2 DEF EventKeys, KeysOf
<1>4. EventKeys \subseteq DerivedKeys
  <2>1. \A i \in DOMAIN events : events[i] \in Event
    BY <1>1, RowOfLog
  <2> QED BY <2>1 DEF EventKeys, Event
<1>5. KeysTraced(EventKeys', applications')
  <2>1. \A key \in EventKeys : Traced(key, EventKeys', applications')
    BY <1>3, <1>4, RewrittenRow, TracedStays DEF LogInv, Rewritten
  <2> QED BY <2>1, <1>3 DEF KeysTraced
<1>6. LogInv'
  <2>1. LogTyped'
    BY <1>2 DEF LogTyped, Rewritten
  <2>2. Distinct(applications')
    BY RewrittenRow
  <2>3. KeysOnce'
    BY <1>2, <2>2 DEF KeysOnce, Distinct
  <2> QED BY <1>5, <2>1, <2>3 DEF LogInv
<1>7. \A b \in DOMAIN applications : b # a => EventsOf(events', b) = EventsOf(events, b)
  BY <1>1, EventsElsewhere
<1>8. VersionTells
  BY <1>7, RewrittenRow DEF VersionTells, Rewritten
<1>9. RowsStay
  <2>1. /\ DOMAIN events' = DOMAIN events \cup {Len(events) + 1}
        /\ \A i \in DOMAIN events : events'[i] = events[i]
        /\ events'[Len(events) + 1] = e
    BY <1>1, RowAppended
  <2> QED BY <2>1 DEF RowsStay, Rewritten
<1> QED BY <1>6, <1>8, <1>9 DEF StepTells

\* Two events, the key of the second traced to that of the first.
LEMMA TwoEventsKeep ==
  ASSUME LogInv, NEW a, Rewritten(a), NEW e \in Event, NEW f \in Event, e.app = a, f.app = a,
         e.key[2] \in CommandWords, f.key[2] \in CommandWords,
         e.key \notin EventKeys, f.key \notin EventKeys, e.key # f.key,
         Traced(e.key, EventKeys \cup {e.key, f.key}, applications'),
         Traced(f.key, EventKeys \cup {e.key, f.key}, applications'),
         events' = events \o <<e, f>>
  PROVE  LogInv' /\ StepTells
<1>1. Distinct(events) /\ KeysOf(events) = EventKeys /\ events \in Seq(Event)
  BY DEF LogInv, LogTyped, KeysOnce, Distinct, KeysOf, EventKeys
<1> DEFINE first == Append(events, e)
<1>2. events' = Append(first, f)
  BY <1>1, TwoAppended
<1>3. first \in Seq(Event) /\ Distinct(first) /\ KeysOf(first) = EventKeys \cup {e.key}
  BY <1>1, RowAppended
<1>4. \A b \in DOMAIN applications : b # a => EventsOf(first, b) = EventsOf(events, b)
  BY <1>1, EventsElsewhere
<1> HIDE DEF first
<1>5. events' \in Seq(Event) /\ Distinct(events') /\ KeysOf(events') = EventKeys \cup {e.key, f.key}
  <2>1. f.key \notin KeysOf(first)
    BY <1>3
  <2>2. /\ Append(first, f) \in Seq(Event) /\ Distinct(Append(first, f))
        /\ KeysOf(Append(first, f)) = KeysOf(first) \cup {f.key}
    BY <1>3, <2>1, RowAppended
  <2> QED BY <1>2, <1>3, <2>2
<1>6. EventKeys' = EventKeys \cup {e.key, f.key}
  BY <1>5 DEF EventKeys, KeysOf
<1>7. EventKeys \subseteq DerivedKeys
  <2>1. \A i \in DOMAIN events : events[i] \in Event
    BY <1>1, RowOfLog
  <2> QED BY <2>1 DEF EventKeys, Event
<1>8. KeysTraced(EventKeys', applications')
  <2>1. \A key \in EventKeys : Traced(key, EventKeys', applications')
    BY <1>6, <1>7, RewrittenRow, TracedStays DEF LogInv, Rewritten
  <2> QED BY <2>1, <1>6 DEF KeysTraced
<1>9. LogInv'
  <2>1. LogTyped'
    BY <1>5 DEF LogTyped, Rewritten
  <2>2. Distinct(applications')
    BY RewrittenRow
  <2>3. KeysOnce'
    BY <1>5, <2>2 DEF KeysOnce, Distinct
  <2> QED BY <1>8, <2>1, <2>3 DEF LogInv
<1>10. \A b \in DOMAIN applications : b # a => EventsOf(events', b) = EventsOf(events, b)
  <2>1. \A b \in DOMAIN applications : b # a => EventsOf(Append(first, f), b) = EventsOf(first, b)
    BY <1>3, EventsElsewhere
  <2> QED BY <1>2, <1>4, <2>1
<1>11. VersionTells
  BY <1>10, RewrittenRow DEF VersionTells, Rewritten
<1>12. RowsStay
  <2>1. /\ DOMAIN first = DOMAIN events \cup {Len(events) + 1}
        /\ \A i \in DOMAIN events : first[i] = events[i]
        /\ first[Len(events) + 1] = e
    BY <1>1, RowAppended DEF first
  <2>2. f.key \notin KeysOf(first)
    BY <1>3
  <2>3. /\ DOMAIN events' = DOMAIN first \cup {Len(first) + 1}
        /\ \A i \in DOMAIN first : events'[i] = first[i]
        /\ events'[Len(first) + 1] = f
    BY <1>2, <1>3, <2>2, RowAppended
  <2> QED BY <2>1, <2>3 DEF RowsStay, Rewritten
<1> QED BY <1>9, <1>11, <1>12 DEF StepTells

\* The row of a command that names an application and the version it has.
LEMMA WritableRow ==
  ASSUME LogInv, NEW a, NEW expected, AssertApplicationWritable(a, expected)
  PROVE  /\ a \in DOMAIN applications /\ a \in Nat
         /\ applications[a] \in Application
         /\ applications[a].version \in Nat
<1>1. a \in DOMAIN applications /\ a \in Nat
  BY DEF LogInv, LogTyped, AssertApplicationWritable
<1>2. applications[a] \in Application
  BY <1>1, RowOfLog DEF LogInv, LogTyped
<1> QED BY <1>1, <1>2 DEF Application

\* The fields that a command may give a row keep it a row.
LEMMA RowType ==
  ASSUME NEW row \in Application, NEW resume \in Resumes \cup {None}, NEW successor \in Nat
  PROVE  LET chosen == [row EXCEPT !.version = @ + 1, !.resume = resume]
             voided == [row EXCEPT !.version = @ + 1, !.voided = TRUE, !.superseded = successor]
         IN  /\ chosen \in Application /\ voided \in Application
             /\ chosen.version = row.version + 1 /\ voided.version = row.version + 1
             /\ chosen.key = row.key /\ voided.key = row.key
<1> DEFINE chosen == [row EXCEPT !.version = @ + 1, !.resume = resume]
           voided == [row EXCEPT !.version = @ + 1, !.voided = TRUE, !.superseded = successor]
<1>1. /\ row.job \in Jobs /\ row.resume \in Resumes \cup {None} /\ row.version \in Nat
      /\ row.voided \in BOOLEAN /\ row.superseded \in Nat /\ row.key \in DerivedKeys
  BY DEF Application
<1> DEFINE next == [row EXCEPT !.version = row.version + 1]
<1>2. next \in Application /\ next.version = row.version + 1 /\ next.key = row.key
  BY <1>1 DEF Application
<1>3. chosen = [next EXCEPT !.resume = resume]
  OBVIOUS
<1>4. voided = [[next EXCEPT !.voided = TRUE] EXCEPT !.superseded = successor]
  OBVIOUS
<1> HIDE DEF chosen, voided, next
<1>5. chosen \in Application /\ chosen.version = next.version /\ chosen.key = next.key
  BY <1>2, <1>3 DEF Application
<1>6. voided \in Application /\ voided.version = next.version /\ voided.key = next.key
  <2> DEFINE gone == [next EXCEPT !.voided = TRUE]
  <2>1. gone \in Application /\ gone.version = next.version /\ gone.key = next.key
    BY <1>2 DEF Application
  <2>2. voided = [gone EXCEPT !.superseded = successor]
    BY <1>4
  <2> HIDE DEF gone
  <2> QED BY <2>1, <2>2 DEF Application
<1> QED BY <1>2, <1>5, <1>6 DEF chosen, voided

LEMMA VersionIncremented ==
  ASSUME LogInv, NEW a \in DOMAIN applications, applications' = IncrementVersion(a)
  PROVE  Rewritten(a)
<1>1. applications[a] \in Application
  BY RowOfLog DEF LogInv, LogTyped
<1> DEFINE row == [applications[a] EXCEPT !.version = @ + 1]
<1>2. row \in Application /\ row.version = applications[a].version + 1 /\ row.key = applications[a].key
  BY <1>1 DEF Application
<1>3. applications' = [applications EXCEPT ![a] = row]
  BY DEF IncrementVersion
<1> HIDE DEF row
<1> QED BY <1>2, <1>3 DEF LogInv, LogTyped, Rewritten

\* The key of an audit event is new, and names the version the row gets.
LEMMA AuditKeyIsNew ==
  ASSUME LogInv, NEW a, Rewritten(a), NEW word \in {"metadata", "void"}, a \in Nat
  PROVE  /\ AuditKey(a, word) \in DerivedKeys
         /\ AuditKey(a, word) \notin EventKeys
         /\ \A keys : Traced(AuditKey(a, word), keys, applications')
<1>1. applications[a].version \in Nat
  <2>1. applications[a] \in Application
    BY RowOfLog DEF LogInv, LogTyped, Rewritten
  <2> QED BY <2>1 DEF Application
<1>2. AuditKey(a, word) \in DerivedKeys
  <2>1. word \in Words
    BY DEF Words
  <2>2. applications[a].version + 1 \in Nat
    BY <1>1
  <2> QED BY <2>1, <2>2, DerivedKey DEF AuditKey
<1>3. /\ AuditKey(a, word)[2] = word /\ AuditKey(a, word)[3] = a
      /\ AuditKey(a, word)[4] = applications[a].version + 1
  BY DEF AuditKey
<1>4. AuditKey(a, word) \notin EventKeys
  <2>1. SUFFICES ASSUME AuditKey(a, word) \in EventKeys PROVE FALSE
    OBVIOUS
  <2>2. applications[a].version + 1 <= applications[a].version
    BY <1>3, <2>1 DEF LogInv, KeysTraced, Traced
  <2> QED BY <1>1, <2>2
<1>5. \A keys : Traced(AuditKey(a, word), keys, applications')
  <2>1. a \in DOMAIN applications' /\ applications[a].version + 1 <= applications'[a].version
    BY <1>1 DEF Rewritten
  <2>2. word # "initial" /\ word # "replacement"
    OBVIOUS
  <2> QED BY <1>3, <2>1, <2>2 DEF Traced
<1> QED BY <1>2, <1>4, <1>5

\* appendFeedbackEvent: its key was looked up.
LEMMA AppendKeeps ==
  ASSUME LogInv, NEW key \in Keys, NEW a, NEW expected, NEW type \in UserTypes, NEW at \in Times,
         AppendFeedbackEvent(key, a, expected, type, at)
  PROVE  LogInv' /\ StepTells
<1> DEFINE e == MakeFeedbackEvent(a, type, at, 0, KeyFor(key, ""))
<1>1. a \in DOMAIN applications /\ a \in Nat
  BY WritableRow DEF AppendFeedbackEvent
<1>2. Rewritten(a)
  BY <1>1, VersionIncremented DEF AppendFeedbackEvent
<1>3. e \in Event /\ e.key = KeyFor(key, "") /\ e.app = a
  <2>1. KeyFor(key, "") \in DerivedKeys
    BY KeyTypes, WordsOfKeys
  <2>2. type \in EventTypes /\ at \in Nat /\ 0 \in Nat
    BY TypesOfEvents
  <2> QED BY <1>1, <2>1, <2>2 DEF MakeFeedbackEvent, Event
<1>4. events' = Append(events, e) /\ KeyFor(key, "") \notin EventKeys
  BY DEF AppendFeedbackEvent
<1> HIDE DEF e
<1>5. e.key[2] = ""
  <2>1. KeyFor(key, "")[2] = ""
    BY KeyTypes, WordsOfKeys
  <2> QED BY <1>3, <2>1
<1>6. Traced(e.key, EventKeys \cup {e.key}, applications') /\ e.key[2] \in CommandWords
  BY <1>5 DEF Traced, CommandWords
<1> QED BY <1>2, <1>3, <1>4, <1>6, OneEventKeeps

\* updateApplicationMetadata and voidApplication: an audit event about the row.
LEMMA AuditKeeps ==
  ASSUME LogInv, NEW a, Rewritten(a), NEW word \in {"metadata", "void"},
         NEW type \in {"application_metadata_corrected", "application_voided"},
         events' = Append(events, MakeFeedbackEvent(a, type, Now, 0, AuditKey(a, word)))
  PROVE  LogInv' /\ StepTells
<1> DEFINE e == MakeFeedbackEvent(a, type, Now, 0, AuditKey(a, word))
<1>1. a \in Nat
  BY DEF Rewritten, LogInv, LogTyped
<1>2. e \in Event /\ e.key = AuditKey(a, word) /\ e.app = a
  <2>1. AuditKey(a, word) \in DerivedKeys
    BY <1>1, AuditKeyIsNew
  <2>2. type \in EventTypes /\ Now \in Nat /\ 0 \in Nat
    BY TypesOfEvents
  <2> QED BY <1>1, <2>1, <2>2, EventType
<1>3. events' = Append(events, e)
  OBVIOUS
<1>4. AuditKey(a, word)[2] \in CommandWords
  BY DEF AuditKey, CommandWords
<1> HIDE DEF e
<1> QED BY <1>1, <1>2, <1>3, <1>4, AuditKeyIsNew, OneEventKeeps

LEMMA MetadataKeeps ==
  ASSUME LogInv, NEW a, NEW expected, NEW resume \in Resumes \cup {None},
         UpdateApplicationMetadata(a, expected, resume)
  PROVE  LogInv' /\ StepTells
<1>1. a \in DOMAIN applications /\ applications[a] \in Application
  BY WritableRow DEF UpdateApplicationMetadata
<1> DEFINE row == [applications[a] EXCEPT !.version = @ + 1, !.resume = resume]
<1>2. row \in Application /\ row.version = applications[a].version + 1 /\ row.key = applications[a].key
  BY <1>1, RowType
<1>3. applications' = [applications EXCEPT ![a] = row]
  BY <1>1 DEF UpdateApplicationMetadata, IncrementVersion, LogInv, LogTyped
<1> HIDE DEF row
<1>4. Rewritten(a)
  BY <1>1, <1>2, <1>3 DEF LogInv, LogTyped, Rewritten
<1> QED BY <1>4, AuditKeeps DEF UpdateApplicationMetadata

LEMMA VoidKeeps ==
  ASSUME LogInv, NEW a, NEW expected, NEW successor \in Nat,
         VoidApplication(a, expected, successor)
  PROVE  LogInv' /\ StepTells
<1>1. a \in DOMAIN applications /\ applications[a] \in Application
  BY WritableRow DEF VoidApplication
<1> DEFINE row == [applications[a] EXCEPT !.version = @ + 1, !.voided = TRUE, !.superseded = successor]
<1>2. row \in Application /\ row.version = applications[a].version + 1 /\ row.key = applications[a].key
  <2>1. 0 \in Nat /\ None \in Resumes \cup {None}
    OBVIOUS
  <2> QED BY <1>1, <2>1, RowType
<1>3. applications' = [applications EXCEPT ![a] = row]
  BY <1>1 DEF VoidApplication, IncrementVersion, LogInv, LogTyped
<1> HIDE DEF row
<1>4. Rewritten(a)
  BY <1>1, <1>2, <1>3 DEF LogInv, LogTyped, Rewritten
<1> QED BY <1>4, AuditKeeps DEF VoidApplication

\* voidFeedbackEvent: the key of the replacement was not looked up, that of the void was.
LEMMA CorrectionKeeps ==
  ASSUME LogInv, NEW key \in Keys, NEW target \in DOMAIN events, NEW expected,
         NEW replacement \in UserTypes \cup {None}, NEW at \in Times,
         VoidFeedbackEvent(key, target, expected, replacement, at)
  PROVE  LogInv' /\ StepTells
<1> DEFINE a == events[target].app
           e == MakeFeedbackEvent(a, "event_voided", Now, target, KeyFor(key, ""))
           f == MakeFeedbackEvent(a, replacement, at, 0, KeyFor(key, "replacement"))
<1>1. a \in DOMAIN applications /\ a \in Nat
  BY WritableRow DEF VoidFeedbackEvent
<1>2. Rewritten(a)
  BY <1>1, VersionIncremented DEF VoidFeedbackEvent
<1>3. e \in Event /\ e.key = KeyFor(key, "") /\ e.app = a
  <2>1. target \in Nat
    BY DEF LogInv, LogTyped
  <2>2. KeyFor(key, "") \in DerivedKeys
    BY KeyTypes, WordsOfKeys
  <2>3. "event_voided" \in EventTypes /\ Now \in Nat
    BY TypesOfEvents
  <2> HIDE DEF a
  <2> QED BY <1>1, <2>1, <2>2, <2>3 DEF MakeFeedbackEvent, Event
<1>4. KeyFor(key, "") \notin EventKeys
  BY DEF VoidFeedbackEvent
<1>5. KeyFor(key, "replacement") \notin EventKeys
  BY <1>4, KeyTypes, WordsOfKeys DEF LogInv, KeysTraced, Traced
<1>6. CASE replacement = None
  <2>1. events' = Append(events, e)
    BY <1>6 DEF VoidFeedbackEvent
  <2> HIDE DEF e
  <2>2. e.key[2] = ""
    <3>1. KeyFor(key, "")[2] = ""
      BY KeyTypes, WordsOfKeys
    <3> QED BY <1>3, <3>1
  <2>3. Traced(e.key, EventKeys \cup {e.key}, applications') /\ e.key[2] \in CommandWords
    BY <2>2 DEF Traced, CommandWords
  <2> QED BY <1>2, <1>3, <1>4, <2>1, <2>3, OneEventKeeps
<1>7. CASE replacement # None
  <2>1. events' = events \o <<e, f>>
    BY <1>7 DEF VoidFeedbackEvent
  <2>2. f \in Event /\ f.key = KeyFor(key, "replacement") /\ f.app = a
    <3>1. KeyFor(key, "replacement") \in DerivedKeys
      BY KeyTypes, WordsOfKeys
    <3>2. replacement \in EventTypes /\ at \in Nat /\ 0 \in Nat
      BY <1>7, TypesOfEvents
    <3> HIDE DEF a
    <3> QED BY <1>1, <3>1, <3>2 DEF MakeFeedbackEvent, Event
  <2> HIDE DEF e, f, a
  <2>3. e.key # f.key
    <3>1. KeyFor(key, "")[2] = "" /\ KeyFor(key, "replacement")[2] = "replacement"
      BY KeyTypes, WordsOfKeys
    <3> QED BY <1>3, <2>2, <3>1
  <2>4. /\ Traced(e.key, EventKeys \cup {e.key, f.key}, applications')
        /\ Traced(f.key, EventKeys \cup {e.key, f.key}, applications')
    BY <1>3, <2>2, KeyTypes, WordsOfKeys DEF Traced
  <2>5. e.key[2] \in CommandWords /\ f.key[2] \in CommandWords
    <3>1. KeyFor(key, "")[2] = "" /\ KeyFor(key, "replacement")[2] = "replacement"
      BY KeyTypes, WordsOfKeys
    <3> QED BY <1>3, <2>2, <3>1 DEF CommandWords
  <2> QED BY <1>2, <1>3, <1>4, <1>5, <2>1, <2>2, <2>3, <2>4, <2>5, TwoEventsKeep
<1> QED BY <1>6, <1>7

\* createApplication: the key of the first event is looked up, that of the initial one is
\* free because it was written with the first.
LEMMA CreationKeeps ==
  ASSUME LogInv, NEW key \in Keys, NEW job \in Jobs, NEW resume \in Resumes \cup {None},
         NEW initial \in UserTypes \cup {None}, NEW at \in Times,
         CreateApplication(key, job, resume, initial, at)
  PROVE  LogInv' /\ StepTells
<1> DEFINE a   == Len(applications) + 1
           row == [job |-> job, resume |-> resume, version |-> 1, voided |-> FALSE,
                   superseded |-> 0, key |-> KeyFor(key, "")]
           e   == MakeFeedbackEvent(a, "application_created", Now, 0, KeyFor(key, "created"))
           f   == MakeFeedbackEvent(a, initial, at, 0, KeyFor(key, "initial"))
<1>1. /\ applications \in Seq(Application) /\ Distinct(applications)
      /\ KeysOf(applications) = AppKeys /\ a \in Nat
  BY DEF LogInv, LogTyped, KeysOnce, Distinct, KeysOf, AppKeys
<1>2. row \in Application /\ row.key \notin AppKeys
  <2>1. KeyFor(key, "") \in DerivedKeys
    BY KeyTypes, WordsOfKeys
  <2> QED BY <2>1 DEF CreateApplication, Application
<1>3. applications' = Append(applications, row) /\ row.key[2] = ""
  BY KeyTypes, WordsOfKeys DEF CreateApplication
<1> HIDE DEF row
<1>4. /\ applications' \in Seq(Application)
      /\ Distinct(applications')
      /\ DOMAIN applications' = DOMAIN applications \cup {a}
      /\ \A b \in DOMAIN applications : applications'[b] = applications[b]
      /\ a \notin DOMAIN applications
      /\ applications'[a].key[2] \in CommandWords
  <2>1. /\ applications' \in Seq(Application)
        /\ Distinct(applications')
        /\ DOMAIN applications' = DOMAIN applications \cup {a}
        /\ \A b \in DOMAIN applications : applications'[b] = applications[b]
        /\ a \notin DOMAIN applications
    <3>1. row.key \notin KeysOf(applications)
      BY <1>1, <1>2
    <3>2. LET next == Append(applications, row)
          IN  /\ next \in Seq(Application)
              /\ Distinct(next)
              /\ DOMAIN next = DOMAIN applications \cup {a}
              /\ \A b \in DOMAIN applications : next[b] = applications[b]
              /\ a \notin DOMAIN applications
      BY <1>1, <1>2, <3>1, RowAppended
    <3> QED BY <1>3, <3>2
  <2>2. applications'[a] = row
    <3>1. Append(applications, row)[a] = row
      BY <1>1, <1>2, RowAtTheEnd
    <3> QED BY <1>3, <3>1
  <2> QED BY <1>3, <2>1, <2>2 DEF CommandWords
<1>5. /\ events \in Seq(Event) /\ Distinct(events) /\ KeysOf(events) = EventKeys
      /\ EventKeys \subseteq DerivedKeys
  <2>1. \A i \in DOMAIN events : events[i] \in Event
    BY RowOfLog DEF LogInv, LogTyped
  <2> QED BY <2>1 DEF LogInv, LogTyped, KeysOnce, Distinct, KeysOf, EventKeys, Event
<1>6. KeyFor(key, "created") \notin EventKeys /\ KeyFor(key, "initial") \notin EventKeys
  <2>1. KeyFor(key, "created") \notin EventKeys
    BY DEF CreateApplication
  <2>2. KeyFor(key, "initial")[1] = key /\ KeyFor(key, "initial")[2] = "initial"
    BY KeyTypes, WordsOfKeys
  <2> QED BY <2>1, <2>2 DEF LogInv, KeysTraced, Traced
<1>7. e \in Event /\ e.key = KeyFor(key, "created") /\ e.app = a
  <2>1. KeyFor(key, "created") \in DerivedKeys
    BY KeyTypes, WordsOfKeys
  <2>2. "application_created" \in EventTypes /\ Now \in Nat
    BY TypesOfEvents
  <2> HIDE DEF a
  <2> QED BY <1>1, <2>1, <2>2 DEF MakeFeedbackEvent, Event
<1>8. e.key[2] = "created"
  <2>1. KeyFor(key, "created")[2] = "created"
    BY KeyTypes, WordsOfKeys
  <2> HIDE DEF e
  <2> QED BY <1>7, <2>1
<1>9. initial # None => /\ f \in Event /\ f.key = KeyFor(key, "initial") /\ f.app = a
                        /\ f.key[1] = key /\ f.key[2] = "initial"
  <2>1. KeyFor(key, "initial") \in DerivedKeys
    BY KeyTypes, WordsOfKeys
  <2>2. initial # None => initial \in EventTypes
    BY TypesOfEvents
  <2>3. at \in Nat /\ 0 \in Nat
    BY TypesOfEvents
  <2>4. KeyFor(key, "initial")[1] = key /\ KeyFor(key, "initial")[2] = "initial"
    BY KeyTypes, WordsOfKeys
  <2> HIDE DEF a
  <2> QED BY <1>1, <2>1, <2>2, <2>3, <2>4 DEF MakeFeedbackEvent, Event
<1>10. events' = IF initial = None THEN Append(events, e) ELSE events \o <<e, f>>
  BY DEF CreateApplication
<1> HIDE DEF a, e, f
<1>11. /\ events' \in Seq(Event) /\ Distinct(events')
       /\ KeysOf(events') = EventKeys \cup {e.key} \cup (IF initial = None THEN {} ELSE {f.key})
       /\ \A b \in DOMAIN applications : EventsOf(events', b) = EventsOf(events, b)
       /\ DOMAIN events \subseteq DOMAIN events'
       /\ \A i \in DOMAIN events : events'[i] = events[i]
       /\ \A i \in DOMAIN events' \ DOMAIN events : events'[i].key[2] \in CommandWords
  <2> DEFINE first == Append(events, e)
  <2>1. /\ first \in Seq(Event) /\ Distinct(first) /\ KeysOf(first) = EventKeys \cup {e.key}
        /\ DOMAIN first = DOMAIN events \cup {Len(events) + 1}
        /\ \A i \in DOMAIN events : first[i] = events[i]
        /\ first[Len(events) + 1] = e
    BY <1>5, <1>6, <1>7, RowAppended
  <2>9. e.key[2] \in CommandWords
    BY <1>8 DEF CommandWords
  <2>2. \A b \in DOMAIN applications : EventsOf(first, b) = EventsOf(events, b)
    BY <1>4, <1>5, <1>7, EventsElsewhere
  <2> HIDE DEF first
  <2>3. CASE initial = None
    <3>1. events' = first
      BY <1>10, <2>3 DEF first
    <3> QED BY <2>1, <2>9, <2>2, <2>3, <3>1
  <2>4. CASE initial # None
    <3>1. events' = Append(first, f)
      BY <1>5, <1>7, <1>9, <1>10, <2>4, TwoAppended DEF first
    <3>2. f \in Event /\ f.key \notin KeysOf(first) /\ f.app = a
      BY <1>6, <1>8, <1>9, <2>1, <2>4
    <3>3. /\ Append(first, f) \in Seq(Event) /\ Distinct(Append(first, f))
          /\ KeysOf(Append(first, f)) = KeysOf(first) \cup {f.key}
      BY <2>1, <3>2, RowAppended
    <3>8. /\ DOMAIN Append(first, f) = DOMAIN first \cup {Len(first) + 1}
          /\ \A i \in DOMAIN first : Append(first, f)[i] = first[i]
          /\ Append(first, f)[Len(first) + 1] = f
      BY <2>1, <3>2, RowAtTheEnd
    <3>4. \A b \in DOMAIN applications : EventsOf(Append(first, f), b) = EventsOf(first, b)
      BY <1>4, <2>1, <3>2, EventsElsewhere
    <3>5. f.key[2] \in CommandWords
      BY <1>9, <2>4 DEF CommandWords
    <3>6. /\ events' \in Seq(Event) /\ Distinct(events')
          /\ KeysOf(events') = EventKeys \cup {e.key} \cup {f.key}
          /\ \A b \in DOMAIN applications : EventsOf(events', b) = EventsOf(events, b)
      BY <2>1, <2>2, <3>1, <3>3, <3>4
    <3>7. /\ DOMAIN events \subseteq DOMAIN events'
          /\ \A i \in DOMAIN events : events'[i] = events[i]
          /\ \A i \in DOMAIN events' \ DOMAIN events : events'[i].key[2] \in CommandWords
      BY <2>1, <2>9, <3>1, <3>8, <3>5
    <3> QED BY <2>4, <3>6, <3>7
  <2> QED BY <2>3, <2>4
<1>12. EventKeys' = EventKeys \cup {e.key} \cup (IF initial = None THEN {} ELSE {f.key})
  BY <1>11 DEF EventKeys, KeysOf
<1>13. KeysTraced(EventKeys', applications')
  <2>1. \A b \in DOMAIN applications : applications'[b].version >= applications[b].version
    <3>1. \A b \in DOMAIN applications : applications[b] \in Application
      BY <1>1, RowOfLog
    <3>2. \A b \in DOMAIN applications : applications[b].version \in Nat
      BY <3>1 DEF Application
    <3> QED BY <1>4, <3>2
  <2>2. EventKeys \subseteq EventKeys'
    BY <1>12
  <2>3. \A k \in EventKeys : Traced(k, EventKeys', applications')
    BY <1>4, <1>5, <2>1, <2>2, TracedStays DEF LogInv
  <2>4. Traced(e.key, EventKeys', applications')
    BY <1>8 DEF Traced
  <2>5. initial # None => Traced(f.key, EventKeys', applications')
    BY <1>7, <1>9, <1>12 DEF Traced
  <2> QED BY <1>12, <2>3, <2>4, <2>5 DEF KeysTraced
<1>14. LogInv'
  BY <1>4, <1>11, <1>13 DEF LogInv, LogTyped, KeysOnce, Distinct
<1>15. VersionTells
  <2>1. \A b \in DOMAIN applications : applications[b].version \in Nat
    <3>1. \A b \in DOMAIN applications : applications[b] \in Application
      BY <1>1, RowOfLog
    <3> QED BY <3>1 DEF Application
  <2> QED BY <1>4, <1>11, <2>1 DEF VersionTells
<1>16. RowsStay
  BY <1>4, <1>11 DEF RowsStay
<1> QED BY <1>14, <1>15, <1>16 DEF StepTells

-----------------------------------------------------------------------------
(* The theorems.                                                            *)

LEMMA InitHolds == Init => LogInv
<1> SUFFICES ASSUME Init PROVE LogInv
  OBVIOUS
<1>1. CASE applications = << >> /\ events = << >>
  BY <1>1 DEF LogInv, LogTyped, KeysOnce, KeysTraced, EventKeys
<1>2. ASSUME NEW job \in Jobs, NEW status \in LegacyStatuses, NEW key \in Keys,
             applications = <<[job |-> job, resume |-> None, version |-> 1, voided |-> FALSE,
                               superseded |-> 0, key |-> KeyFor(key, "migration")]>>,
             events = <<[MakeFeedbackEvent(1, "legacy_status_imported", 0, 0, KeyFor(key, "migration"))
                           EXCEPT !.legacy = status]>>
      PROVE  LogInv
  <2> DEFINE row == [job |-> job, resume |-> None, version |-> 1, voided |-> FALSE,
                     superseded |-> 0, key |-> KeyFor(key, "migration")]
             e   == [MakeFeedbackEvent(1, "legacy_status_imported", 0, 0, KeyFor(key, "migration"))
                       EXCEPT !.legacy = status]
  <2>1. KeyFor(key, "migration") \in DerivedKeys /\ KeyFor(key, "migration")[2] = "migration"
    BY KeyTypes, WordsOfKeys
  <2>2. row \in Application
    BY <2>1 DEF Application
  <2>3. e \in Event /\ e.key = KeyFor(key, "migration")
    <3>1. "legacy_status_imported" \in EventTypes
      BY TypesOfEvents
    <3> QED BY <2>1, <3>1 DEF MakeFeedbackEvent, Event
  <2>4. applications = <<row>> /\ events = <<e>>
    BY <1>2
  <2> HIDE DEF row, e
  <2>5. LogTyped /\ KeysOnce
    BY <2>2, <2>3, <2>4 DEF LogTyped, KeysOnce
  <2>6. EventKeys = {KeyFor(key, "migration")}
    BY <2>3, <2>4 DEF EventKeys
  <2>7. KeysTraced(EventKeys, applications)
    BY <2>1, <2>6 DEF KeysTraced, Traced
  <2> QED BY <2>5, <2>7 DEF LogInv
<1> QED BY <1>1, <1>2 DEF Init

\* Commands on resume versions leave applications and events alone.
LEMMA QuietKeeps ==
  ASSUME LogInv, UNCHANGED <<applications, events>>
  PROVE  LogInv' /\ StepTells
<1>1. \A a \in DOMAIN applications : applications[a].version \in Nat
  <2>1. \A a \in DOMAIN applications : applications[a] \in Application
    BY RowOfLog DEF LogInv, LogTyped
  <2> QED BY <2>1 DEF Application
<1>2. LogInv'
  <2>1. LogTyped' /\ KeysOnce'
    BY DEF LogInv, LogTyped, KeysOnce
  <2>2. EventKeys' = EventKeys
    BY DEF EventKeys
  <2>3. KeysTraced(EventKeys', applications')
    BY <2>2 DEF LogInv
  <2> QED BY <2>1, <2>3 DEF LogInv
<1>3. VersionTells
  BY <1>1 DEF VersionTells
<1>4. RowsStay
  BY DEF RowsStay
<1> QED BY <1>2, <1>3, <1>4 DEF StepTells

LEMMA CommandKeeps == LogInv /\ Command => LogInv' /\ StepTells
<1> SUFFICES ASSUME LogInv, Command PROVE LogInv' /\ StepTells
  OBVIOUS
<1>1. CASE \E key \in Keys, job \in Jobs, resume \in Resumes \cup {None},
              initial \in UserTypes \cup {None}, at \in Times :
             CreateApplication(key, job, resume, initial, at)
  BY <1>1, CreationKeeps
<1>2. CASE \E a \in DOMAIN applications : \E expected \in ReadVersions(a) :
             \E key \in Keys, type \in UserTypes, at \in Times :
               AppendFeedbackEvent(key, a, expected, type, at)
  BY <1>2, AppendKeeps
<1>3. CASE \E a \in DOMAIN applications : \E expected \in ReadVersions(a) :
             \E resume \in Resumes \cup {None} : UpdateApplicationMetadata(a, expected, resume)
  BY <1>3, MetadataKeeps
<1>4. CASE \E a \in DOMAIN applications : \E expected \in ReadVersions(a) :
             \E successor \in 0..Len(applications) : VoidApplication(a, expected, successor)
  <2>1. \A successor \in 0..Len(applications) : successor \in Nat
    OBVIOUS
  <2> QED BY <1>4, <2>1, VoidKeeps
<1>5. CASE \E target \in DOMAIN events : \E expected \in ReadVersions(events[target].app) :
             \E key \in Keys, replacement \in UserTypes \cup {None}, at \in Times :
               VoidFeedbackEvent(key, target, expected, replacement, at)
  BY <1>5, CorrectionKeeps
<1> QED BY <1>1, <1>2, <1>3, <1>4, <1>5 DEF Command

LEMMA NextHolds == LogInv /\ [Next]_vars => LogInv' /\ StepTells
<1> SUFFICES ASSUME LogInv, [Next]_vars PROVE LogInv' /\ StepTells
  OBVIOUS
<1>1. CASE UNCHANGED vars \/ ResumeCommand
  BY <1>1, QuietKeeps DEF vars, ResumeCommand, CreateResumeVersion, ActivateResumeVersion,
                          ArchiveResumeVersion
<1>2. CASE Command
  BY <1>2, CommandKeeps
<1> QED BY <1>1, <1>2 DEF Next

\* However often a command arrives, and in whatever order, it is carried out once: no two
\* applications and no two events carry one key, the keys that the service derives and
\* does not look up included (jobMemoryService.ts:273, :599).
THEOREM CommandsAreOnce == Spec => []KeysOnce
<1>1. LogInv => KeysOnce
  BY DEF LogInv
<1> QED BY <1>1, InitHolds, NextHolds, PTL DEF Spec

\* Whatever a command writes about an application moves its row version by one, so that a
\* tab which presents the version now stored has seen everything (jobMemoryService.ts:592).
THEOREM VersionsTell == Spec => VersionNamesContents
<1>1. LogInv /\ [Next]_vars => [VersionTells]_vars
  BY NextHolds DEF StepTells
<1>2. Spec => [][VersionTells]_vars
  BY <1>1, InitHolds, NextHolds, PTL DEF Spec
<1> QED BY <1>2 DEF VersionNamesContents, VersionTells

-----------------------------------------------------------------------------
(* The log and the rows are whole: every reference leads to an event or a  *)
(* row of the same application, the voids of events and of applications    *)
(* are recorded with what they void, and a voided application is           *)
(* succeeded within its job.  No unit of this is kept on its own: a void   *)
(* reads the event it names, and the projection reads all of it.           *)

\* Every event is about an application that is there, refers to an event before it or to
\* none, and if it is the migration's carries a status that was migrated.
EventsRefer(log, apps) ==
  \A i \in DOMAIN log :
    /\ log[i].app \in DOMAIN apps
    /\ log[i].target \in 0..(i - 1)
    /\ log[i].type = "legacy_status_imported" => log[i].legacy \in LegacyStatuses

Voids(log, i) == log[i].type = "event_voided"

\* A void names an event about its application that is neither a void nor the audit event
\* of a voided application, and no two name one event.
VoidsRefer(log) ==
  /\ \A i \in DOMAIN log : Voids(log, i) =>
       /\ log[i].target \in DOMAIN log
       /\ log[log[i].target].app = log[i].app
       /\ log[log[i].target].type \notin {"event_voided", "application_voided"}
  /\ \A i, j \in DOMAIN log : Voids(log, i) /\ Voids(log, j) /\ log[i].target = log[j].target => i = j

\* The voided applications are those with an audit event that says so.
Audited(log, a) == \E i \in DOMAIN log : log[i].app = a /\ log[i].type = "application_voided"
VoidsAudited(log, apps) == \A a \in DOMAIN apps : apps[a].voided <=> Audited(log, a)

\* An application was migrated once: only the migration writes such an event.
SeededOnce(log) ==
  \A i, j \in DOMAIN log :
    log[i].app = log[j].app /\ log[i].type = "legacy_status_imported"
                           /\ log[j].type = "legacy_status_imported" => i = j

\* The log is sound: what the service's foreign keys and its checks before a void
\* (jobMemoryService.ts:494) leave in the table.
EventsSound(log, apps) ==
  EventsRefer(log, apps) /\ VoidsRefer(log) /\ VoidsAudited(log, apps) /\ SeededOnce(log)

\* A log with rows behind those it had.
Extended(log, more) ==
  /\ log \in Seq(Event) /\ more \in Seq(Event)
  /\ DOMAIN log \subseteq DOMAIN more
  /\ \A i \in DOMAIN log : more[i] = log[i]

\* A new event that voids nothing.
Plain(e) ==
  /\ e.type \notin {"event_voided", "application_voided", "legacy_status_imported"}
  /\ e.target = 0

\* New rows are not voided, the others are as they were.
RowsJoin(apps, more) ==
  /\ DOMAIN apps \subseteq DOMAIN more
  /\ \A a \in DOMAIN apps : more[a].voided = apps[a].voided
  /\ \A a \in DOMAIN more \ DOMAIN apps : more[a].voided = FALSE

\* A log is numbered from 1 to its length.
LEMMA LogNumbers ==
  ASSUME NEW Row, NEW log \in Seq(Row)
  PROVE  DOMAIN log = 1..Len(log) /\ Len(log) \in Nat
OBVIOUS

\* The events before an event are in its log.
LEMMA PlaceInLog ==
  ASSUME NEW log \in Seq(Event), NEW i \in DOMAIN log
  PROVE  i \in Nat /\ i >= 1 /\ 0 \in 0..(i - 1) /\ (\A j \in 0..(i - 1) : j # 0 => j \in DOMAIN log)
OBVIOUS

\* Events that void nothing, about applications that are there, leave a log sound.
LEMMA PlainEventsJoin ==
  ASSUME NEW log, NEW more, NEW apps, NEW rows,
         EventsSound(log, apps), Extended(log, more), RowsJoin(apps, rows),
         \A i \in DOMAIN more \ DOMAIN log : Plain(more[i]) /\ more[i].app \in DOMAIN rows
  PROVE  EventsSound(more, rows)
<1>1. EventsRefer(more, rows)
  <2>1. SUFFICES ASSUME NEW i \in DOMAIN more
                 PROVE  /\ more[i].app \in DOMAIN rows
                        /\ more[i].target \in 0..(i - 1)
                        /\ more[i].type = "legacy_status_imported" => more[i].legacy \in LegacyStatuses
    BY DEF EventsRefer
  <2>2. CASE i \in DOMAIN log
    BY <2>2 DEF EventsSound, EventsRefer, Extended, RowsJoin
  <2>3. CASE i \notin DOMAIN log
    <3>1. 0 \in 0..(i - 1)
      BY PlaceInLog DEF Extended
    <3> QED BY <2>3, <3>1 DEF Plain
  <2> QED BY <2>2, <2>3
<1>2. \A i \in DOMAIN more : Voids(more, i) => i \in DOMAIN log /\ Voids(log, i) /\ more[i] = log[i]
  BY DEF Plain, Extended, Voids
<1>3. VoidsRefer(more)
  <2>1. ASSUME NEW i \in DOMAIN more, Voids(more, i)
        PROVE  /\ more[i].target \in DOMAIN more
               /\ more[more[i].target].app = more[i].app
               /\ more[more[i].target].type \notin {"event_voided", "application_voided"}
    <3>1. i \in DOMAIN log /\ Voids(log, i) /\ more[i] = log[i]
      BY <1>2, <2>1
    <3>2. /\ log[i].target \in DOMAIN log
          /\ log[log[i].target].app = log[i].app
          /\ log[log[i].target].type \notin {"event_voided", "application_voided"}
      BY <3>1 DEF EventsSound, VoidsRefer
    <3> QED BY <3>1, <3>2 DEF Extended
  <2>2. \A i, j \in DOMAIN more : Voids(more, i) /\ Voids(more, j) /\ more[i].target = more[j].target => i = j
    BY <1>2 DEF EventsSound, VoidsRefer
  <2> QED BY <2>1, <2>2 DEF VoidsRefer
<1>4. \A a : Audited(more, a) <=> Audited(log, a)
  BY DEF Audited, Extended, Plain
<1>5. \A a \in DOMAIN rows \ DOMAIN apps : ~Audited(log, a)
  BY DEF Audited, EventsSound, EventsRefer
<1>6. VoidsAudited(more, rows)
  BY <1>4, <1>5 DEF EventsSound, VoidsAudited, RowsJoin
<1>7. SeededOnce(more)
  <2>1. \A i \in DOMAIN more : more[i].type = "legacy_status_imported" => i \in DOMAIN log /\ more[i] = log[i]
    BY DEF Plain, Extended
  <2> QED BY <2>1 DEF EventsSound, SeededOnce
<1> QED BY <1>1, <1>3, <1>6, <1>7 DEF EventsSound

\* An event that is neither a void nor voided, about an application that is not voided.
MayVoid(log, apps, target) ==
  /\ target \in DOMAIN log
  /\ log[target].type # "event_voided"
  /\ apps[log[target].app].voided = FALSE
  /\ \A i \in DOMAIN log : ~(Voids(log, i) /\ log[i].target = target)

\* Its void may join.
LEMMA VoidJoins ==
  ASSUME NEW log, NEW more, NEW apps, NEW rows,
         EventsSound(log, apps), Extended(log, more), RowsJoin(apps, rows), DOMAIN rows = DOMAIN apps,
         NEW new, DOMAIN more = DOMAIN log \cup {new}, new \notin DOMAIN log,
         Voids(more, new), more[new].app = log[more[new].target].app,
         MayVoid(log, apps, more[new].target)
  PROVE  EventsSound(more, rows)
<1> DEFINE target == more[new].target
<1>1. /\ target \in DOMAIN log
      /\ log[target].type # "event_voided"
      /\ apps[log[target].app].voided = FALSE
      /\ \A i \in DOMAIN log : ~(Voids(log, i) /\ log[i].target = target)
  BY DEF MayVoid
<1>2. more[new].app = log[target].app
  OBVIOUS
<1>3. more[new].target = target
  OBVIOUS
<1> HIDE DEF target
<1>4. log[target].app \in DOMAIN apps
  BY <1>1 DEF EventsSound, EventsRefer
<1>5. log[target].type # "application_voided"
  BY <1>4, <1>1 DEF EventsSound, VoidsAudited, Audited
<1>6. more[target] = log[target] /\ target \in DOMAIN more /\ new \in DOMAIN more
  BY <1>1 DEF Extended
<1>7. EventsRefer(more, rows)
  <2>1. SUFFICES ASSUME NEW i \in DOMAIN more
                 PROVE  /\ more[i].app \in DOMAIN rows
                        /\ more[i].target \in 0..(i - 1)
                        /\ more[i].type = "legacy_status_imported" => more[i].legacy \in LegacyStatuses
    BY DEF EventsRefer
  <2>2. CASE i \in DOMAIN log
    BY <2>2 DEF EventsSound, EventsRefer, Extended, RowsJoin
  <2>3. CASE i = new
    <3>1. target \in 0..(new - 1)
      <4>1. DOMAIN log = 1..Len(log) /\ DOMAIN more = 1..Len(more) /\ Len(log) \in Nat /\ Len(more) \in Nat
        BY LogNumbers DEF Extended
      <4>2. target \in 1..Len(log) /\ new \in 1..Len(more) /\ new \notin 1..Len(log)
        BY <1>6, <1>1, <4>1
      <4> QED BY <4>1, <4>2
    <3> QED BY <1>4, <1>2, <1>3, <2>3, <3>1 DEF Voids, RowsJoin
  <2> QED BY <2>2, <2>3
<1>8. VoidsRefer(more)
  <2>1. ASSUME NEW i \in DOMAIN more, Voids(more, i)
        PROVE  /\ more[i].target \in DOMAIN more
               /\ more[more[i].target].app = more[i].app
               /\ more[more[i].target].type \notin {"event_voided", "application_voided"}
    <3>1. CASE i = new
      BY <1>5, <1>6, <1>1, <1>2, <1>3, <3>1
    <3>2. CASE i \in DOMAIN log
      <4>1. more[i] = log[i] /\ Voids(log, i)
        BY <2>1, <3>2 DEF Extended, Voids
      <4>2. /\ log[i].target \in DOMAIN log
            /\ log[log[i].target].app = log[i].app
            /\ log[log[i].target].type \notin {"event_voided", "application_voided"}
        BY <3>2, <4>1 DEF EventsSound, VoidsRefer
      <4> QED BY <4>1, <4>2 DEF Extended
    <3> QED BY <3>1, <3>2
  <2>2. ASSUME NEW i \in DOMAIN more, NEW j \in DOMAIN more,
               Voids(more, i), Voids(more, j), more[i].target = more[j].target
        PROVE  i = j
    <3>1. \A k \in DOMAIN log : Voids(more, k) => Voids(log, k) /\ more[k] = log[k]
      BY DEF Extended, Voids
    <3>2. \A k, l \in DOMAIN log : Voids(log, k) /\ Voids(log, l) /\ log[k].target = log[l].target => k = l
      BY DEF EventsSound, VoidsRefer
    <3>3. \A k \in DOMAIN log : Voids(more, k) => more[k].target # target
      BY <1>1, <3>1
    <3> QED BY <1>3, <2>2, <3>1, <3>2, <3>3
  <2> QED BY <2>1, <2>2 DEF VoidsRefer
<1>9. \A a : Audited(more, a) <=> Audited(log, a)
  BY <1>6 DEF Audited, Extended, Voids
<1>10. VoidsAudited(more, rows)
  BY <1>9 DEF EventsSound, VoidsAudited, RowsJoin
<1>11. SeededOnce(more)
  <2>1. \A i \in DOMAIN more : more[i].type = "legacy_status_imported" => i \in DOMAIN log /\ more[i] = log[i]
    BY DEF Voids, Extended
  <2> QED BY <2>1 DEF EventsSound, SeededOnce
<1> QED BY <1>7, <1>8, <1>10, <1>11 DEF EventsSound

\* The audit event of an application that is voided with it.
LEMMA AuditJoins ==
  ASSUME NEW log, NEW more, NEW apps, NEW rows, NEW a \in DOMAIN apps,
         EventsSound(log, apps), Extended(log, more),
         DOMAIN rows = DOMAIN apps, rows[a].voided = TRUE,
         \A b \in DOMAIN apps : b # a => rows[b].voided = apps[b].voided,
         NEW new, DOMAIN more = DOMAIN log \cup {new}, new \notin DOMAIN log,
         more[new].type = "application_voided", more[new].app = a, more[new].target = 0
  PROVE  EventsSound(more, rows)
<1>1. EventsRefer(more, rows)
  <2>1. 0 \in 0..(new - 1)
    BY PlaceInLog DEF Extended
  <2> QED BY <2>1 DEF EventsSound, EventsRefer, Extended
<1>2. \A i \in DOMAIN more : Voids(more, i) => i \in DOMAIN log /\ Voids(log, i) /\ more[i] = log[i]
  BY DEF Extended, Voids
<1>3. VoidsRefer(more)
  <2>1. ASSUME NEW i \in DOMAIN more, Voids(more, i)
        PROVE  /\ more[i].target \in DOMAIN more
               /\ more[more[i].target].app = more[i].app
               /\ more[more[i].target].type \notin {"event_voided", "application_voided"}
    <3>1. i \in DOMAIN log /\ Voids(log, i) /\ more[i] = log[i]
      BY <1>2, <2>1
    <3>2. /\ log[i].target \in DOMAIN log
          /\ log[log[i].target].app = log[i].app
          /\ log[log[i].target].type \notin {"event_voided", "application_voided"}
      BY <3>1 DEF EventsSound, VoidsRefer
    <3> QED BY <3>1, <3>2 DEF Extended
  <2>2. \A i, j \in DOMAIN more : Voids(more, i) /\ Voids(more, j) /\ more[i].target = more[j].target => i = j
    BY <1>2 DEF EventsSound, VoidsRefer
  <2> QED BY <2>1, <2>2 DEF VoidsRefer
<1>4. \A b : Audited(more, b) <=> Audited(log, b) \/ b = a
  BY DEF Audited, Extended
<1>5. VoidsAudited(more, rows)
  BY <1>4 DEF EventsSound, VoidsAudited
<1>6. SeededOnce(more)
  <2>1. \A i \in DOMAIN more : more[i].type = "legacy_status_imported" => i \in DOMAIN log /\ more[i] = log[i]
    BY DEF Extended
  <2> QED BY <2>1 DEF EventsSound, SeededOnce
<1> QED BY <1>1, <1>3, <1>5, <1>6 DEF EventsSound

\* A voided application is succeeded within its job, by an application that is there, and
\* the successors end.
Succeeded(apps, a) ==
  LET b == apps[a].superseded
  IN  /\ b \in DOMAIN apps
      /\ apps[a].voided
      /\ apps[b].job = apps[a].job

ChainsEnd(apps) ==
  \A S \in SUBSET DOMAIN apps : S # {} => \E a \in S : apps[a].superseded \notin S

RowsSound(apps) ==
  /\ \A a \in DOMAIN apps : apps[a].superseded # 0 => Succeeded(apps, a)
  /\ ChainsEnd(apps)

\* The rows keep what they say about the job, the void and the successor.
Standing(row, next) == next.job = row.job /\ next.voided = row.voided /\ next.superseded = row.superseded

\* A row that is replaced by one which stands for the same leaves the others.
LEMMA RowStands ==
  ASSUME NEW row \in Application, NEW resume \in Resumes \cup {None}, NEW successor \in Nat
  PROVE  LET next   == [row EXCEPT !.version = @ + 1]
             chosen == [row EXCEPT !.version = @ + 1, !.resume = resume]
             voided == [row EXCEPT !.version = @ + 1, !.voided = TRUE, !.superseded = successor]
         IN  /\ Standing(row, next) /\ Standing(row, chosen)
             /\ voided.job = row.job /\ voided.voided = TRUE /\ voided.superseded = successor
<1>1. /\ row.job \in Jobs /\ row.resume \in Resumes \cup {None} /\ row.version \in Nat
      /\ row.voided \in BOOLEAN /\ row.superseded \in Nat /\ row.key \in DerivedKeys
  BY DEF Application
<1> DEFINE next == [row EXCEPT !.version = row.version + 1]
<1>2. next \in Application /\ Standing(row, next)
  BY <1>1 DEF Application, Standing
<1> HIDE DEF next
<1> DEFINE chosen == [next EXCEPT !.resume = resume]
<1>3. Standing(row, chosen)
  BY <1>2 DEF Application, Standing
<1> DEFINE gone == [next EXCEPT !.voided = TRUE]
<1>4. gone \in Application /\ gone.job = row.job /\ gone.voided = TRUE
  BY <1>2 DEF Application, Standing
<1> HIDE DEF gone
<1> DEFINE voided == [gone EXCEPT !.superseded = successor]
<1>5. voided.job = row.job /\ voided.voided = TRUE /\ voided.superseded = successor
  BY <1>4 DEF Application
<1> QED BY <1>2, <1>3, <1>5 DEF next, gone

\* No command but a void of an application changes what stands in its row.
RowsStand ==
  /\ DOMAIN applications' = DOMAIN applications
  /\ \A b \in DOMAIN applications : Standing(applications[b], applications'[b])

\* The row version is no part of that (incrementVersion).
LEMMA IncrementStands ==
  ASSUME LogInv, NEW a \in DOMAIN applications, applications' = IncrementVersion(a)
  PROVE  RowsStand
<1>1. applications[a] \in Application
  BY RowOfLog DEF LogInv, LogTyped
<1> DEFINE row == [applications[a] EXCEPT !.version = @ + 1]
<1>2. Standing(applications[a], row)
  <2>1. None \in Resumes \cup {None} /\ 0 \in Nat
    OBVIOUS
  <2> QED BY <1>1, <2>1, RowStands
<1>3. applications' = [applications EXCEPT ![a] = row]
  BY DEF IncrementVersion
<1> HIDE DEF row
<1> QED BY <1>2, <1>3 DEF RowsStand, Standing

\* So the rows stay sound.
LEMMA StandingRows ==
  ASSUME RowsStand, RowsSound(applications)
  PROVE  RowsSound(applications') /\ RowsJoin(applications, applications')
<1>1. RowsJoin(applications, applications')
  BY DEF RowsStand, RowsJoin, Standing
<1>2. ASSUME NEW a \in DOMAIN applications', applications'[a].superseded # 0
      PROVE  Succeeded(applications', a)
  <2>1. a \in DOMAIN applications /\ Succeeded(applications, a)
    BY <1>2 DEF RowsStand, RowsSound, Standing
  <2> DEFINE b == applications[a].superseded
  <2>2. b \in DOMAIN applications /\ applications[a].voided /\ applications[b].job = applications[a].job
    BY <2>1 DEF Succeeded
  <2>3. applications'[a].superseded = b
    BY <2>1 DEF RowsStand, Standing
  <2> HIDE DEF b
  <2>4. /\ b \in DOMAIN applications' /\ applications'[a].voided
        /\ applications'[b].job = applications'[a].job
    BY <2>1, <2>2 DEF RowsStand, Standing
  <2> QED BY <2>3, <2>4 DEF Succeeded
<1>3. ChainsEnd(applications')
  <2>1. \A a \in DOMAIN applications : applications'[a].superseded = applications[a].superseded
    BY DEF RowsStand, Standing
  <2> QED BY <2>1 DEF RowsStand, RowsSound, ChainsEnd
<1> QED BY <1>1, <1>2, <1>3 DEF RowsSound

\* The row that joins is succeeded by none, and succeeds none.
LEMMA RowJoins ==
  ASSUME NEW apps, NEW more, RowsSound(apps), 0 \notin DOMAIN more,
         DOMAIN apps \subseteq DOMAIN more, \A a \in DOMAIN apps : more[a] = apps[a],
         \A a \in DOMAIN more \ DOMAIN apps : more[a].voided = FALSE /\ more[a].superseded = 0
  PROVE  RowsSound(more) /\ RowsJoin(apps, more)
<1>1. RowsJoin(apps, more)
  BY DEF RowsJoin
<1>2. ASSUME NEW a \in DOMAIN more, more[a].superseded # 0
      PROVE  Succeeded(more, a)
  <2>1. a \in DOMAIN apps /\ more[a] = apps[a]
    BY <1>2
  <2>2. Succeeded(apps, a)
    BY <1>2, <2>1 DEF RowsSound
  <2>3. more[apps[a].superseded] = apps[apps[a].superseded]
    BY <2>2 DEF Succeeded
  <2> QED BY <2>1, <2>2, <2>3 DEF Succeeded
<1>3. ASSUME NEW S \in SUBSET DOMAIN more, S # {}
      PROVE  \E a \in S : more[a].superseded \notin S
  <2>1. CASE \E a \in S : a \notin DOMAIN apps /\ 0 \notin S
    BY <2>1
  <2>2. CASE S \subseteq DOMAIN apps
    <3>1. PICK a \in S : apps[a].superseded \notin S
      BY <1>3, <2>2 DEF RowsSound, ChainsEnd
    <3> QED BY <2>2, <3>1
  <2> QED BY <2>1, <2>2
<1> QED BY <1>1, <1>2, <1>3 DEF RowsSound, ChainsEnd

\* An application that is voided is succeeded by one that is not, and so not by one that
\* it has succeeded.
LEMMA SuccessorJoins ==
  ASSUME NEW apps, NEW more, RowsSound(apps), NEW a \in DOMAIN apps, apps[a].voided = FALSE, 0 \notin DOMAIN apps,
         DOMAIN more = DOMAIN apps, \A b \in DOMAIN apps : b # a => more[b] = apps[b],
         NEW successor, more[a].superseded = successor, more[a].voided = TRUE, more[a].job = apps[a].job,
         successor # 0 => /\ successor \in DOMAIN apps /\ successor # a
                          /\ apps[successor].job = apps[a].job
                          /\ apps[successor].voided = FALSE
  PROVE  RowsSound(more)
<1>1. \A b \in DOMAIN apps : apps[b].voided = FALSE => apps[b].superseded = 0
  BY DEF RowsSound, Succeeded
<1>2. \A b \in DOMAIN more : more[b].job = apps[b].job
  OBVIOUS
<1>3. ASSUME NEW c \in DOMAIN more, more[c].superseded # 0
      PROVE  Succeeded(more, c)
  <2>1. CASE c = a
    BY <1>2, <1>3, <2>1 DEF Succeeded
  <2>2. CASE c # a
    <3>1. more[c] = apps[c] /\ Succeeded(apps, c)
      BY <1>3, <2>2 DEF RowsSound
    <3> QED BY <1>2, <3>1 DEF Succeeded
  <2> QED BY <2>1, <2>2
<1>4. ASSUME NEW S \in SUBSET DOMAIN more, S # {}
      PROVE  \E c \in S : more[c].superseded \notin S
  <2>1. PICK c \in S : apps[c].superseded \notin S
    BY <1>4 DEF RowsSound, ChainsEnd
  <2>2. CASE a \in S /\ successor \in S
    <3>1. successor \in DOMAIN apps /\ successor # 0
      BY <2>2
    <3>2. more[successor] = apps[successor] /\ apps[successor].superseded = 0
      BY <1>1, <3>1
    <3> QED BY <2>2, <3>2
  <2>3. CASE a \in S /\ successor \notin S
    BY <2>3
  <2>4. CASE a \notin S
    BY <2>1, <2>4
  <2> QED BY <2>2, <2>3, <2>4
<1> QED BY <1>3, <1>4 DEF RowsSound, ChainsEnd

\* The inductive invariant of the job memory.
Whole == LogInv /\ EventsSound(events, applications) /\ RowsSound(applications)

\* Appending, whatever is appended.
LEMMA AnyAppended ==
  ASSUME NEW Row, NEW log \in Seq(Row), NEW e
  PROVE  /\ DOMAIN Append(log, e) = DOMAIN log \cup {Len(log) + 1}
         /\ Append(log, e)[Len(log) + 1] = e
         /\ Len(log) + 1 \notin DOMAIN log
OBVIOUS

LEMMA AnyTwoAppended ==
  ASSUME NEW Row, NEW log \in Seq(Row), NEW e, NEW f
  PROVE  /\ DOMAIN (log \o <<e, f>>) = DOMAIN log \cup {Len(log) + 1, Len(log) + 2}
         /\ (log \o <<e, f>>)[Len(log) + 1] = e
         /\ (log \o <<e, f>>)[Len(log) + 2] = f
         /\ Len(log) + 1 \notin DOMAIN log /\ Len(log) + 2 \notin DOMAIN log
         /\ Len(log) + 1 # Len(log) + 2
OBVIOUS

\* The fields of a new event.
LEMMA MadeEvent ==
  ASSUME NEW app, NEW type, NEW at, NEW target, NEW key
  PROVE  /\ MakeFeedbackEvent(app, type, at, target, key).app = app
         /\ MakeFeedbackEvent(app, type, at, target, key).type = type
         /\ MakeFeedbackEvent(app, type, at, target, key).target = target
BY DEF MakeFeedbackEvent

\* An event that a user may record, or that records a creation or an edit, voids nothing.
LEMMA UsersVoidNothing ==
  /\ {"event_voided", "application_voided", "legacy_status_imported"} \cap UserTypes = {}
<1>1. DOMAIN Moves = {"applied", "hr_contacted", "greeting_sent", "message_viewed", "hr_replied",
                      "resume_requested", "phone_screen", "interview_scheduled", "interview_completed",
                      "interview_advanced", "offer_received"}
  BY DEF Moves
<1>2. DOMAIN Closings = {"rejected", "user_withdrew", "position_closed", "marked_stale",
                         "offer_declined", "offer_accepted"}
  BY DEF Closings
<1>3. {"event_voided", "application_voided", "legacy_status_imported"} \cap UserEventTypes = {}
  BY <1>1, <1>2 DEF UserEventTypes, Pauses
<1> QED BY <1>3, JobMemoryAssumption

\* No command removes or rewrites an event.
LEMMA StepExtends ==
  ASSUME LogInv, LogInv', RowsStay
  PROVE  Extended(events, events')
BY DEF LogInv, LogTyped, RowsStay, Extended

\* An application that may be written about is there, and is not voided.
LEMMA WritableStands ==
  ASSUME LogInv, NEW a, NEW expected, AssertApplicationWritable(a, expected)
  PROVE  a \in DOMAIN applications /\ applications[a].voided = FALSE
<1>1. a \in DOMAIN applications /\ applications[a] \in Application
  BY WritableRow
<1>2. applications[a].voided \in BOOLEAN
  BY <1>1 DEF Application
<1> QED BY <1>1, <1>2 DEF AssertApplicationWritable

\* One event is recorded.
LEMMA AppendIsWhole ==
  ASSUME Whole, NEW key \in Keys, NEW a, NEW expected, NEW type \in UserTypes, NEW at \in Times,
         AppendFeedbackEvent(key, a, expected, type, at)
  PROVE  Whole'
<1>1. LogInv' /\ Extended(events, events')
  BY AppendKeeps, StepExtends DEF Whole, StepTells
<1>2. a \in DOMAIN applications
  BY WritableStands DEF Whole, AppendFeedbackEvent
<1>3. RowsStand
  BY <1>2, IncrementStands DEF Whole, AppendFeedbackEvent
<1>4. RowsSound(applications') /\ RowsJoin(applications, applications')
  BY <1>3, StandingRows DEF Whole
<1> DEFINE e == MakeFeedbackEvent(a, type, at, 0, KeyFor(key, ""))
<1>5. e.app = a /\ e.type = type /\ e.target = 0
  BY DEF MakeFeedbackEvent
<1>6. events' = Append(events, e)
  BY DEF AppendFeedbackEvent
<1> HIDE DEF e
<1>7. \A i \in DOMAIN events' \ DOMAIN events : events'[i] = e
  BY <1>6, AnyAppended DEF Whole, LogInv, LogTyped
<1>8. \A i \in DOMAIN events' \ DOMAIN events : Plain(events'[i]) /\ events'[i].app \in DOMAIN applications'
  BY <1>2, <1>3, <1>5, <1>7, UsersVoidNothing DEF Plain, RowsStand
<1>9. EventsSound(events', applications')
  BY <1>1, <1>4, <1>8, PlainEventsJoin DEF Whole
<1> QED BY <1>1, <1>4, <1>9 DEF Whole

\* The facts of an application are corrected.
LEMMA MetadataIsWhole ==
  ASSUME Whole, NEW a, NEW expected, NEW resume \in Resumes \cup {None},
         UpdateApplicationMetadata(a, expected, resume)
  PROVE  Whole'
<1>1. LogInv' /\ Extended(events, events')
  BY MetadataKeeps, StepExtends DEF Whole, StepTells
<1>2. a \in DOMAIN applications /\ applications[a] \in Application
  BY WritableRow DEF Whole, UpdateApplicationMetadata
<1> DEFINE row == [applications[a] EXCEPT !.version = @ + 1, !.resume = resume]
<1>3. Standing(applications[a], row)
  <2>1. 0 \in Nat
    OBVIOUS
  <2> QED BY <1>2, <2>1, RowStands
<1>4. applications' = [applications EXCEPT ![a] = row]
  BY <1>2 DEF UpdateApplicationMetadata, IncrementVersion, Whole, LogInv, LogTyped
<1> HIDE DEF row
<1>5. RowsStand
  BY <1>2, <1>3, <1>4 DEF RowsStand, Standing
<1>6. RowsSound(applications') /\ RowsJoin(applications, applications')
  BY <1>5, StandingRows DEF Whole
<1> DEFINE e == MakeFeedbackEvent(a, "application_metadata_corrected", Now, 0, AuditKey(a, "metadata"))
<1>7. e.app = a /\ e.type = "application_metadata_corrected" /\ e.target = 0
  BY MadeEvent
<1>8. events' = Append(events, e)
  BY DEF UpdateApplicationMetadata
<1> HIDE DEF e
<1>9. \A i \in DOMAIN events' \ DOMAIN events : events'[i] = e
  BY <1>8, AnyAppended DEF Whole, LogInv, LogTyped
<1>10. \A i \in DOMAIN events' \ DOMAIN events : Plain(events'[i]) /\ events'[i].app \in DOMAIN applications'
  BY <1>2, <1>5, <1>7, <1>9 DEF Plain, RowsStand
<1>11. EventsSound(events', applications')
  BY <1>1, <1>6, <1>10, PlainEventsJoin DEF Whole
<1> QED BY <1>1, <1>6, <1>11 DEF Whole

\* An application is voided, and names its successor.
LEMMA VoidIsWhole ==
  ASSUME Whole, NEW a, NEW expected, NEW successor \in Nat,
         VoidApplication(a, expected, successor)
  PROVE  Whole'
<1>1. LogInv' /\ Extended(events, events')
  BY VoidKeeps, StepExtends DEF Whole, StepTells
<1>2. a \in DOMAIN applications /\ applications[a] \in Application
  BY WritableRow DEF Whole, VoidApplication
<1>3. applications[a].voided = FALSE
  BY WritableStands DEF Whole, VoidApplication
<1> DEFINE row == [applications[a] EXCEPT !.version = @ + 1, !.voided = TRUE, !.superseded = successor]
<1>4. row.job = applications[a].job /\ row.voided = TRUE /\ row.superseded = successor
  <2>1. None \in Resumes \cup {None}
    OBVIOUS
  <2> QED BY <1>2, <2>1, RowStands
<1>5. applications' = [applications EXCEPT ![a] = row]
  BY <1>2 DEF VoidApplication, IncrementVersion, Whole, LogInv, LogTyped
<1> HIDE DEF row
<1>6. /\ DOMAIN applications' = DOMAIN applications
      /\ \A b \in DOMAIN applications : b # a => applications'[b] = applications[b]
      /\ applications'[a] = row
  BY <1>2, <1>5
<1>7. successor # 0 => /\ successor \in DOMAIN applications /\ successor # a
                       /\ applications[successor].job = applications[a].job
                       /\ applications[successor].voided = FALSE
  <2>1. \A b \in DOMAIN applications : applications[b].voided \in BOOLEAN
    <3>1. \A b \in DOMAIN applications : applications[b] \in Application
      BY RowOfLog DEF Whole, LogInv, LogTyped
    <3> QED BY <3>1 DEF Application
  <2> QED BY <2>1 DEF VoidApplication
<1>8. 0 \notin DOMAIN applications
  BY DEF Whole, LogInv, LogTyped
<1>9. RowsSound(applications')
  BY <1>2, <1>3, <1>4, <1>6, <1>7, <1>8, SuccessorJoins DEF Whole
<1> DEFINE e == MakeFeedbackEvent(a, "application_voided", Now, 0, AuditKey(a, "void"))
<1>10. e.app = a /\ e.type = "application_voided" /\ e.target = 0
  BY MadeEvent
<1>11. events' = Append(events, e)
  BY DEF VoidApplication
<1> HIDE DEF e
<1> DEFINE new == Len(events) + 1
<1>12. DOMAIN events' = DOMAIN events \cup {new} /\ new \notin DOMAIN events /\ events'[new] = e
  BY <1>11, AnyAppended DEF Whole, LogInv, LogTyped
<1> HIDE DEF new
<1>13. EventsSound(events', applications')
  BY <1>1, <1>2, <1>4, <1>6, <1>10, <1>12, AuditJoins DEF Whole
<1> QED BY <1>1, <1>9, <1>13 DEF Whole

\* An event is voided, and may be replaced.
LEMMA CorrectionIsWhole ==
  ASSUME Whole, NEW key \in Keys, NEW target \in DOMAIN events, NEW expected,
         NEW replacement \in UserTypes \cup {None}, NEW at \in Times,
         VoidFeedbackEvent(key, target, expected, replacement, at)
  PROVE  Whole'
<1> DEFINE a == events[target].app
           e == MakeFeedbackEvent(a, "event_voided", Now, target, KeyFor(key, ""))
           f == MakeFeedbackEvent(a, replacement, at, 0, KeyFor(key, "replacement"))
           first == Append(events, e)
           new == Len(events) + 1
<1>1. LogInv' /\ Extended(events, events')
  BY CorrectionKeeps, StepExtends DEF Whole, StepTells
<1>2. a \in DOMAIN applications /\ applications[a].voided = FALSE
  BY WritableStands DEF Whole, VoidFeedbackEvent
<1>3. RowsStand
  BY <1>2, IncrementStands DEF Whole, VoidFeedbackEvent
<1>4. RowsSound(applications') /\ RowsJoin(applications, applications')
  BY <1>3, StandingRows DEF Whole
<1>5. e.app = a /\ e.type = "event_voided" /\ e.target = target
  BY DEF MakeFeedbackEvent
<1>6. f.app = a /\ f.type = replacement /\ f.target = 0
  BY MadeEvent
<1>7. /\ events[target].type # "event_voided"
      /\ \A i \in DOMAIN events : ~(Voids(events, i) /\ events[i].target = target)
  BY DEF VoidFeedbackEvent, Voids
<1>8. events' = IF replacement = None THEN first ELSE events \o <<e, f>>
  BY DEF VoidFeedbackEvent
<1>9. events \in Seq(Event)
  BY DEF Whole, LogInv, LogTyped
<1> HIDE DEF e, f, a
<1>10. e \in Event
  <2>1. CASE replacement = None
    <3>1. events' = first
      BY <1>8, <2>1
    <3>2. new \in DOMAIN events' /\ events'[new] = e
      BY <1>9, <3>1, AnyAppended
    <3> QED BY <1>1, <3>2, RowOfLog DEF Extended
  <2>2. CASE replacement # None
    <3>1. events' = events \o <<e, f>>
      BY <1>8, <2>2
    <3>2. DOMAIN events' = DOMAIN events \cup {Len(events) + 1, Len(events) + 2}
      BY <1>9, <3>1, AnyTwoAppended
    <3>3. events'[Len(events) + 1] = e
      BY <1>9, <3>1, AnyTwoAppended
    <3> QED BY <1>1, <3>2, <3>3, RowOfLog DEF Extended
  <2> QED BY <2>1, <2>2
<1>11. /\ Extended(events, first)
       /\ DOMAIN first = DOMAIN events \cup {new} /\ new \notin DOMAIN events /\ first[new] = e
  <2>1. /\ DOMAIN first = DOMAIN events \cup {new} /\ first[new] = e
        /\ \A i \in DOMAIN events : first[i] = events[i]
    BY <1>9, <1>10, RowAtTheEnd
  <2>2. first \in Seq(Event)
    BY <1>9, <1>10
  <2>3. new \notin DOMAIN events
    BY <1>9, AnyAppended
  <2> HIDE DEF first, new
  <2> QED BY <1>9, <2>1, <2>2, <2>3 DEF Extended
<1> HIDE DEF first, new
<1>12. DOMAIN applications' = DOMAIN applications
  BY <1>3 DEF RowsStand
<1>13. EventsSound(first, applications')
  <2>1. Voids(first, new) /\ first[new].app = events[first[new].target].app
    BY <1>5, <1>11 DEF Voids, a
  <2>2. MayVoid(events, applications, first[new].target)
    BY <1>2, <1>5, <1>7, <1>11 DEF MayVoid, a
  <2> QED BY <1>4, <1>11, <1>12, <2>1, <2>2, VoidJoins DEF Whole
<1>14. EventsSound(events', applications')
  <2>1. CASE replacement = None
    BY <1>8, <1>13, <2>1
  <2>2. CASE replacement # None
    <3>1. events' = events \o <<e, f>>
      BY <1>8, <2>2
    <3>2. /\ DOMAIN events' = DOMAIN events \cup {new, Len(events) + 2}
          /\ events'[new] = e /\ events'[Len(events) + 2] = f
      BY <1>9, <3>1, AnyTwoAppended DEF new
    <3>3. Extended(first, events')
      BY <1>1, <1>11, <3>2 DEF Extended
    <3>4. \A i \in DOMAIN events' \ DOMAIN first : events'[i] = f
      BY <1>11, <3>2
    <3>5. Plain(f) /\ f.app \in DOMAIN applications'
      BY <1>2, <1>6, <1>12, <2>2, UsersVoidNothing DEF Plain
    <3>6. RowsJoin(applications', applications')
      BY DEF RowsJoin
    <3> QED BY <1>13, <3>3, <3>4, <3>5, <3>6, PlainEventsJoin
  <2> QED BY <2>1, <2>2
<1> QED BY <1>1, <1>4, <1>14 DEF Whole

\* An application is created, with the event that says so and perhaps a first one.
LEMMA CreationIsWhole ==
  ASSUME Whole, NEW key \in Keys, NEW job \in Jobs, NEW resume \in Resumes \cup {None},
         NEW initial \in UserTypes \cup {None}, NEW at \in Times,
         CreateApplication(key, job, resume, initial, at)
  PROVE  Whole'
<1> DEFINE a   == Len(applications) + 1
           row == [job |-> job, resume |-> resume, version |-> 1, voided |-> FALSE,
                   superseded |-> 0, key |-> KeyFor(key, "")]
           e   == MakeFeedbackEvent(a, "application_created", Now, 0, KeyFor(key, "created"))
           f   == MakeFeedbackEvent(a, initial, at, 0, KeyFor(key, "initial"))
<1>1. LogInv' /\ Extended(events, events')
  BY CreationKeeps, StepExtends DEF Whole, StepTells
<1>2. row.voided = FALSE /\ row.superseded = 0
  OBVIOUS
<1>3. applications' = Append(applications, row)
  BY DEF CreateApplication
<1>4. e.app = a /\ e.type = "application_created" /\ e.target = 0
  BY MadeEvent
<1>5. f.app = a /\ f.type = initial /\ f.target = 0
  BY MadeEvent
<1>6. events' = IF initial = None THEN Append(events, e) ELSE events \o <<e, f>>
  BY DEF CreateApplication
<1>7. events \in Seq(Event) /\ applications \in Seq(Application) /\ applications' \in Seq(Application)
  BY <1>1 DEF Whole, LogInv, LogTyped
<1> HIDE DEF row, e, f
<1>8. /\ DOMAIN applications' = DOMAIN applications \cup {a} /\ a \notin DOMAIN applications
      /\ applications'[a] = row
      /\ \A b \in DOMAIN applications : applications'[b] = applications[b]
  <2>1. \A b \in DOMAIN applications : applications'[b] = applications[b]
    BY <1>3, <1>7
  <2> QED BY <1>3, <1>7, <2>1, AnyAppended
<1>9. 0 \notin DOMAIN applications'
  BY <1>7
<1> HIDE DEF a
<1>10. RowsSound(applications') /\ RowsJoin(applications, applications')
  BY <1>2, <1>8, <1>9, RowJoins DEF Whole
<1>11. \A i \in DOMAIN events' \ DOMAIN events : events'[i] = e \/ (initial # None /\ events'[i] = f)
  <2>1. CASE initial = None
    BY <1>6, <1>7, <2>1, AnyAppended
  <2>2. CASE initial # None
    <3>1. events' = events \o <<e, f>>
      BY <1>6, <2>2
    <3> QED BY <1>7, <2>2, <3>1, AnyTwoAppended
  <2> QED BY <2>1, <2>2
<1>12. Plain(e) /\ (initial # None => Plain(f))
  BY <1>4, <1>5, UsersVoidNothing DEF Plain
<1>13. \A i \in DOMAIN events' \ DOMAIN events : Plain(events'[i]) /\ events'[i].app \in DOMAIN applications'
  BY <1>4, <1>5, <1>8, <1>11, <1>12
<1>14. EventsSound(events', applications')
  BY <1>1, <1>10, <1>13, PlainEventsJoin DEF Whole
<1> QED BY <1>1, <1>10, <1>14 DEF Whole

\* The commands about resume versions write nothing here.
LEMMA QuietIsWhole ==
  ASSUME Whole, UNCHANGED <<applications, events>>
  PROVE  Whole'
BY QuietKeeps DEF Whole

\* Every command keeps the log and the rows whole.
LEMMA CommandIsWhole == Whole /\ Command => Whole'
<1> SUFFICES ASSUME Whole, Command PROVE Whole'
  OBVIOUS
<1>1. CASE \E key \in Keys, job \in Jobs, resume \in Resumes \cup {None},
              initial \in UserTypes \cup {None}, at \in Times :
             CreateApplication(key, job, resume, initial, at)
  BY <1>1, CreationIsWhole
<1>2. CASE \E a \in DOMAIN applications : \E expected \in ReadVersions(a) :
             \E key \in Keys, type \in UserTypes, at \in Times :
               AppendFeedbackEvent(key, a, expected, type, at)
  BY <1>2, AppendIsWhole
<1>3. CASE \E a \in DOMAIN applications : \E expected \in ReadVersions(a) :
             \E resume \in Resumes \cup {None} : UpdateApplicationMetadata(a, expected, resume)
  BY <1>3, MetadataIsWhole
<1>4. CASE \E a \in DOMAIN applications : \E expected \in ReadVersions(a) :
             \E successor \in 0..Len(applications) : VoidApplication(a, expected, successor)
  <2>1. \A successor \in 0..Len(applications) : successor \in Nat
    OBVIOUS
  <2> QED BY <1>4, <2>1, VoidIsWhole
<1>5. CASE \E target \in DOMAIN events : \E expected \in ReadVersions(events[target].app) :
             \E key \in Keys, replacement \in UserTypes \cup {None}, at \in Times :
               VoidFeedbackEvent(key, target, expected, replacement, at)
  BY <1>5, CorrectionIsWhole
<1> QED BY <1>1, <1>2, <1>3, <1>4, <1>5 DEF Command

LEMMA NextIsWhole == Whole /\ [Next]_vars => Whole'
<1> SUFFICES ASSUME Whole, [Next]_vars PROVE Whole'
  OBVIOUS
<1>1. CASE UNCHANGED vars \/ ResumeCommand
  BY <1>1, QuietIsWhole DEF vars, ResumeCommand, CreateResumeVersion, ActivateResumeVersion,
                          ArchiveResumeVersion
<1>2. CASE Command
  BY <1>2, CommandIsWhole
<1> QED BY <1>1, <1>2 DEF Next

LEMMA InitIsWhole == Init => Whole
<1> SUFFICES ASSUME Init PROVE Whole
  OBVIOUS
<1>1. LogInv
  BY InitHolds
<1>2. CASE applications = << >> /\ events = << >>
  BY <1>1, <1>2 DEF Whole, EventsSound, EventsRefer, VoidsRefer, VoidsAudited, SeededOnce, RowsSound, ChainsEnd
<1>3. ASSUME NEW job \in Jobs, NEW status \in LegacyStatuses, NEW key \in Keys,
             applications = <<[job |-> job, resume |-> None, version |-> 1, voided |-> FALSE,
                               superseded |-> 0, key |-> KeyFor(key, "migration")]>>,
             events = <<[MakeFeedbackEvent(1, "legacy_status_imported", 0, 0, KeyFor(key, "migration"))
                           EXCEPT !.legacy = status]>>
      PROVE  Whole
  <2> DEFINE row == [job |-> job, resume |-> None, version |-> 1, voided |-> FALSE,
                     superseded |-> 0, key |-> KeyFor(key, "migration")]
             e   == [MakeFeedbackEvent(1, "legacy_status_imported", 0, 0, KeyFor(key, "migration"))
                       EXCEPT !.legacy = status]
  <2>1. row.voided = FALSE /\ row.superseded = 0
    OBVIOUS
  <2>2. e.app = 1 /\ e.type = "legacy_status_imported" /\ e.target = 0 /\ e.legacy = status
    BY DEF MakeFeedbackEvent
  <2>3. applications = <<row>> /\ events = <<e>>
    BY <1>3
  <2> HIDE DEF row, e
  <2>4. /\ DOMAIN applications = {1} /\ applications[1] = row
        /\ DOMAIN events = {1} /\ events[1] = e
    BY <2>3
  <2>5. EventsRefer(events, applications)
    BY <2>2, <2>4 DEF EventsRefer
  <2>6. VoidsRefer(events)
    BY <2>2, <2>4 DEF VoidsRefer, Voids
  <2>7. VoidsAudited(events, applications)
    BY <2>1, <2>2, <2>4 DEF VoidsAudited, Audited
  <2>8. RowsSound(applications)
    BY <2>1, <2>4 DEF RowsSound, ChainsEnd
  <2>9. SeededOnce(events)
    BY <2>4 DEF SeededOnce
  <2> QED BY <1>1, <2>5, <2>6, <2>7, <2>8, <2>9 DEF Whole, EventsSound
<1> QED BY <1>2, <1>3 DEF Init

-----------------------------------------------------------------------------
(* What the rows refer to, and what a command writes about.                *)

\* The resume versions, and the one new applications name.
ResumesTyped ==
  /\ resumes \in [Resumes -> {"none", "live", "archived"}]
  /\ activeResume \in {r \in Resumes : resumes[r] = "live"} \cup {None}

\* Only a live resume version is the one new applications name (activateResumeVersion).
LEMMA ResumesKeep == ResumesTyped /\ [Next]_vars => ResumesTyped'
<1> SUFFICES ASSUME ResumesTyped, [Next]_vars PROVE ResumesTyped'
  OBVIOUS
<1>1. CASE UNCHANGED <<resumes, activeResume>>
  BY <1>1 DEF ResumesTyped
<1>2. ASSUME NEW r \in Resumes, CreateResumeVersion(r) PROVE ResumesTyped'
  BY <1>2 DEF ResumesTyped, CreateResumeVersion
<1>3. ASSUME NEW r \in Resumes, ActivateResumeVersion(r) PROVE ResumesTyped'
  BY <1>3 DEF ResumesTyped, ActivateResumeVersion
<1>4. ASSUME NEW r \in Resumes, NEW replacement \in Resumes \cup {None}, ArchiveResumeVersion(r, replacement)
      PROVE  ResumesTyped'
  <2>1. /\ resumes' \in [Resumes -> {"none", "live", "archived"}]
        /\ \A q \in Resumes : q # r => resumes'[q] = resumes[q]
    BY <1>4 DEF ResumesTyped, ArchiveResumeVersion
  <2>2. CASE activeResume = r
    <3>1. replacement # r /\ activeResume' = replacement /\ (replacement # None => resumes[replacement] = "live")
      BY <1>4, <2>2 DEF ArchiveResumeVersion
    <3> QED BY <2>1, <3>1 DEF ResumesTyped
  <2>3. CASE activeResume # r
    <3>1. activeResume' = activeResume
      BY <1>4, <2>3 DEF ArchiveResumeVersion
    <3> QED BY <2>1, <2>3, <3>1 DEF ResumesTyped
  <2> QED BY <2>2, <2>3
<1>5. CASE Command
  BY <1>1, <1>5 DEF Command, CreateApplication, AppendFeedbackEvent, VoidFeedbackEvent,
                    UpdateApplicationMetadata, VoidApplication
<1>6. CASE UNCHANGED vars
  BY <1>1, <1>6 DEF vars
<1> QED BY <1>2, <1>3, <1>4, <1>5, <1>6 DEF Next, ResumeCommand

\* The invariants say what the type invariant and SuccessorsEnd say.
LEMMA WholeIsTyped == Whole /\ ResumesTyped => TypeOK /\ SuccessorsEnd
<1> SUFFICES ASSUME Whole, ResumesTyped PROVE TypeOK /\ SuccessorsEnd
  OBVIOUS
<1>1. /\ applications \in Seq(Application) /\ events \in Seq(Event)
      /\ EventsRefer(events, applications) /\ RowsSound(applications)
  BY DEF Whole, LogInv, LogTyped, EventsSound
<1>2. ASSUME NEW a \in DOMAIN applications
      PROVE  applications[a] \in Application /\ applications[a].superseded \in 0..Len(applications)
  <2>1. applications[a] \in Application
    BY <1>1, RowOfLog
  <2>2. applications[a].superseded = 0 \/ applications[a].superseded \in DOMAIN applications
    BY <1>1 DEF RowsSound, Succeeded
  <2> QED BY <1>1, <2>1, <2>2, LogNumbers
<1>3. ASSUME NEW i \in DOMAIN events
      PROVE  /\ events[i] \in Event /\ events[i].app \in DOMAIN applications
             /\ events[i].target \in 0..(i - 1)
  BY <1>1, RowOfLog DEF EventsRefer
<1>4. TypeOK
  BY <1>2, <1>3 DEF TypeOK, ResumesTyped
<1>5. SuccessorsEnd
  BY <1>1 DEF SuccessorsEnd, RowsSound, Succeeded, ChainsEnd
<1> QED BY <1>4, <1>5

\* Every row and event stays of its type, what they refer to is there, and following the
\* successors of a voided application never comes back to it, whatever commands come in
\* whatever order (voidApplication, jobMemoryService.ts:405, and the foreign keys of the
\* tables).
THEOREM ReferencesHold == Spec => [](TypeOK /\ SuccessorsEnd)
<1>1. Init => ResumesTyped
  BY DEF Init, ResumesTyped
<1> QED BY <1>1, ResumesKeep, WholeIsTyped, InitIsWhole, NextIsWhole, PTL DEF Spec

\* A command writes about one application, which is not voided, and gives it a resume
\* version only while that is live.
WritesAbout(a) ==
  /\ a \in DOMAIN applications => applications[a].voided = FALSE
  /\ \A b \in DOMAIN applications' : b # a => b \in DOMAIN applications /\ applications'[b] = applications[b]
  /\ \A i \in DOMAIN events' \ DOMAIN events : events'[i].app = a
  /\ LET before == IF a \in DOMAIN applications THEN applications[a].resume ELSE None
     IN  applications'[a].resume \notin {None, before} => resumes[applications'[a].resume] = "live"

\* Only the row whose version is incremented changes.
LEMMA IncrementOfOne ==
  ASSUME LogInv, NEW a \in DOMAIN applications, applications' = IncrementVersion(a)
  PROVE  /\ DOMAIN applications' = DOMAIN applications
         /\ \A b \in DOMAIN applications : b # a => applications'[b] = applications[b]
         /\ applications'[a].resume = applications[a].resume
<1>1. applications[a] \in Application
  BY RowOfLog DEF LogInv, LogTyped
<1> DEFINE row == [applications[a] EXCEPT !.version = @ + 1]
<1>2. row.resume = applications[a].resume
  BY <1>1 DEF Application
<1>3. applications' = [applications EXCEPT ![a] = row]
  BY DEF IncrementVersion
<1> HIDE DEF row
<1> QED BY <1>2, <1>3

\* One lemma for each command, as above.
LEMMA AppendIsAbout ==
  ASSUME Whole, NEW key \in Keys, NEW a, NEW expected, NEW type \in UserTypes, NEW at \in Times,
         AppendFeedbackEvent(key, a, expected, type, at)
  PROVE  WritesAbout(a)
<1>1. a \in DOMAIN applications /\ applications[a].voided = FALSE
  BY WritableStands DEF Whole, AppendFeedbackEvent
<1>2. /\ DOMAIN applications' = DOMAIN applications
      /\ \A b \in DOMAIN applications : b # a => applications'[b] = applications[b]
      /\ applications'[a].resume = applications[a].resume
  BY <1>1, IncrementOfOne DEF Whole, AppendFeedbackEvent
<1> DEFINE e == MakeFeedbackEvent(a, type, at, 0, KeyFor(key, ""))
<1>3. e.app = a
  BY DEF MakeFeedbackEvent
<1>4. events' = Append(events, e)
  BY DEF AppendFeedbackEvent
<1> HIDE DEF e
<1>5. \A i \in DOMAIN events' \ DOMAIN events : events'[i].app = a
  BY <1>3, <1>4, AnyAppended DEF Whole, LogInv, LogTyped
<1> QED BY <1>1, <1>2, <1>5 DEF WritesAbout

LEMMA CorrectionIsAbout ==
  ASSUME Whole, NEW key \in Keys, NEW target \in DOMAIN events, NEW expected,
         NEW replacement \in UserTypes \cup {None}, NEW at \in Times,
         VoidFeedbackEvent(key, target, expected, replacement, at)
  PROVE  WritesAbout(events[target].app)
<1> DEFINE a == events[target].app
           e == MakeFeedbackEvent(a, "event_voided", Now, target, KeyFor(key, ""))
           f == MakeFeedbackEvent(a, replacement, at, 0, KeyFor(key, "replacement"))
<1>1. a \in DOMAIN applications /\ applications[a].voided = FALSE
  BY WritableStands DEF Whole, VoidFeedbackEvent
<1>2. /\ DOMAIN applications' = DOMAIN applications
      /\ \A b \in DOMAIN applications : b # a => applications'[b] = applications[b]
      /\ applications'[a].resume = applications[a].resume
  BY <1>1, IncrementOfOne DEF Whole, VoidFeedbackEvent
<1>3. e.app = a /\ f.app = a
  BY DEF MakeFeedbackEvent
<1>4. events' = IF replacement = None THEN Append(events, e) ELSE events \o <<e, f>>
  BY DEF VoidFeedbackEvent
<1> HIDE DEF e, f, a
<1>5. \A i \in DOMAIN events' \ DOMAIN events : events'[i].app = a
  <2>1. CASE replacement = None
    BY <1>3, <1>4, <2>1, AnyAppended DEF Whole, LogInv, LogTyped
  <2>2. CASE replacement # None
    <3>1. events' = events \o <<e, f>>
      BY <1>4, <2>2
    <3> QED BY <1>3, <3>1, AnyTwoAppended DEF Whole, LogInv, LogTyped
  <2> QED BY <2>1, <2>2
<1>6. WritesAbout(a)
  BY <1>1, <1>2, <1>5 DEF WritesAbout
<1> QED BY <1>6 DEF a

LEMMA MetadataIsAbout ==
  ASSUME Whole, NEW a, NEW expected, NEW resume \in Resumes \cup {None},
         UpdateApplicationMetadata(a, expected, resume)
  PROVE  WritesAbout(a)
<1>1. a \in DOMAIN applications /\ applications[a].voided = FALSE
  BY WritableStands DEF Whole, UpdateApplicationMetadata
<1>2. applications[a] \in Application
  BY WritableRow DEF Whole, UpdateApplicationMetadata
<1> DEFINE row == [applications[a] EXCEPT !.version = @ + 1, !.resume = resume]
<1>3. applications' = [applications EXCEPT ![a] = row]
  BY <1>1 DEF UpdateApplicationMetadata, IncrementVersion, Whole, LogInv, LogTyped
<1>4. row.resume = resume
  <2> DEFINE next == [applications[a] EXCEPT !.version = applications[a].version + 1]
  <2>1. "resume" \in DOMAIN next
    BY <1>2 DEF Application
  <2>2. row = [next EXCEPT !.resume = resume]
    OBVIOUS
  <2> HIDE DEF next
  <2> QED BY <2>1, <2>2
<1> HIDE DEF row
<1>5. /\ DOMAIN applications' = DOMAIN applications
      /\ \A b \in DOMAIN applications : b # a => applications'[b] = applications[b]
      /\ applications'[a].resume = resume
  BY <1>1, <1>3, <1>4
<1>6. resume # None => resumes[resume] = "live"
  BY DEF UpdateApplicationMetadata, Selectable
<1> DEFINE e == MakeFeedbackEvent(a, "application_metadata_corrected", Now, 0, AuditKey(a, "metadata"))
<1>7. e.app = a
  BY DEF MakeFeedbackEvent
<1>8. events' = Append(events, e)
  BY DEF UpdateApplicationMetadata
<1> HIDE DEF e
<1>9. \A i \in DOMAIN events' \ DOMAIN events : events'[i].app = a
  BY <1>7, <1>8, AnyAppended DEF Whole, LogInv, LogTyped
<1> QED BY <1>1, <1>5, <1>6, <1>9 DEF WritesAbout

LEMMA VoidIsAbout ==
  ASSUME Whole, NEW a, NEW expected, NEW successor \in Nat,
         VoidApplication(a, expected, successor)
  PROVE  WritesAbout(a)
<1>1. a \in DOMAIN applications /\ applications[a].voided = FALSE
  BY WritableStands DEF Whole, VoidApplication
<1>2. applications[a] \in Application
  BY WritableRow DEF Whole, VoidApplication
<1> DEFINE row == [applications[a] EXCEPT !.version = @ + 1, !.voided = TRUE, !.superseded = successor]
<1>3. applications' = [applications EXCEPT ![a] = row]
  BY <1>1 DEF VoidApplication, IncrementVersion, Whole, LogInv, LogTyped
<1>4. row.resume = applications[a].resume
  <2> DEFINE next == [applications[a] EXCEPT !.version = applications[a].version + 1]
             gone == [next EXCEPT !.voided = TRUE]
  <2>1. "resume" \in DOMAIN next /\ next.resume = applications[a].resume
    BY <1>2 DEF Application
  <2>2. row = [gone EXCEPT !.superseded = successor]
    OBVIOUS
  <2> HIDE DEF next
  <2>3. "resume" \in DOMAIN gone /\ gone.resume = applications[a].resume
    BY <2>1
  <2> HIDE DEF gone
  <2> QED BY <2>2, <2>3
<1> HIDE DEF row
<1>5. /\ DOMAIN applications' = DOMAIN applications
      /\ \A b \in DOMAIN applications : b # a => applications'[b] = applications[b]
      /\ applications'[a].resume = applications[a].resume
  BY <1>1, <1>3, <1>4
<1> DEFINE e == MakeFeedbackEvent(a, "application_voided", Now, 0, AuditKey(a, "void"))
<1>6. e.app = a
  BY DEF MakeFeedbackEvent
<1>7. events' = Append(events, e)
  BY DEF VoidApplication
<1> HIDE DEF e
<1>8. \A i \in DOMAIN events' \ DOMAIN events : events'[i].app = a
  BY <1>6, <1>7, AnyAppended DEF Whole, LogInv, LogTyped
<1> QED BY <1>1, <1>5, <1>8 DEF WritesAbout

LEMMA CreationIsAbout ==
  ASSUME Whole, NEW key \in Keys, NEW job \in Jobs, NEW resume \in Resumes \cup {None},
         NEW initial \in UserTypes \cup {None}, NEW at \in Times,
         CreateApplication(key, job, resume, initial, at)
  PROVE  WritesAbout(Len(applications) + 1)
<1> DEFINE a   == Len(applications) + 1
           row == [job |-> job, resume |-> resume, version |-> 1, voided |-> FALSE,
                   superseded |-> 0, key |-> KeyFor(key, "")]
           e   == MakeFeedbackEvent(a, "application_created", Now, 0, KeyFor(key, "created"))
           f   == MakeFeedbackEvent(a, initial, at, 0, KeyFor(key, "initial"))
<1>1. row.resume = resume
  OBVIOUS
<1>2. applications' = Append(applications, row)
  BY DEF CreateApplication
<1>3. e.app = a /\ f.app = a
  BY DEF MakeFeedbackEvent
<1>4. events' = IF initial = None THEN Append(events, e) ELSE events \o <<e, f>>
  BY DEF CreateApplication
<1>5. events \in Seq(Event) /\ applications \in Seq(Application)
  BY DEF Whole, LogInv, LogTyped
<1>6. resume # None => resumes[resume] = "live"
  BY DEF CreateApplication, Selectable
<1> HIDE DEF row, e, f
<1>7. /\ DOMAIN applications' = DOMAIN applications \cup {a} /\ a \notin DOMAIN applications
      /\ applications'[a] = row
      /\ \A b \in DOMAIN applications : applications'[b] = applications[b]
  <2>1. \A b \in DOMAIN applications : applications'[b] = applications[b]
    BY <1>2, <1>5
  <2> QED BY <1>2, <1>5, <2>1, AnyAppended
<1> HIDE DEF a
<1>8. \A i \in DOMAIN events' \ DOMAIN events : events'[i].app = a
  <2>1. CASE initial = None
    BY <1>3, <1>4, <1>5, <2>1, AnyAppended
  <2>2. CASE initial # None
    <3>1. events' = events \o <<e, f>>
      BY <1>4, <2>2
    <3> QED BY <1>3, <1>5, <3>1, AnyTwoAppended
  <2> QED BY <2>1, <2>2
<1>9. WritesAbout(a)
  BY <1>1, <1>6, <1>7, <1>8 DEF WritesAbout
<1> QED BY <1>9 DEF a

LEMMA CommandIsAbout == Whole /\ Command => \E a : WritesAbout(a)
<1> SUFFICES ASSUME Whole, Command PROVE \E a : WritesAbout(a)
  OBVIOUS
<1>1. CASE \E key \in Keys, job \in Jobs, resume \in Resumes \cup {None},
              initial \in UserTypes \cup {None}, at \in Times :
             CreateApplication(key, job, resume, initial, at)
  BY <1>1, CreationIsAbout
<1>2. CASE \E a \in DOMAIN applications : \E expected \in ReadVersions(a) :
             \E key \in Keys, type \in UserTypes, at \in Times :
               AppendFeedbackEvent(key, a, expected, type, at)
  BY <1>2, AppendIsAbout
<1>3. CASE \E a \in DOMAIN applications : \E expected \in ReadVersions(a) :
             \E resume \in Resumes \cup {None} : UpdateApplicationMetadata(a, expected, resume)
  BY <1>3, MetadataIsAbout
<1>4. CASE \E a \in DOMAIN applications : \E expected \in ReadVersions(a) :
             \E successor \in 0..Len(applications) : VoidApplication(a, expected, successor)
  <2>1. \A successor \in 0..Len(applications) : successor \in Nat
    OBVIOUS
  <2> QED BY <1>4, <2>1, VoidIsAbout
<1>5. CASE \E target \in DOMAIN events : \E expected \in ReadVersions(events[target].app) :
             \E key \in Keys, replacement \in UserTypes \cup {None}, at \in Times :
               VoidFeedbackEvent(key, target, expected, replacement, at)
  BY <1>5, CorrectionIsAbout
<1> QED BY <1>1, <1>2, <1>3, <1>4, <1>5 DEF Command

\* The two action properties, as actions.
VoidedStand ==
  \A a \in DOMAIN applications : applications[a].voided =>
    /\ applications'[a] = applications[a]
    /\ EventsOf(events', a) = EventsOf(events, a)

ChosenLive ==
  \A a \in DOMAIN applications' :
    LET before == IF a \in DOMAIN applications THEN applications[a].resume ELSE None
    IN  applications'[a].resume \notin {None, before} => resumes[applications'[a].resume] = "live"

\* A step that writes about one application leaves the voided ones alone.
LEMMA StepStands == Whole /\ [Next]_vars => VoidedStand /\ ChosenLive
<1> SUFFICES ASSUME Whole, [Next]_vars PROVE VoidedStand /\ ChosenLive
  OBVIOUS
<1>1. CASE UNCHANGED <<applications, events>>
  BY <1>1 DEF VoidedStand, ChosenLive
<1>2. CASE Command
  <2>1. PICK a : WritesAbout(a)
    BY <1>2, CommandIsAbout
  <2>2. LogInv /\ LogInv' /\ RowsStay
    BY <1>2, CommandKeeps DEF Whole, StepTells
  <2>3. Extended(events, events')
    BY <2>2, StepExtends
  <2>4. VoidedStand
    <3>1. SUFFICES ASSUME NEW b \in DOMAIN applications, applications[b].voided
                   PROVE  applications'[b] = applications[b] /\ EventsOf(events', b) = EventsOf(events, b)
      BY DEF VoidedStand
    <3>2. b # a /\ b \in DOMAIN applications'
      BY <2>1, <2>2, <3>1 DEF WritesAbout, RowsStay
    <3> QED BY <2>1, <2>3, <3>2 DEF WritesAbout, Extended, EventsOf
  <2>5. ChosenLive
    BY <2>1 DEF WritesAbout, ChosenLive
  <2> QED BY <2>4, <2>5
<1>3. UNCHANGED vars \/ ResumeCommand => UNCHANGED <<applications, events>>
  BY DEF vars, ResumeCommand, CreateResumeVersion, ActivateResumeVersion, ArchiveResumeVersion
<1> QED BY <1>1, <1>2, <1>3 DEF Next

\* Nothing is recorded about a voided application, whose row stays as it was left
\* (assertApplicationWritable, jobMemoryService.ts:592), and an application comes to name
\* a resume version only while that is live (assertSelectableResumeVersion, :583).
THEOREM VoidedAreLeftAlone == Spec => VoidedStays /\ ResumeChosenLive
<1>1. Spec => [][VoidedStand /\ ChosenLive]_vars
  BY StepStands, InitIsWhole, NextIsWhole, PTL DEF Spec
<1>2. Spec => [][VoidedStand]_vars /\ [][ChosenLive]_vars
  BY <1>1, PTL
<1> QED BY <1>2 DEF VoidedStays, ResumeChosenLive, VoidedStand, ChosenLive

-----------------------------------------------------------------------------
(* The fold of an application's events as a sequence of states.  FoldLeft  *)
(* of the community modules is a recursive function on the sets of         *)
(* places; that there is such a function, for a line of any length, is     *)
(* what has to be shown before anything can be said of its value.          *)

\* A set of numbers that is not empty has a least: the induction of the lemmas below is
\* by a least counterexample.
LEMMA LeastNatural ==
  ASSUME NEW S \in SUBSET Nat, S # {}
  PROVE  \E n \in S : \A m \in S : n <= m
<1>1. PICK n \in S : \A m \in S : ~(<<m, n>> \in OpToRel(<, Nat))
  BY NatLessThanWellFounded, WFMin
<1>2. \A m \in S : ~(m < n)
  BY <1>1 DEF OpToRel
<1> QED BY <1>2

\* A set of numbers up to a bound that is not empty has a greatest.
LEMMA GreatestExists ==
  ASSUME NEW bound \in Nat, NEW S \in SUBSET (1..bound), S # {}
  PROVE  Max(S) \in S /\ \A k \in S : Max(S) >= k
<1> DEFINE gaps == {bound - k : k \in S}
<1>0. \A k \in S : k \in Nat /\ bound - k \in Nat
  OBVIOUS
<1>1. gaps \in SUBSET Nat /\ gaps # {}
  BY <1>0
<1>2. PICK g \in gaps : \A h \in gaps : g <= h
  BY <1>1, LeastNatural
<1>3. PICK i \in S : g = bound - i
  OBVIOUS
<1>4. \A k \in S : i >= k
  <2>1. \A k \in S : g <= bound - k
    BY <1>2
  <2> QED BY <1>0, <1>3, <2>1
<1> QED BY <1>4 DEF Max

\* What FoldLeft computes on the first n entries of a line, as the function it recurs on.
FoldsTo(f, base, line, S) ==
  f = [s \in SUBSET S |-> IF s = {} THEN base ELSE Reduce(f[s \ {Max(s)}], line[Max(s)])]

\* The function on no places, and on one place more.
LEMMA NothingFolds ==
  ASSUME NEW base, NEW line
  PROVE  \E f : FoldsTo(f, base, line, 1..0)
<1> DEFINE f == [s \in SUBSET (1..0) |-> base]
<1>1. \A s \in SUBSET (1..0) : s = {}
  OBVIOUS
<1>2. f = [s \in SUBSET (1..0) |-> IF s = {} THEN base ELSE Reduce(f[s \ {Max(s)}], line[Max(s)])]
  BY <1>1
<1>3. FoldsTo(f, base, line, 1..0)
  BY <1>2 DEF FoldsTo
<1> QED BY <1>3

LEMMA OneMoreFolds ==
  ASSUME NEW base, NEW line, NEW n \in Nat, NEW f, FoldsTo(f, base, line, 1..n)
  PROVE  \E g : FoldsTo(g, base, line, 1..(n + 1))
<1>0. n + 1 \in Nat
  OBVIOUS
<1>1. \A s \in SUBSET (1..n) : f[s] = IF s = {} THEN base ELSE Reduce(f[s \ {Max(s)}], line[Max(s)])
  BY DEF FoldsTo
<1> DEFINE g == [s \in SUBSET (1..(n + 1)) |->
                   IF n + 1 \in s THEN Reduce(f[s \ {n + 1}], line[n + 1]) ELSE f[s]]
<1>2. \A s \in SUBSET (1..(n + 1)) :
        g[s] = IF n + 1 \in s THEN Reduce(f[s \ {n + 1}], line[n + 1]) ELSE f[s]
  OBVIOUS
<1>3. \A s \in SUBSET (1..n) : s \in SUBSET (1..(n + 1)) /\ n + 1 \notin s
  OBVIOUS
<1>4. \A s \in SUBSET (1..n) : g[s] = f[s]
  BY <1>2, <1>3
<1>5. g = [s \in SUBSET (1..(n + 1)) |-> g[s]]
  OBVIOUS
<1> HIDE DEF g
<1>6. ASSUME NEW s \in SUBSET (1..(n + 1))
      PROVE  g[s] = IF s = {} THEN base ELSE Reduce(g[s \ {Max(s)}], line[Max(s)])
  <2>1. CASE n + 1 \in s
    <3>1. Max(s) \in s /\ Max(s) >= n + 1
      BY <1>0, <2>1, GreatestExists
    <3>2. Max(s) = n + 1
      <4>1. Max(s) \in 1..(n + 1)
        BY <3>1
      <4> QED BY <3>1, <4>1
    <3>3. s \ {n + 1} \in SUBSET (1..n)
      OBVIOUS
    <3>4. g[s \ {n + 1}] = f[s \ {n + 1}]
      BY <1>4, <3>3
    <3>5. g[s] = Reduce(f[s \ {n + 1}], line[n + 1])
      BY <1>2, <2>1
    <3> QED BY <2>1, <3>2, <3>4, <3>5
  <2>2. CASE n + 1 \notin s /\ s # {}
    <3>1. s \in SUBSET (1..n)
      BY <2>2
    <3>2. s \ {Max(s)} \in SUBSET (1..n)
      BY <3>1
    <3>3. g[s] = f[s] /\ g[s \ {Max(s)}] = f[s \ {Max(s)}]
      BY <1>4, <3>1, <3>2
    <3>4. f[s] = Reduce(f[s \ {Max(s)}], line[Max(s)])
      BY <1>1, <2>2, <3>1
    <3> QED BY <2>2, <3>3, <3>4
  <2>3. CASE s = {}
    <3>1. {} \in SUBSET (1..n)
      OBVIOUS
    <3>2. g[{}] = base
      BY <1>1, <1>4, <3>1
    <3> QED BY <2>3, <3>2
  <2> QED BY <2>1, <2>2, <2>3
<1>7. g = [s \in SUBSET (1..(n + 1)) |-> IF s = {} THEN base ELSE Reduce(g[s \ {Max(s)}], line[Max(s)])]
  BY <1>5, <1>6
<1>8. FoldsTo(g, base, line, 1..(n + 1))
  BY <1>7 DEF FoldsTo
<1> QED BY <1>8

\* Hence on any number of places.
LEMMA FoldExists ==
  ASSUME NEW base, NEW line, NEW n \in Nat
  PROVE  \E f : FoldsTo(f, base, line, 1..n)
<1> DEFINE S == {k \in Nat : ~ \E f : FoldsTo(f, base, line, 1..k)}
<1>1. SUFFICES ASSUME S # {} PROVE FALSE
  OBVIOUS
<1>2. PICK k \in S : \A m \in S : k <= m
  BY <1>1, LeastNatural
<1>3. k \in Nat /\ ~ \E f : FoldsTo(f, base, line, 1..k)
  OBVIOUS
<1>4. k # 0
  BY <1>3, NothingFolds
<1>5. PICK j \in Nat : j + 1 = k
  <2>1. k - 1 \in Nat /\ (k - 1) + 1 = k
    BY <1>3, <1>4
  <2> QED BY <2>1
<1>6. j \notin S
  BY <1>2, <1>3, <1>5
<1>7. PICK f : FoldsTo(f, base, line, 1..j)
  BY <1>6
<1>8. \E g : FoldsTo(g, base, line, 1..(j + 1))
  BY <1>7, OneMoreFolds
<1> QED BY <1>3, <1>5, <1>8

\* The states the fold passes through.
Passes(run, base, line, n) ==
  /\ run[0] = base
  /\ \A k \in 1..n : run[k] = Reduce(run[k - 1], line[k])

\* The fold passes through a run of states, one event at a time, and ends with its last.
LEMMA FoldPasses ==
  ASSUME NEW base, NEW line, NEW n \in Nat, DOMAIN line = 1..n
  PROVE  \E run : Passes(run, base, line, n) /\ FoldLeft(Reduce, base, line) = run[n]
<1> DEFINE f == CHOOSE f : f = [s \in SUBSET DOMAIN line |-> IF s = {} THEN base ELSE Reduce(f[s \ {Max(s)}], line[Max(s)])]
<1>1. FoldLeft(Reduce, base, line) = f[DOMAIN line]
  BY DEF FoldLeft, MapThenFoldSet
<1>2. FoldsTo(f, base, line, 1..n)
  <2>1. PICK h : FoldsTo(h, base, line, 1..n)
    BY FoldExists
  <2>2. h = [s \in SUBSET DOMAIN line |-> IF s = {} THEN base ELSE Reduce(h[s \ {Max(s)}], line[Max(s)])]
    BY <2>1 DEF FoldsTo
  <2>3. f = [s \in SUBSET DOMAIN line |-> IF s = {} THEN base ELSE Reduce(f[s \ {Max(s)}], line[Max(s)])]
    BY <2>2
  <2> QED BY <2>3 DEF FoldsTo
<1> HIDE DEF f
<1>3. \A s \in SUBSET (1..n) : f[s] = IF s = {} THEN base ELSE Reduce(f[s \ {Max(s)}], line[Max(s)])
  BY <1>2 DEF FoldsTo
<1> DEFINE run == [k \in 0..n |-> f[1..k]]
<1>4. run[0] = base
  <2>1. 1..0 = {} /\ {} \in SUBSET (1..n) /\ 0 \in 0..n
    OBVIOUS
  <2> QED BY <1>3, <2>1
<1>5. ASSUME NEW k \in 1..n PROVE run[k] = Reduce(run[k - 1], line[k])
  <2>1. /\ k \in 0..n /\ k - 1 \in 0..n
        /\ 1..k \in SUBSET (1..n) /\ k \in 1..k
        /\ (1..k) \ {k} = 1..(k - 1)
    OBVIOUS
  <2>2. Max(1..k) \in 1..k /\ Max(1..k) >= k
    BY <2>1, GreatestExists
  <2>3. Max(1..k) = k
    BY <2>2
  <2>4. f[1..k] = Reduce(f[1..(k - 1)], line[k])
    BY <1>3, <2>1, <2>3
  <2> QED BY <2>1, <2>4
<1>6. run[n] = f[1..n]
  OBVIOUS
<1>7. Passes(run, base, line, n) /\ FoldLeft(Reduce, base, line) = run[n]
  BY <1>1, <1>4, <1>5, <1>6 DEF Passes
<1> QED BY <1>7

\* What the reduction reads of a state, and has to find there.
Fields == {"stage", "outcome", "status", "closed", "pausedStage", "pausedStatus", "followUps", "warned"}
State(s) == DOMAIN s = Fields /\ s.closed \in BOOLEAN

\* No event type is of two kinds.
LEMMA TypesApart ==
  /\ DOMAIN Moves \cap DOMAIN Closings = {}
  /\ (Pauses \cup {"follow_up_sent", "process_resumed"}) \cap (DOMAIN Moves \cup DOMAIN Closings) = {}
  /\ "follow_up_sent" \notin Pauses /\ "process_resumed" \notin Pauses
<1>1. DOMAIN Moves = {"applied", "hr_contacted", "greeting_sent", "message_viewed", "hr_replied",
                      "resume_requested", "phone_screen", "interview_scheduled", "interview_completed",
                      "interview_advanced", "offer_received"}
  BY DEF Moves
<1>2. DOMAIN Closings = {"rejected", "user_withdrew", "position_closed", "marked_stale",
                         "offer_declined", "offer_accepted"}
  BY DEF Closings
<1> QED BY <1>1, <1>2 DEF Pauses

\* Moving the stage leaves the end of the process and its warnings alone.
SameEnd(s, t) == State(t) /\ t.closed = s.closed /\ t.outcome = s.outcome /\ t.warned = s.warned

LEMMA MovesKeepEnd ==
  ASSUME NEW s, State(s), NEW stage, NEW status
  PROVE  SameEnd(s, MoveTo(s, stage, status))
BY DEF State, Fields, MoveTo, SameEnd

LEMMA PauseKeepsEnd ==
  ASSUME NEW s, State(s)
  PROVE  SameEnd(s, Pause(s))
<1> DEFINE t == MoveTo(s, "paused", "paused")
<1>1. SameEnd(s, t)
  BY MovesKeepEnd
<1>2. Pause(s) = t \/ Pause(s) = [t EXCEPT !.pausedStage = s.stage, !.pausedStatus = s.status]
  BY DEF Pause
<1> HIDE DEF t
<1> QED BY <1>1, <1>2 DEF State, Fields, SameEnd

LEMMA ResumeKeepsEnd ==
  ASSUME NEW s, State(s)
  PROVE  SameEnd(s, Resume(s))
<1> DEFINE t == MoveTo(s, s.pausedStage, s.pausedStatus)
<1>1. SameEnd(s, t)
  BY MovesKeepEnd
<1>2. Resume(s) = [t EXCEPT !.pausedStage = "none", !.pausedStatus = "none"]
  BY DEF Resume
<1> HIDE DEF t
<1> QED BY <1>1, <1>2 DEF State, Fields, SameEnd

LEMMA FollowUpKeepsEnd ==
  ASSUME NEW s, State(s)
  PROVE  SameEnd(s, FollowUp(s))
<1> DEFINE stage == IF s.stage \in {"created", "applied"} THEN "contacted" ELSE s.stage
           t == MoveTo(s, stage, "greeted_unread")
<1>1. SameEnd(s, t)
  BY MovesKeepEnd
<1>2. FollowUp(s) = [t EXCEPT !.followUps = @ + 1]
  BY DEF FollowUp
<1> HIDE DEF t
<1> QED BY <1>1, <1>2 DEF State, Fields, SameEnd

\* What one business event does to the end of a process: the first closing event sets it,
\* every event after that is noted, none before it is.
EndOf(s, t, e) ==
  /\ State(t)
  /\ s.closed => /\ t.closed /\ t.outcome = s.outcome
                 /\ t.warned = s.warned \cup {<<"EVENT_AFTER_CLOSED", e.id>>}
  /\ ~s.closed /\ e.type \in DOMAIN Closings =>
       t.closed /\ t.outcome = Closings[e.type][1] /\ t.warned = s.warned
  /\ ~s.closed /\ e.type \notin DOMAIN Closings =>
       ~t.closed /\ t.warned \in {s.warned, s.warned \cup {<<"RESUME_WITHOUT_PAUSE", e.id>>}}

\* For every type of event (reduceBusinessEvent).
LEMMA EventEnds ==
  ASSUME NEW s, State(s), NEW e
  PROVE  EndOf(s, ReduceBusinessEvent(s, e), e)
<1> DEFINE t == ReduceBusinessEvent(s, e)
<1>1. CASE s.closed
  <2>1. t = [s EXCEPT !.warned = @ \cup {<<"EVENT_AFTER_CLOSED", e.id>>}]
    BY <1>1 DEF ReduceBusinessEvent
  <2> HIDE DEF t
  <2>2. State(t) /\ t.closed /\ t.outcome = s.outcome /\ t.warned = s.warned \cup {<<"EVENT_AFTER_CLOSED", e.id>>}
    BY <1>1, <2>1 DEF State, Fields
  <2> QED BY <1>1, <2>2 DEF EndOf, t
<1>2. CASE ~s.closed /\ e.type \in DOMAIN Closings
  <2>1. t = Close(s, Closings[e.type][1], Closings[e.type][2])
    BY <1>2, TypesApart DEF ReduceBusinessEvent
  <2> HIDE DEF t
  <2>2. State(t) /\ t.closed /\ t.outcome = Closings[e.type][1] /\ t.warned = s.warned
    BY <1>2, <2>1 DEF State, Fields, Close
  <2> QED BY <1>2, <2>2 DEF EndOf, t
<1>3. CASE ~s.closed /\ e.type \notin DOMAIN Closings
  <2>1. SUFFICES State(t) /\ ~t.closed /\ t.warned \in {s.warned, s.warned \cup {<<"RESUME_WITHOUT_PAUSE", e.id>>}}
    BY <1>3 DEF EndOf
  <2>2. CASE e.type \in DOMAIN Moves
    <3>1. t = MoveTo(s, Moves[e.type][1], Moves[e.type][2])
      BY <1>3, <2>2, TypesApart DEF ReduceBusinessEvent
    <3> QED BY <1>3, <3>1, MovesKeepEnd DEF SameEnd
  <2>3. CASE e.type \in Pauses
    <3>1. t = Pause(s)
      BY <1>3, <2>3, TypesApart DEF ReduceBusinessEvent
    <3> QED BY <1>3, <3>1, PauseKeepsEnd DEF SameEnd
  <2>4. CASE e.type = "follow_up_sent"
    <3>1. t = FollowUp(s)
      BY <1>3, <2>4, TypesApart DEF ReduceBusinessEvent
    <3> QED BY <1>3, <3>1, FollowUpKeepsEnd DEF SameEnd
  <2>5. CASE e.type = "process_resumed" /\ CanResume(s)
    <3>1. t = Resume(s)
      BY <1>3, <2>5, TypesApart DEF ReduceBusinessEvent
    <3> QED BY <1>3, <3>1, ResumeKeepsEnd DEF SameEnd
  <2>6. CASE e.type = "process_resumed" /\ ~CanResume(s)
    <3>1. t = [s EXCEPT !.warned = @ \cup {<<"RESUME_WITHOUT_PAUSE", e.id>>}]
      BY <1>3, <2>6, TypesApart DEF ReduceBusinessEvent
    <3> HIDE DEF t
    <3> QED BY <1>3, <3>1 DEF State, Fields
  <2>7. CASE e.type \notin DOMAIN Moves \cup Pauses \cup {"follow_up_sent", "process_resumed"}
    <3>1. t = s
      BY <1>3, <2>7 DEF ReduceBusinessEvent
    <3> QED BY <1>3, <3>1
  <2> QED BY <2>2, <2>3, <2>4, <2>5, <2>6, <2>7
<1> QED BY <1>1, <1>2, <1>3 DEF State

\* The closing events among the first k of a line.
ClosersTo(line, k) == {j \in 1..k : line[j].type \in DOMAIN Closings}

\* An event is reported, an event comes after a closing one, and the first closing event
\* decides the outcome.
Reported(warned, x) == \E w \in warned : w[1] = "EVENT_AFTER_CLOSED" /\ w[2] = x
After(line, k, x) == \E j \in 1..k : line[j].id = x /\ \E c \in ClosersTo(line, k) : c < j
FirstDecides(line, k, outcome) ==
  \A c \in ClosersTo(line, k) : (\A d \in ClosersTo(line, k) : c <= d)
     => outcome = Closings[line[c].type][1]

\* The process has ended with the first of them, and the events after it are reported.
EndedRight(acc, line, k) ==
  /\ DOMAIN acc = {"state", "legacyClosed"} /\ ~acc.legacyClosed
  /\ State(acc.state)
  /\ acc.state.closed <=> ClosersTo(line, k) # {}
  /\ \A x : Reported(acc.state.warned, x) <=> After(line, k, x)
  /\ FirstDecides(line, k, acc.state.outcome)

\* One event more.
LEMMA OneMoreEnds ==
  ASSUME NEW line, NEW k \in Nat, NEW acc, EndedRight(acc, line, k)
  PROVE  EndedRight(Reduce(acc, line[k + 1]), line, k + 1)
<1> DEFINE e == line[k + 1]
           s == acc.state
           t == ReduceBusinessEvent(s, e)
           next == Reduce(acc, e)
<1>1. DOMAIN acc = {"state", "legacyClosed"} /\ ~acc.legacyClosed /\ State(s)
  BY DEF EndedRight
<1>2. next = [acc EXCEPT !.state = t]
  BY <1>1 DEF Reduce
<1>3. EndOf(s, t, e)
  BY <1>1, EventEnds
<1> SUFFICES EndedRight(next, line, k + 1)
  OBVIOUS
<1> HIDE DEF next, t
<1>4. DOMAIN next = {"state", "legacyClosed"} /\ ~next.legacyClosed /\ next.state = t
  BY <1>1, <1>2
<1>5. ClosersTo(line, k) \subseteq 1..k
  BY DEF ClosersTo
<1>6. /\ 1..(k + 1) = (1..k) \cup {k + 1} /\ k + 1 \notin 1..k
      /\ \A j \in 1..k : j < k + 1 /\ j \in Nat
  OBVIOUS
<1>7. ClosersTo(line, k + 1) = IF e.type \in DOMAIN Closings THEN ClosersTo(line, k) \cup {k + 1} ELSE ClosersTo(line, k)
  BY <1>6 DEF ClosersTo
<1>8. \A j \in 1..k : (\E c \in ClosersTo(line, k + 1) : c < j) <=> (\E c \in ClosersTo(line, k) : c < j)
  BY <1>5, <1>6, <1>7
<1>9. (\E c \in ClosersTo(line, k + 1) : c < k + 1) <=> ClosersTo(line, k) # {}
  BY <1>5, <1>6, <1>7
<1>10. s.closed <=> ClosersTo(line, k) # {}
  BY DEF EndedRight
<1>11. \A x : Reported(s.warned, x) <=> After(line, k, x)
  BY DEF EndedRight
<1>12. FirstDecides(line, k, s.outcome)
  BY DEF EndedRight
<1>13. \A x : After(line, k + 1, x) <=> After(line, k, x) \/ (ClosersTo(line, k) # {} /\ e.id = x)
  BY <1>6, <1>8, <1>9 DEF After
<1> HIDE DEF s
<1>14. CASE s.closed
  <2>1. t.closed /\ State(t) /\ t.outcome = s.outcome /\ t.warned = s.warned \cup {<<"EVENT_AFTER_CLOSED", e.id>>}
    BY <1>3, <1>14 DEF EndOf
  <2>2. ClosersTo(line, k) # {} /\ ClosersTo(line, k + 1) # {}
    BY <1>7, <1>10, <1>14
  <2>3. \A x : Reported(t.warned, x) <=> Reported(s.warned, x) \/ e.id = x
    <3> DEFINE w == <<"EVENT_AFTER_CLOSED", e.id>>
    <3>1. w[1] = "EVENT_AFTER_CLOSED" /\ w[2] = e.id
      OBVIOUS
    <3>2. t.warned = s.warned \cup {w}
      BY <2>1
    <3> HIDE DEF w
    <3> QED BY <3>1, <3>2 DEF Reported
  <2>4. ASSUME NEW c \in ClosersTo(line, k + 1), \A d \in ClosersTo(line, k + 1) : c <= d
        PROVE  t.outcome = Closings[line[c].type][1]
    <3>1. PICK d \in ClosersTo(line, k) : TRUE
      BY <2>2
    <3>2. c <= d /\ d < k + 1 /\ d \in Nat
      BY <1>5, <1>6, <1>7, <2>4, <3>1
    <3>3. c # k + 1
      BY <3>2
    <3>4. c \in ClosersTo(line, k) /\ \A b \in ClosersTo(line, k) : c <= b
      BY <1>7, <2>4, <3>3
    <3> QED BY <1>12, <2>1, <3>4 DEF FirstDecides
  <2>5. \A x : Reported(t.warned, x) <=> After(line, k + 1, x)
    BY <1>11, <1>13, <2>2, <2>3
  <2>6. FirstDecides(line, k + 1, t.outcome)
    BY <2>4 DEF FirstDecides
  <2> QED BY <1>4, <2>1, <2>2, <2>5, <2>6 DEF EndedRight
<1>15. CASE ~s.closed /\ e.type \in DOMAIN Closings
  <2>1. t.closed /\ State(t) /\ t.outcome = Closings[e.type][1] /\ t.warned = s.warned
    BY <1>3, <1>15 DEF EndOf
  <2>2. ClosersTo(line, k) = {} /\ ClosersTo(line, k + 1) = {k + 1}
    BY <1>7, <1>10, <1>15
  <2>3. \A x : Reported(t.warned, x) <=> After(line, k + 1, x)
    BY <1>11, <1>13, <2>1, <2>2
  <2>4. FirstDecides(line, k + 1, t.outcome)
    BY <2>1, <2>2 DEF FirstDecides
  <2> QED BY <1>4, <2>1, <2>2, <2>3, <2>4 DEF EndedRight
<1>16. CASE ~s.closed /\ e.type \notin DOMAIN Closings
  <2>1. ~t.closed /\ State(t) /\ t.warned \in {s.warned, s.warned \cup {<<"RESUME_WITHOUT_PAUSE", e.id>>}}
    BY <1>3, <1>16 DEF EndOf
  <2>2. ClosersTo(line, k) = {} /\ ClosersTo(line, k + 1) = {}
    BY <1>7, <1>10, <1>16
  <2>3. \A x : Reported(t.warned, x) <=> Reported(s.warned, x)
    <3>1. CASE t.warned = s.warned
      BY <3>1
    <3>2. CASE t.warned = s.warned \cup {<<"RESUME_WITHOUT_PAUSE", e.id>>}
      <4> DEFINE w == <<"RESUME_WITHOUT_PAUSE", e.id>>
      <4>1. w[1] # "EVENT_AFTER_CLOSED"
        OBVIOUS
      <4>2. t.warned = s.warned \cup {w}
        BY <3>2
      <4> HIDE DEF w
      <4> QED BY <4>1, <4>2 DEF Reported
    <3> QED BY <2>1, <3>1, <3>2
  <2>4. \A x : Reported(t.warned, x) <=> After(line, k + 1, x)
    BY <1>11, <1>13, <2>2, <2>3
  <2>5. FirstDecides(line, k + 1, t.outcome)
    BY <2>2 DEF FirstDecides
  <2> QED BY <1>4, <2>1, <2>2, <2>4, <2>5 DEF EndedRight
<1>17. s.closed \in BOOLEAN
  BY <1>1 DEF State
<1> QED BY <1>14, <1>15, <1>16, <1>17

\* Hence the whole line.
LEMMA RunEnds ==
  ASSUME NEW base, NEW line, NEW n \in Nat, NEW run, Passes(run, base, line, n),
         EndedRight(base, line, 0)
  PROVE  EndedRight(run[n], line, n)
<1> DEFINE S == {k \in 0..n : ~ EndedRight(run[k], line, k)}
<1>1. SUFFICES ASSUME S # {} PROVE FALSE
  OBVIOUS
<1>2. PICK k \in S : \A m \in S : k <= m
  <2>1. S \in SUBSET Nat
    OBVIOUS
  <2> QED BY <1>1, <2>1, LeastNatural
<1>3. k \in 0..n /\ ~EndedRight(run[k], line, k)
  OBVIOUS
<1>4. k # 0
  BY <1>3 DEF Passes
<1>5. /\ k - 1 \in Nat /\ k - 1 \in 0..n /\ k \in 1..n /\ (k - 1) + 1 = k /\ ~(k <= k - 1)
  BY <1>3, <1>4
<1>6. EndedRight(run[k - 1], line, k - 1)
  BY <1>2, <1>5
<1>7. run[k] = Reduce(run[k - 1], line[k])
  BY <1>5 DEF Passes
<1>8. EndedRight(Reduce(run[k - 1], line[(k - 1) + 1]), line, (k - 1) + 1)
  BY <1>5, <1>6, OneMoreEnds
<1> QED BY <1>3, <1>5, <1>7, <1>8

-----------------------------------------------------------------------------
(* What the fold passes through is clean, and so is what it ends in.       *)

\* The stages of a process, and the two warnings about the order of events.
Stages == {"created", "applied", "contacted", "screening", "interviewing", "offer", "paused", "closed"}

Codes == {"EVENT_AFTER_CLOSED", "RESUME_WITHOUT_PAUSE"}

\* A state that the projection does not complain of.
CleanState(s, paused) ==
  /\ State(s)
  /\ s.stage \in Stages
  /\ s.pausedStage \in (Stages \ {"paused"}) \cup {"none"}
  /\ \A w \in s.warned : w[1] \in Codes
  /\ s.stage = "paused" /\ ~paused => s.pausedStage # "none"

\* Each case of the reduction leaves a clean state clean.
LEMMA StagesOfMoves ==
  ASSUME NEW type \in DOMAIN Moves
  PROVE  Moves[type][1] \in Stages /\ Moves[type][1] # "paused"
BY DEF Moves, Stages

LEMMA MovedIsClean ==
  ASSUME NEW s, NEW paused \in BOOLEAN, CleanState(s, paused), NEW stage \in Stages, NEW status,
         stage = "paused" => s.stage = "paused"
  PROVE  CleanState(MoveTo(s, stage, status), paused)
<1> DEFINE t == MoveTo(s, stage, status)
<1>1. /\ DOMAIN t = Fields /\ t.closed = s.closed /\ t.warned = s.warned
      /\ t.stage = stage /\ t.pausedStage = s.pausedStage
  BY DEF MoveTo, CleanState, State, Fields
<1> HIDE DEF t
<1>2. CleanState(t, paused)
  BY <1>1 DEF CleanState, State
<1> QED BY <1>2 DEF t

LEMMA PausedIsClean ==
  ASSUME NEW s, NEW paused \in BOOLEAN, CleanState(s, paused)
  PROVE  CleanState(Pause(s), paused)
<1>1. "paused" \in Stages
  BY DEF Stages
<1>2. CASE s.stage = "paused"
  BY <1>1, <1>2, MovedIsClean DEF Pause
<1>3. CASE s.stage # "paused"
  <2> DEFINE u == MoveTo(s, "paused", "paused")
             t == [u EXCEPT !.pausedStage = s.stage, !.pausedStatus = s.status]
  <2>1. Pause(s) = t
    BY <1>3 DEF Pause
  <2>2. DOMAIN u = Fields /\ u.closed = s.closed /\ u.warned = s.warned /\ u.stage = "paused"
    BY DEF MoveTo, CleanState, State, Fields
  <2> HIDE DEF u
  <2>3. /\ DOMAIN t = Fields /\ t.closed = s.closed /\ t.warned = s.warned
        /\ t.stage = "paused" /\ t.pausedStage = s.stage
    BY <2>2 DEF Fields
  <2> HIDE DEF t
  <2>4. "none" \notin Stages
    BY DEF Stages
  <2>5. CleanState(t, paused)
    BY <1>1, <1>3, <2>3, <2>4 DEF CleanState, State
  <2> QED BY <2>1, <2>5
<1> QED BY <1>2, <1>3

LEMMA ResumedIsClean ==
  ASSUME NEW s, NEW paused \in BOOLEAN, CleanState(s, paused), CanResume(s)
  PROVE  CleanState(Resume(s), paused)
<1> DEFINE u == MoveTo(s, s.pausedStage, s.pausedStatus)
           t == [u EXCEPT !.pausedStage = "none", !.pausedStatus = "none"]
<1>1. Resume(s) = t
  BY DEF Resume
<1>2. DOMAIN u = Fields /\ u.closed = s.closed /\ u.warned = s.warned /\ u.stage = s.pausedStage
  BY DEF MoveTo, CleanState, State, Fields
<1> HIDE DEF u
<1>3. /\ DOMAIN t = Fields /\ t.closed = s.closed /\ t.warned = s.warned
      /\ t.stage = s.pausedStage /\ t.pausedStage = "none"
  BY <1>2 DEF Fields
<1> HIDE DEF t
<1>4. s.pausedStage \in Stages \ {"paused"}
  BY DEF CleanState, CanResume
<1>5. CleanState(t, paused)
  BY <1>3, <1>4 DEF CleanState, State
<1> QED BY <1>1, <1>5

LEMMA FollowedIsClean ==
  ASSUME NEW s, NEW paused \in BOOLEAN, CleanState(s, paused)
  PROVE  CleanState(FollowUp(s), paused)
<1> DEFINE stage == IF s.stage \in {"created", "applied"} THEN "contacted" ELSE s.stage
           u == MoveTo(s, stage, "greeted_unread")
           t == [u EXCEPT !.followUps = @ + 1]
<1>1. FollowUp(s) = t
  BY DEF FollowUp
<1>2. stage \in Stages /\ (stage = "paused" => s.stage = "paused")
  BY DEF CleanState, Stages
<1> HIDE DEF stage
<1>3. CleanState(u, paused)
  BY <1>2, MovedIsClean
<1> HIDE DEF u
<1>4. /\ DOMAIN t = Fields /\ t.closed = u.closed /\ t.warned = u.warned
      /\ t.stage = u.stage /\ t.pausedStage = u.pausedStage
  BY <1>3 DEF CleanState, State, Fields
<1> HIDE DEF t
<1>5. CleanState(t, paused)
  BY <1>3, <1>4 DEF CleanState, State
<1> QED BY <1>1, <1>5

LEMMA ClosedIsClean ==
  ASSUME NEW s, NEW paused \in BOOLEAN, CleanState(s, paused), NEW outcome, NEW status
  PROVE  CleanState(Close(s, outcome, status), paused)
<1> DEFINE t == Close(s, outcome, status)
<1>1. /\ DOMAIN t = Fields /\ t.closed = TRUE /\ t.warned = s.warned
      /\ t.stage = "closed" /\ t.pausedStage = s.pausedStage
  BY DEF Close, CleanState, State, Fields
<1> HIDE DEF t
<1>2. "closed" \in Stages
  BY DEF Stages
<1>3. CleanState(t, paused)
  BY <1>1, <1>2 DEF CleanState, State
<1> QED BY <1>3 DEF t

LEMMA WarnedIsClean ==
  ASSUME NEW s, NEW paused \in BOOLEAN, CleanState(s, paused), NEW w, w[1] \in Codes,
         NEW t, t = [s EXCEPT !.warned = s.warned \cup {w}]
  PROVE  CleanState(t, paused)
<1>1. /\ DOMAIN t = Fields /\ t.closed = s.closed /\ t.warned = s.warned \cup {w}
      /\ t.stage = s.stage /\ t.pausedStage = s.pausedStage
  BY DEF CleanState, State, Fields
<1> QED BY <1>1 DEF CleanState, State

\* Hence the reduction of any event does.
LEMMA ReducedIsClean ==
  ASSUME NEW s, NEW paused \in BOOLEAN, CleanState(s, paused), NEW e
  PROVE  CleanState(ReduceBusinessEvent(s, e), paused)
<1> DEFINE t == ReduceBusinessEvent(s, e)
<1>0. s.closed \in BOOLEAN /\ {"EVENT_AFTER_CLOSED", "RESUME_WITHOUT_PAUSE"} \subseteq Codes
  BY DEF CleanState, State, Codes
<1>1. CASE s.closed
  <2> DEFINE w == <<"EVENT_AFTER_CLOSED", e.id>>
  <2>1. t = [s EXCEPT !.warned = s.warned \cup {w}]
    BY <1>1 DEF ReduceBusinessEvent
  <2>2. w[1] \in Codes
    BY <1>0
  <2> HIDE DEF t, w
  <2>3. CleanState(t, paused)
    BY <2>1, <2>2, WarnedIsClean
  <2> QED BY <2>3 DEF t
<1>2. CASE ~s.closed /\ e.type \in DOMAIN Closings
  <2>1. t = Close(s, Closings[e.type][1], Closings[e.type][2])
    BY <1>2, TypesApart DEF ReduceBusinessEvent
  <2> QED BY <2>1, ClosedIsClean
<1>3. CASE ~s.closed /\ e.type \in DOMAIN Moves
  <2>1. t = MoveTo(s, Moves[e.type][1], Moves[e.type][2])
    BY <1>3, TypesApart DEF ReduceBusinessEvent
  <2>2. Moves[e.type][1] \in Stages /\ Moves[e.type][1] # "paused"
    BY <1>3, StagesOfMoves
  <2> QED BY <2>1, <2>2, MovedIsClean
<1>4. CASE ~s.closed /\ e.type \in Pauses
  <2>1. t = Pause(s)
    BY <1>4, TypesApart DEF ReduceBusinessEvent
  <2> QED BY <2>1, PausedIsClean
<1>5. CASE ~s.closed /\ e.type = "follow_up_sent"
  <2>1. t = FollowUp(s)
    BY <1>5, TypesApart DEF ReduceBusinessEvent
  <2> QED BY <2>1, FollowedIsClean
<1>6. CASE ~s.closed /\ e.type = "process_resumed" /\ CanResume(s)
  <2>1. t = Resume(s)
    BY <1>6, TypesApart DEF ReduceBusinessEvent
  <2> QED BY <1>6, <2>1, ResumedIsClean
<1>7. CASE ~s.closed /\ e.type = "process_resumed" /\ ~CanResume(s)
  <2> DEFINE w == <<"RESUME_WITHOUT_PAUSE", e.id>>
  <2>1. t = [s EXCEPT !.warned = s.warned \cup {w}]
    BY <1>7, TypesApart DEF ReduceBusinessEvent
  <2>2. w[1] \in Codes
    BY <1>0
  <2> HIDE DEF t, w
  <2>3. CleanState(t, paused)
    BY <2>1, <2>2, WarnedIsClean
  <2> QED BY <2>3 DEF t
<1>8. CASE ~s.closed /\ e.type \notin DOMAIN Moves \cup DOMAIN Closings \cup Pauses \cup {"follow_up_sent", "process_resumed"}
  <2>1. t = s
    BY <1>8 DEF ReduceBusinessEvent
  <2> QED BY <2>1
<1> QED BY <1>0, <1>1, <1>2, <1>3, <1>4, <1>5, <1>6, <1>7, <1>8

\* An accumulator of the fold that the projection does not complain of.
CleanAcc(acc, paused) ==
  /\ DOMAIN acc = {"state", "legacyClosed"} /\ acc.legacyClosed \in BOOLEAN
  /\ CleanState(acc.state, paused)

\* So does one event more,
LEMMA OneMoreIsClean ==
  ASSUME NEW acc, NEW paused \in BOOLEAN, CleanAcc(acc, paused), NEW e
  PROVE  CleanAcc(Reduce(acc, e), paused)
<1>0. DOMAIN acc = {"state", "legacyClosed"} /\ acc.legacyClosed \in BOOLEAN /\ CleanState(acc.state, paused)
  BY DEF CleanAcc
<1>1. CASE acc.legacyClosed /\ Reopens(e)
  <2> DEFINE s == acc.state
             u == [s EXCEPT !.stage = "created", !.outcome = "none",
                            !.status = "not_contacted", !.closed = FALSE]
             t == ReduceBusinessEvent(u, e)
  <2>1. Reduce(acc, e) = [legacyClosed |-> FALSE, state |-> t]
    BY <1>1 DEF Reduce
  <2>2. CleanState(s, paused)
    BY <1>0
  <2> HIDE DEF s
  <2>3. /\ DOMAIN u = Fields /\ u.closed = FALSE /\ u.warned = s.warned
        /\ u.stage = "created" /\ u.pausedStage = s.pausedStage
    BY <2>2 DEF CleanState, State, Fields
  <2> HIDE DEF u
  <2>4. "created" \in Stages
    BY DEF Stages
  <2>5. CleanState(u, paused)
    BY <2>2, <2>3, <2>4 DEF CleanState, State
  <2>6. CleanState(t, paused)
    BY <2>5, ReducedIsClean
  <2> HIDE DEF t
  <2> QED BY <2>1, <2>6 DEF CleanAcc
<1>2. CASE ~(acc.legacyClosed /\ Reopens(e))
  <2> DEFINE t == ReduceBusinessEvent(acc.state, e)
             next == [acc EXCEPT !.state = t]
  <2>1. Reduce(acc, e) = next
    BY <1>2 DEF Reduce
  <2>2. CleanState(t, paused)
    BY <1>0, ReducedIsClean
  <2> HIDE DEF t
  <2>3. DOMAIN next = {"state", "legacyClosed"} /\ next.legacyClosed = acc.legacyClosed /\ next.state = t
    BY <1>0
  <2> HIDE DEF next
  <2> QED BY <1>0, <2>1, <2>2, <2>3 DEF CleanAcc
<1> QED BY <1>1, <1>2

\* and the whole line.
LEMMA RunIsClean ==
  ASSUME NEW base, NEW line, NEW n \in Nat, NEW run, Passes(run, base, line, n),
         NEW paused \in BOOLEAN, CleanAcc(base, paused)
  PROVE  CleanAcc(run[n], paused)
<1> DEFINE S == {k \in 0..n : ~ CleanAcc(run[k], paused)}
<1>1. SUFFICES ASSUME S # {} PROVE FALSE
  OBVIOUS
<1>2. PICK k \in S : \A m \in S : k <= m
  <2>1. S \in SUBSET Nat
    OBVIOUS
  <2> QED BY <1>1, <2>1, LeastNatural
<1>3. k \in 0..n /\ ~CleanAcc(run[k], paused)
  OBVIOUS
<1>4. k # 0
  BY <1>3 DEF Passes
<1>5. k - 1 \in 0..n /\ k \in 1..n /\ ~(k <= k - 1)
  BY <1>3, <1>4
<1>6. CleanAcc(run[k - 1], paused)
  BY <1>2, <1>5
<1>7. run[k] = Reduce(run[k - 1], line[k])
  BY <1>5 DEF Passes
<1> QED BY <1>3, <1>6, <1>7, OneMoreIsClean

\* What a migrated status starts an application from.
LEMMA SeedTypes ==
  ASSUME NEW legacy \in DOMAIN LegacySeeds
  PROVE  LegacySeeds[legacy][1] \in Stages /\ LegacySeeds[legacy][4] \in BOOLEAN
<1>1. legacy \in {"not_contacted", "greeted_unread", "greeted_read_no_reply", "replied", "interviewing",
                 "paused", "closed", "rejected"}
  BY DEF LegacySeeds
<1>2. /\ LegacySeeds["not_contacted"][1] = "created" /\ LegacySeeds["not_contacted"][4] = FALSE
      /\ LegacySeeds["greeted_unread"][1] = "contacted" /\ LegacySeeds["greeted_unread"][4] = FALSE
      /\ LegacySeeds["greeted_read_no_reply"][1] = "contacted" /\ LegacySeeds["greeted_read_no_reply"][4] = FALSE
      /\ LegacySeeds["replied"][1] = "contacted" /\ LegacySeeds["replied"][4] = FALSE
      /\ LegacySeeds["interviewing"][1] = "interviewing" /\ LegacySeeds["interviewing"][4] = FALSE
      /\ LegacySeeds["paused"][1] = "paused" /\ LegacySeeds["paused"][4] = FALSE
      /\ LegacySeeds["closed"][1] = "closed" /\ LegacySeeds["closed"][4] = TRUE
      /\ LegacySeeds["rejected"][1] = "closed" /\ LegacySeeds["rejected"][4] = TRUE
  BY DEF LegacySeeds
<1> QED BY <1>1, <1>2 DEF Stages

LEMMA EmptyIsClean ==
  /\ DOMAIN EmptyState = Fields
  /\ EmptyState.stage = "created" /\ EmptyState.closed = FALSE /\ EmptyState.pausedStage = "none"
  /\ EmptyState.warned = {}
BY DEF EmptyState, Fields

\* What an application starts from before its first business event.
LEMMA SeedIsClean ==
  ASSUME NEW log \in Seq(Event), NEW apps, EventsSound(log, apps), NEW a
  PROVE  LET s == LegacySeedOf(log, a)
         IN  /\ State(s) /\ s.stage \in Stages /\ s.pausedStage = "none" /\ s.warned = {}
<1> DEFINE seeds == SeedEvents(log, a)
           first == CHOOSE i \in seeds : \A j \in seeds : i <= j
           seed == LegacySeeds[log[first].legacy]
           t == [EmptyState EXCEPT !.stage = seed[1], !.outcome = seed[2],
                                   !.status = seed[3], !.closed = seed[4]]
<1>0. "created" \in Stages
  BY DEF Stages
<1>1. CASE seeds = {}
  <2>1. LegacySeedOf(log, a) = EmptyState
    BY <1>1 DEF LegacySeedOf
  <2> QED BY <1>0, <2>1, EmptyIsClean DEF State
<1>2. CASE seeds # {}
  <2>1. LegacySeedOf(log, a) = t
    BY <1>2 DEF LegacySeedOf
  <2>2. seeds \subseteq DOMAIN log /\ seeds \in SUBSET Nat
    BY DEF SeedEvents, ActiveEvents, EventsOf
  <2>3. \E i \in seeds : \A j \in seeds : i <= j
    BY <1>2, <2>2, LeastNatural
  <2>4. first \in seeds
    BY <2>3
  <2> HIDE DEF first
  <2>5. log[first].legacy \in LegacyStatuses
    BY <2>2, <2>4 DEF EventsSound, EventsRefer, SeedEvents
  <2>6. seed[1] \in Stages /\ seed[4] \in BOOLEAN
    BY <2>5, SeedTypes, JobMemoryAssumption
  <2> HIDE DEF seed, seeds
  <2>7. /\ DOMAIN t = Fields /\ t.stage = seed[1] /\ t.closed = seed[4]
        /\ t.pausedStage = "none" /\ t.warned = {}
    BY EmptyIsClean DEF Fields
  <2> HIDE DEF t
  <2> QED BY <2>1, <2>6, <2>7 DEF State
<1> QED BY <1>1, <1>2

\* The accumulator before the first business event.
Base(log, a) == [state |-> LegacySeedOf(log, a), legacyClosed |-> LegacySeedOf(log, a).closed]

\* The business events of an application are numbered.
LEMMA LineIsNumbered ==
  ASSUME NEW log \in Seq(Event), NEW a
  PROVE  \E n \in Nat : DOMAIN BusinessEvents(log, a) = 1..n
<1> DEFINE S == {i \in ActiveEvents(log, a) : log[i].type \notin AuditEventTypes}
<1>1. PICK m \in Nat : m = Len(log)
  OBVIOUS
<1>2. S \subseteq 1..m
  BY <1>1 DEF ActiveEvents, EventsOf
<1>3. IsFiniteSet(1..m)
  BY FS_Interval
<1>4. IsFiniteSet(S)
  BY <1>2, <1>3, FS_Subset
<1>5. Cardinality(S) \in Nat
  BY <1>4, FS_CardinalityType
<1>6. DOMAIN BusinessEvents(log, a) = 1..Cardinality(S)
  BY DEF BusinessEvents, BusinessOrder, InOrder
<1> HIDE DEF S
<1> QED BY <1>5, <1>6

\* The state of an application is the last its events pass through.
LEMMA FoldedIsLast ==
  ASSUME NEW log \in Seq(Event), NEW a
  PROVE  \E n \in Nat : \E run :
           /\ DOMAIN BusinessEvents(log, a) = 1..n
           /\ Passes(run, Base(log, a), BusinessEvents(log, a), n)
           /\ Folded(log, a) = run[n].state
<1>1. PICK n \in Nat : DOMAIN BusinessEvents(log, a) = 1..n
  BY LineIsNumbered
<1>2. PICK run : /\ Passes(run, Base(log, a), BusinessEvents(log, a), n)
                 /\ FoldLeft(Reduce, Base(log, a), BusinessEvents(log, a)) = run[n]
  BY <1>1, FoldPasses
<1>3. Folded(log, a) = run[n].state
  BY <1>2 DEF Folded, Base
<1> QED BY <1>1, <1>2, <1>3

LEMMA BaseFields ==
  ASSUME NEW log, NEW a
  PROVE  /\ DOMAIN Base(log, a) = {"state", "legacyClosed"}
         /\ Base(log, a).state = LegacySeedOf(log, a)
         /\ Base(log, a).legacyClosed = LegacySeedOf(log, a).closed
BY DEF Base

\* The fold of a sound log is clean.
LEMMA FoldIsClean ==
  ASSUME NEW log \in Seq(Event), NEW apps, EventsSound(log, apps), NEW a
  PROVE  CleanState(Folded(log, a), LegacySeedOf(log, a).stage = "paused")
<1> DEFINE seed == LegacySeedOf(log, a)
           paused == seed.stage = "paused"
<1>1. PICK n \in Nat : \E run :
           /\ DOMAIN BusinessEvents(log, a) = 1..n
           /\ Passes(run, Base(log, a), BusinessEvents(log, a), n)
           /\ Folded(log, a) = run[n].state
  BY FoldedIsLast
<1>2. PICK run : /\ Passes(run, Base(log, a), BusinessEvents(log, a), n)
                 /\ Folded(log, a) = run[n].state
  BY <1>1
<1>3. /\ State(seed) /\ seed.stage \in Stages /\ seed.pausedStage = "none" /\ seed.warned = {}
  BY SeedIsClean
<1>4. /\ DOMAIN Base(log, a) = {"state", "legacyClosed"}
      /\ Base(log, a).state = seed /\ Base(log, a).legacyClosed = seed.closed
  BY BaseFields
<1> HIDE DEF seed
<1>5. CleanState(seed, paused)
  BY <1>3 DEF CleanState
<1>6. CleanAcc(Base(log, a), paused)
  BY <1>3, <1>4, <1>5 DEF CleanAcc, State
<1>7. paused \in BOOLEAN
  OBVIOUS
<1> HIDE DEF paused
<1>8. CleanAcc(run[n], paused)
  BY <1>2, <1>6, <1>7, RunIsClean
<1>9. CleanState(Folded(log, a), paused)
  BY <1>2, <1>8 DEF CleanAcc
<1> QED BY <1>9 DEF paused, seed

\* The void and audit events give the projection nothing to complain of.
LEMMA AuditsAreClean ==
  ASSUME NEW log \in Seq(Event), NEW apps, EventsSound(log, apps), NEW a \in DOMAIN apps
  PROVE  /\ VoidErrors(log, a) = {}
         /\ VoidWarnings(log, a) = {}
         /\ AuditWarnings(log, a, apps[a].voided) = {}
<1>1. ASSUME NEW i \in VoidsOf(log, a)
      PROVE  /\ i \in DOMAIN log /\ log[i].target \in DOMAIN log
             /\ log[log[i].target].app = a
             /\ log[i].target \notin VoidsOf(log, a)
             /\ \A j \in VoidsOf(log, a) : log[j].target = log[i].target => j = i
  <2>1. i \in DOMAIN log /\ log[i].app = a /\ Voids(log, i)
    BY DEF VoidsOf, EventsOf, Voids
  <2>2. /\ log[i].target \in DOMAIN log
        /\ log[log[i].target].app = log[i].app
        /\ log[log[i].target].type # "event_voided"
    BY <2>1 DEF EventsSound, VoidsRefer
  <2>3. \A j \in VoidsOf(log, a) : log[j].target = log[i].target => j = i
    BY <2>1 DEF EventsSound, VoidsRefer, VoidsOf, EventsOf, Voids
  <2> QED BY <2>1, <2>2, <2>3 DEF VoidsOf
<1>2. VoidErrors(log, a) = {}
  BY <1>1 DEF VoidErrors
<1>3. VoidWarnings(log, a) = {}
  <2>1. \A i \in VoidsOf(log, a) : i \in Nat
    BY DEF VoidsOf, EventsOf
  <2>2. \A k \in VoidsOf(log, a) : ~ \E j \in VoidsOf(log, a) : j < k /\ log[j].target = log[k].target
    BY <1>1, <2>1
  <2> QED BY <1>1, <2>2 DEF VoidWarnings
<1>4. VoidAudited(log, a) <=> Audited(log, a)
  <2>1. ASSUME NEW i \in DOMAIN log, log[i].app = a, log[i].type = "application_voided"
        PROVE  i \in ActiveEvents(log, a)
    <3>1. \A j \in VoidsOf(log, a) : log[j].target # i
      BY <2>1 DEF EventsSound, VoidsRefer, Voids, VoidsOf, EventsOf
    <3> QED BY <2>1, <3>1 DEF ActiveEvents, VoidedEvents, EventsOf
  <2> QED BY <2>1 DEF VoidAudited, Audited, ActiveEvents, EventsOf
<1>5. AuditWarnings(log, a, apps[a].voided) = {}
  BY <1>4 DEF AuditWarnings, EventsSound, VoidsAudited
<1> QED BY <1>2, <1>3, <1>5

\* The seed an application started from is its only one.
LEMMA SeedsAreAlone ==
  ASSUME NEW log \in Seq(Event), NEW apps, EventsSound(log, apps), NEW a,
         NEW w \in SeedWarnings(log, a)
  PROVE  w[1] = "LEGACY_SEED_APPLIED" /\ SeedEvents(log, a) = {w[2]}
<1> DEFINE seeds == SeedEvents(log, a)
           earliest == {i \in seeds : \A j \in seeds : i <= j}
<1>1. \A i, j \in seeds : i = j
  BY DEF SeedEvents, ActiveEvents, EventsOf, EventsSound, SeededOnce
<1>2. \A i \in seeds : seeds = {i}
  BY <1>1
<1>3. w \in {<<"LEGACY_SEED_APPLIED", i>> : i \in earliest} \cup
              {<<"MULTIPLE_LEGACY_SEEDS", i>> : i \in {k \in earliest : seeds # {k}}}
  BY DEF SeedWarnings
<1> HIDE DEF seeds
<1>4. {k \in earliest : seeds # {k}} = {}
  BY <1>2
<1>5. PICK i \in seeds : w = <<"LEGACY_SEED_APPLIED", i>>
  BY <1>3, <1>4
<1>6. w[1] = "LEGACY_SEED_APPLIED" /\ w[2] = i
  BY <1>5
<1>7. seeds = {w[2]}
  BY <1>2, <1>6
<1> QED BY <1>6, <1>7 DEF seeds

\* One application, its row and its events.
LEMMA ProjectionOfSound ==
  ASSUME NEW log \in Seq(Event), NEW apps, EventsSound(log, apps), NEW a \in DOMAIN apps
  PROVE  LET p == ProjectApplication(log, a, apps[a].voided)
             s == Folded(log, a)
         IN  /\ p.errors = {}
             /\ \A w \in p.warnings :
                  \/ w[1] \in {"EVENT_AFTER_CLOSED", "RESUME_WITHOUT_PAUSE"}
                  \/ w[1] = "LEGACY_SEED_APPLIED" /\ SeedEvents(log, a) = {w[2]}
             /\ s.pausedStage # "paused"
             /\ s.stage = "paused" /\ LegacySeedOf(log, a).stage # "paused" => s.pausedStage # "none"
<1> DEFINE p == ProjectApplication(log, a, apps[a].voided)
           s == Folded(log, a)
<1>1. p.errors = VoidErrors(log, a)
  BY DEF ProjectApplication
<1>2. p.warnings = s.warned \cup VoidWarnings(log, a) \cup AuditWarnings(log, a, apps[a].voided)
                     \cup SeedWarnings(log, a)
  BY DEF ProjectApplication
<1>3. /\ VoidErrors(log, a) = {} /\ VoidWarnings(log, a) = {}
      /\ AuditWarnings(log, a, apps[a].voided) = {}
  BY AuditsAreClean
<1>4. CleanState(s, LegacySeedOf(log, a).stage = "paused")
  BY FoldIsClean
<1> HIDE DEF p, s
<1>5. p.warnings = s.warned \cup SeedWarnings(log, a)
  BY <1>2, <1>3
<1>6. /\ \A w \in s.warned : w[1] \in Codes
      /\ s.pausedStage \in (Stages \ {"paused"}) \cup {"none"}
      /\ s.stage = "paused" /\ LegacySeedOf(log, a).stage # "paused" => s.pausedStage # "none"
  BY <1>4 DEF CleanState
<1>7. s.pausedStage # "paused"
  BY <1>6
<1>8. \A w \in SeedWarnings(log, a) : w[1] = "LEGACY_SEED_APPLIED" /\ SeedEvents(log, a) = {w[2]}
  BY SeedsAreAlone
<1>9. \A w \in p.warnings :
        \/ w[1] \in {"EVENT_AFTER_CLOSED", "RESUME_WITHOUT_PAUSE"}
        \/ w[1] = "LEGACY_SEED_APPLIED" /\ SeedEvents(log, a) = {w[2]}
  BY <1>5, <1>6, <1>8 DEF Codes
<1> QED BY <1>1, <1>3, <1>6, <1>7, <1>9 DEF p, s

\* The end of one process.
LEMMA EndOfSound ==
  ASSUME NEW log \in Seq(Event), NEW apps, EventsSound(log, apps), NEW a,
         ~LegacySeedOf(log, a).closed
  PROVE  \E n \in Nat : /\ DOMAIN BusinessEvents(log, a) = 1..n
                        /\ \E acc : Folded(log, a) = acc.state /\ EndedRight(acc, BusinessEvents(log, a), n)
<1> DEFINE line == BusinessEvents(log, a)
           base == Base(log, a)
<1>1. PICK n \in Nat : \E run :
           /\ DOMAIN line = 1..n
           /\ Passes(run, base, line, n)
           /\ Folded(log, a) = run[n].state
  BY FoldedIsLast
<1>2. PICK run : /\ DOMAIN line = 1..n
                 /\ Passes(run, base, line, n)
                 /\ Folded(log, a) = run[n].state
  BY <1>1
<1>3. State(LegacySeedOf(log, a)) /\ LegacySeedOf(log, a).warned = {}
  BY SeedIsClean
<1>4. /\ DOMAIN base = {"state", "legacyClosed"}
      /\ base.state = LegacySeedOf(log, a) /\ base.legacyClosed = LegacySeedOf(log, a).closed
  BY BaseFields
<1> HIDE DEF line, base
<1>5. ClosersTo(line, 0) = {} /\ \A x : ~After(line, 0, x) /\ ~Reported({}, x)
  BY DEF ClosersTo, After, Reported
<1>6. EndedRight(base, line, 0)
  BY <1>3, <1>4, <1>5 DEF EndedRight, FirstDecides
<1>7. EndedRight(run[n], line, n)
  BY <1>2, <1>6, RunEnds
<1> QED BY <1>2, <1>7 DEF line

\* So is that of every application.
LEMMA WholeIsClean == Whole => ProjectionIsClean
<1> SUFFICES ASSUME Whole PROVE ProjectionIsClean
  OBVIOUS
<1>1. events \in Seq(Event) /\ EventsSound(events, applications)
  BY DEF Whole, LogInv, LogTyped
<1> QED BY <1>1, ProjectionOfSound DEF ProjectionIsClean

\* However the commands come, the service never leaves a log that projectApplication calls
\* invalid (its errors, projectApplication.ts:409), whose voids and audit events disagree
\* with the rows (:453), or from which a paused process does not know where to resume
\* (:249): the only warnings are the two about the order of business events (:194, :252) and
\* the one that names the single seed of a migrated application (:477), so none ever has
\* several (:480).
THEOREM ProjectionsAreClean == Spec => []ProjectionIsClean
BY WholeIsClean, InitIsWhole, NextIsWhole, PTL DEF Spec

\* The same, said as ClosedIsFinal says it.
LEMMA ClosingOfSound ==
  ASSUME Whole, NEW a \in DOMAIN applications, ~LegacySeedOf(events, a).closed
  PROVE  LET line == BusinessEvents(events, a)
             closers == {k \in DOMAIN line : line[k].type \in DOMAIN Closings}
             s == Folded(events, a)
         IN  /\ s.closed <=> closers # {}
             /\ {w[2] : w \in {v \in s.warned : v[1] = "EVENT_AFTER_CLOSED"}} =
                  {line[k].id : k \in {j \in DOMAIN line : \E c \in closers : c < j}}
             /\ closers # {} => s.outcome = Closings[line[CHOOSE c \in closers : \A d \in closers : c <= d].type][1]
<1> DEFINE line == BusinessEvents(events, a)
           closers == {k \in DOMAIN line : line[k].type \in DOMAIN Closings}
           s == Folded(events, a)
<1>1. events \in Seq(Event) /\ EventsSound(events, applications)
  BY DEF Whole, LogInv, LogTyped
<1>2. PICK n \in Nat : /\ DOMAIN line = 1..n
                       /\ \E acc : s = acc.state /\ EndedRight(acc, line, n)
  BY <1>1, EndOfSound
<1>3. PICK acc : s = acc.state /\ EndedRight(acc, line, n)
  BY <1>2
<1> HIDE DEF line, s
<1>4. closers = ClosersTo(line, n)
  BY <1>2 DEF ClosersTo
<1>5. closers \in SUBSET Nat
  BY <1>2
<1> HIDE DEF closers
<1>6. /\ s.closed <=> closers # {}
      /\ \A x : Reported(s.warned, x) <=> After(line, n, x)
      /\ FirstDecides(line, n, s.outcome)
  BY <1>3, <1>4 DEF EndedRight
<1>7. {w[2] : w \in {v \in s.warned : v[1] = "EVENT_AFTER_CLOSED"}} =
        {line[k].id : k \in {j \in DOMAIN line : \E c \in closers : c < j}}
  <2>1. \A x : x \in {w[2] : w \in {v \in s.warned : v[1] = "EVENT_AFTER_CLOSED"}} <=> Reported(s.warned, x)
    BY DEF Reported
  <2>2. \A x : x \in {line[k].id : k \in {j \in DOMAIN line : \E c \in closers : c < j}} <=> After(line, n, x)
    BY <1>2, <1>4 DEF After
  <2> QED BY <1>6, <2>1, <2>2
<1>8. ASSUME closers # {}
      PROVE  s.outcome = Closings[line[CHOOSE c \in closers : \A d \in closers : c <= d].type][1]
  <2> DEFINE first == CHOOSE c \in closers : \A d \in closers : c <= d
  <2>1. \E c \in closers : \A d \in closers : c <= d
    BY <1>5, <1>8, LeastNatural
  <2>2. first \in closers /\ \A d \in closers : first <= d
    BY <2>1
  <2> HIDE DEF first
  <2>3. s.outcome = Closings[line[first].type][1]
    BY <1>4, <1>6, <2>2 DEF FirstDecides
  <2> QED BY <2>3 DEF first
<1> QED BY <1>6, <1>7, <1>8 DEF line, closers, s

LEMMA WholeEnds == Whole => ClosedIsFinal
BY ClosingOfSound DEF ClosedIsFinal

\* An application ends with the first closing event in business time, in whatever order the
\* events were written down, voided and replaced; exactly the events after it are reported
\* (reduceBusinessEvent, projectApplication.ts:190).
THEOREM EndsAreFinal == Spec => []ClosedIsFinal
BY WholeEnds, InitIsWhole, NextIsWhole, PTL DEF Spec

-----------------------------------------------------------------------------
(* The order in which the events are folded.                               *)

\* An order of S: of two that differ one precedes, and none precedes itself.
Orders(R, S) ==
  /\ \A x \in S : <<x, x>> \notin R
  /\ \A x, y \in S : x # y => <<x, y>> \in R \/ <<y, x>> \in R
  /\ \A x, y, z \in S : <<x, y>> \in R /\ <<y, z>> \in R => <<x, z>> \in R

\* What of S precedes one of them.
Earlier(R, S, x) == {y \in S : <<y, x>> \in R}
Rank(R, S, x) == Cardinality(Earlier(R, S, x))

LEMMA EarlierIsFewer ==
  ASSUME NEW S, IsFiniteSet(S), NEW R, Orders(R, S), NEW x \in S
  PROVE  /\ IsFiniteSet(Earlier(R, S, x))
         /\ Rank(R, S, x) \in 0..(Cardinality(S) - 1)
<1>1. Cardinality(S) \in Nat
  BY FS_CardinalityType
<1>2. Earlier(R, S, x) \subseteq S /\ Earlier(R, S, x) # S
  BY DEF Earlier, Orders
<1>3. /\ IsFiniteSet(Earlier(R, S, x)) /\ Cardinality(Earlier(R, S, x)) <= Cardinality(S)
      /\ Cardinality(Earlier(R, S, x)) # Cardinality(S)
  BY <1>2, FS_Subset
<1>4. Cardinality(Earlier(R, S, x)) \in Nat
  BY <1>3, FS_CardinalityType
<1> QED BY <1>1, <1>3, <1>4 DEF Rank

\* What comes later has more before it.
LEMMA RanksGrow ==
  ASSUME NEW S, IsFiniteSet(S), NEW R, Orders(R, S), NEW x \in S, NEW y \in S, <<x, y>> \in R
  PROVE  Rank(R, S, x) < Rank(R, S, y)
<1>1. Earlier(R, S, x) \subseteq Earlier(R, S, y)
  BY DEF Earlier, Orders
<1>2. x \in Earlier(R, S, y) /\ x \notin Earlier(R, S, x)
  BY DEF Earlier, Orders
<1>3. IsFiniteSet(Earlier(R, S, y))
  BY EarlierIsFewer
<1>4. IsFiniteSet(Earlier(R, S, x)) /\ Cardinality(Earlier(R, S, x)) <= Cardinality(Earlier(R, S, y))
  BY <1>1, <1>3, FS_Subset
<1>5. Cardinality(Earlier(R, S, x)) # Cardinality(Earlier(R, S, y))
  BY <1>1, <1>2, <1>3, FS_Subset
<1>6. Cardinality(Earlier(R, S, x)) \in Nat /\ Cardinality(Earlier(R, S, y)) \in Nat
  BY <1>3, <1>4, FS_CardinalityType
<1> QED BY <1>4, <1>5, <1>6 DEF Rank

\* Every rank below the number of members is the rank of one of them, and of one only.
LEMMA RanksAreTaken ==
  ASSUME NEW S, IsFiniteSet(S), NEW R, Orders(R, S)
  PROVE  /\ \A k \in 1..Cardinality(S) : \E x \in S : Rank(R, S, x) = k - 1
         /\ \A x, y \in S : Rank(R, S, x) = Rank(R, S, y) => x = y
<1> DEFINE n == Cardinality(S)
           T == 0..(n - 1)
           f == [x \in S |-> Rank(R, S, x)]
<1>1. n \in Nat
  BY FS_CardinalityType
<1>2. \A x \in S : Rank(R, S, x) \in T /\ Rank(R, S, x) \in Nat
  <2>1. \A x \in S : Rank(R, S, x) \in 0..(n - 1)
    BY EarlierIsFewer
  <2> HIDE DEF n
  <2> QED BY <1>1, <2>1
<1>3. \A x, y \in S : Rank(R, S, x) = Rank(R, S, y) => x = y
  <2>1. ASSUME NEW x \in S, NEW y \in S, Rank(R, S, x) = Rank(R, S, y), x # y PROVE FALSE
    <3>1. <<x, y>> \in R \/ <<y, x>> \in R
      BY <2>1 DEF Orders
    <3>2. Rank(R, S, x) < Rank(R, S, y) \/ Rank(R, S, y) < Rank(R, S, x)
      BY <3>1, RanksGrow
    <3> QED BY <1>2, <2>1, <3>2
  <2> QED BY <2>1
<1>4. IsFiniteSet(T) /\ Cardinality(T) = n
  <2> HIDE DEF n
  <2>1. n - 1 \in Int /\ 0 \in Int
    BY <1>1
  <2>2. /\ IsFiniteSet(0..(n - 1))
        /\ Cardinality(0..(n - 1)) = IF 0 > n - 1 THEN 0 ELSE (n - 1) - 0 + 1
    BY <2>1, FS_Interval
  <2> QED BY <1>1, <2>2
<1>5. f \in Injection(S, T)
  BY <1>2, <1>3 DEF Injection, IsInjective
<1>6. f \in Surjection(S, T)
  <2> HIDE DEF T
  <2> QED BY <1>4, <1>5, FS_Injection
<1>7. ASSUME NEW k \in 1..n PROVE \E x \in S : Rank(R, S, x) = k - 1
  <2>1. k - 1 \in T
    <3> HIDE DEF n
    <3> QED BY <1>1
  <2> HIDE DEF T
  <2>2. \E x \in S : f[x] = k - 1
    BY <1>6, <2>1 DEF Surjection
  <2> QED BY <2>2
<1> QED BY <1>3, <1>7

\* InOrder is a sort: it lists every member once, and by the order.
LEMMA InOrderSorts ==
  ASSUME NEW S, IsFiniteSet(S), NEW R, Orders(R, S)
  PROVE  LET order == InOrder(S, R)
         IN  /\ order \in Seq(S)
             /\ DOMAIN order = 1..Cardinality(S)
             /\ \A x \in S : \E k \in DOMAIN order : order[k] = x
             /\ \A k, l \in DOMAIN order : k < l => <<order[k], order[l]>> \in R
             /\ \A k, l \in DOMAIN order : order[k] = order[l] => k = l
<1> DEFINE order == InOrder(S, R)
           n == Cardinality(S)
<1>1. n \in Nat
  BY FS_CardinalityType
<1>2. DOMAIN order = 1..n
  BY DEF InOrder
<1>3. ASSUME NEW k \in 1..n
      PROVE  order[k] \in S /\ Rank(R, S, order[k]) = k - 1
  <2>1. order[k] = CHOOSE x \in S : Rank(R, S, x) = k - 1
    BY DEF InOrder, Rank, Earlier
  <2>2. \E x \in S : Rank(R, S, x) = k - 1
    BY RanksAreTaken
  <2> HIDE DEF order
  <2> QED BY <2>1, <2>2
<1>4. order \in [1..n -> S]
  <2> DEFINE g(k) == CHOOSE x \in S : Cardinality({y \in S : <<y, x>> \in R}) = k - 1
  <2>1. order = [k \in 1..n |-> g(k)]
    BY DEF InOrder
  <2> HIDE DEF g, order, n
  <2>2. \A k \in 1..n : g(k) = order[k]
    BY <2>1
  <2>3. \A k \in 1..n : g(k) \in S
    BY <1>3, <2>2
  <2> QED BY <2>1, <2>3
<1> HIDE DEF order, n
<1>5. order \in Seq(S)
  BY <1>1, <1>4
<1>6. ASSUME NEW k \in 1..n, NEW l \in 1..n, order[k] = order[l] PROVE k = l
  <2>1. k - 1 = l - 1
    BY <1>3, <1>6
  <2> QED BY <1>1, <2>1
<1>7. ASSUME NEW k \in 1..n, NEW l \in 1..n, k < l
      PROVE  <<order[k], order[l]>> \in R
  <2>1. /\ order[k] \in S /\ Rank(R, S, order[k]) = k - 1
        /\ order[l] \in S /\ Rank(R, S, order[l]) = l - 1
    BY <1>3
  <2>2. ~(l - 1 < k - 1) /\ k # l
    BY <1>1, <1>7
  <2>3. order[k] # order[l]
    BY <1>6, <2>2
  <2>4. <<order[l], order[k]>> \in R => Rank(R, S, order[l]) < Rank(R, S, order[k])
    BY <2>1, RanksGrow
  <2>5. <<order[l], order[k]>> \notin R
    BY <2>1, <2>2, <2>4
  <2> QED BY <2>1, <2>3, <2>5 DEF Orders
<1>8. ASSUME NEW x \in S PROVE \E k \in 1..n : order[k] = x
  <2>1. Rank(R, S, x) \in 0..(n - 1)
    BY EarlierIsFewer DEF n
  <2>2. PICK k \in 1..n : Rank(R, S, x) = k - 1
    <3>1. Rank(R, S, x) + 1 \in 1..n /\ Rank(R, S, x) = (Rank(R, S, x) + 1) - 1
      BY <1>1, <2>1
    <3> QED BY <3>1
  <2>3. order[k] \in S /\ Rank(R, S, order[k]) = Rank(R, S, x)
    BY <1>3, <2>2
  <2>4. order[k] = x
    BY <2>3, RanksAreTaken
  <2> QED BY <2>4
<1> QED BY <1>2, <1>5, <1>6, <1>7, <1>8 DEF order, n

\* Business time, and the order of writing within it, is an order of numbered events.
LEMMA BeforeIsOrder ==
  ASSUME NEW log, NEW S \in SUBSET Nat, \A i \in S : log[i].at \in Nat
  PROVE  Orders({p \in S \X S : Before(log, p[1], p[2])}, S)
<1> DEFINE R == {p \in S \X S : Before(log, p[1], p[2])}
<1>1. \A i, j \in S : <<i, j>> \in R <=> Before(log, i, j)
  OBVIOUS
<1>2. \A i \in S : i \in Nat
  OBVIOUS
<1> HIDE DEF R
<1>3. \A i \in S : <<i, i>> \notin R
  BY <1>1, <1>2 DEF Before
<1>4. \A i, j \in S : i # j => <<i, j>> \in R \/ <<j, i>> \in R
  BY <1>1, <1>2 DEF Before
<1>5. \A i, j, k \in S : <<i, j>> \in R /\ <<j, k>> \in R => <<i, k>> \in R
  BY <1>1, <1>2 DEF Before
<1>6. Orders(R, S)
  BY <1>3, <1>4, <1>5 DEF Orders
<1> QED BY <1>6 DEF R

\* A set of places in a log is finite.
LEMMA PlacesAreFinite ==
  ASSUME NEW Row, NEW log \in Seq(Row), NEW S \in SUBSET DOMAIN log
  PROVE  IsFiniteSet(S) /\ S \in SUBSET Nat
<1>1. PICK m \in Nat : m = Len(log)
  OBVIOUS
<1>2. S \subseteq 1..m /\ S \in SUBSET Nat
  BY <1>1
<1>3. IsFiniteSet(1..m)
  BY FS_Interval
<1> QED BY <1>2, <1>3, FS_Subset

\* The order in which the projection folds events is a sort: every event once, by business
\* time, and by the order of writing where that is equal (compareBusinessTime,
\* projectApplication.ts:103).
THEOREM OrderIsBusinessTime ==
  ASSUME NEW log \in Seq(Event), NEW S \in SUBSET DOMAIN log
  PROVE  LET order == BusinessOrder(log, S)
         IN  /\ DOMAIN order = 1..Cardinality(S)
             /\ \A i \in S : \E k \in DOMAIN order : order[k] = i
             /\ \A k \in DOMAIN order : order[k] \in S
             /\ \A k, l \in DOMAIN order : k < l => Before(log, order[k], order[l])
<1> DEFINE R == {p \in S \X S : Before(log, p[1], p[2])}
           order == InOrder(S, R)
<1>1. IsFiniteSet(S) /\ S \in SUBSET Nat
  BY PlacesAreFinite
<1>2. \A i \in S : log[i].at \in Nat
  <2>1. \A i \in S : log[i] \in Event
    OBVIOUS
  <2> QED BY <2>1 DEF Event
<1>3. Orders(R, S)
  BY <1>1, <1>2, BeforeIsOrder
<1>4. \A i, j : <<i, j>> \in R => Before(log, i, j)
  OBVIOUS
<1> HIDE DEF R
<1>5. /\ order \in Seq(S)
      /\ DOMAIN order = 1..Cardinality(S)
      /\ \A i \in S : \E k \in DOMAIN order : order[k] = i
      /\ \A k, l \in DOMAIN order : k < l => <<order[k], order[l]>> \in R
  BY <1>1, <1>3, InOrderSorts
<1>6. BusinessOrder(log, S) = order
  BY DEF BusinessOrder, R
<1> HIDE DEF order
<1>7. \A k \in DOMAIN order : order[k] \in S
  BY <1>5, RowOfLog
<1> QED BY <1>4, <1>5, <1>6, <1>7

-----------------------------------------------------------------------------
(* The inductive invariant of the promotions.  A row that a promotion       *)
(* created says in its key which promotion that was; hence the key of the   *)
(* next one is free.                                                        *)

PromotionRow == [key : (1..MaxVersions) \X (0..2), job : Jobs, app : Nat, event : Nat]

PromotionsTyped == promotions \in Seq(PromotionRow)

RowsHavePromotions ==
  /\ \A a \in DOMAIN applications : applications[a].key[2] = "promoted application" =>
       \E p \in DOMAIN promotions :
         /\ promotions[p].app = a
         /\ promotions[p].key = <<applications[a].key[3], applications[a].key[4]>>
  /\ \A i \in DOMAIN events : events[i].key[2] = "promoted feedback" =>
       \E p \in DOMAIN promotions :
         /\ promotions[p].event = i
         /\ promotions[p].key = <<events[i].key[3], events[i].key[4]>>

\* What a promotion names is there, and is what its depth calls for.
NamesItsRows(row, apps, log) ==
  /\ row.app \in 0..Len(apps) /\ row.event \in 0..Len(log)
  /\ row.app # 0 <=> row.key[2] >= Depths.application
  /\ row.event # 0 <=> row.key[2] = Depths.feedback
  /\ row.event # 0 => log[row.event].app = row.app

PromotionsNameRows ==
  \A p \in DOMAIN promotions : NamesItsRows(promotions[p], applications, events)

PromotionInv ==
  /\ LogInv /\ PromotionsTyped /\ PromotedOnce /\ RowsHavePromotions /\ PromotionsNameRows

LEMMA InvIsEnough == PromotionInv => PromotedWholeOnce
BY DEF PromotionInv, PromotedWholeOnce, PromotedOnce, PromotionIsWhole, RowsHavePromotions,
       PromotionsNameRows, NamesItsRows

-----------------------------------------------------------------------------
(* The policy.                                                              *)

\* A request that is let through has a depth, and feedback only where its trigger proves an
\* event (TRIGGER_POLICY).
LEMMA DepthIsAllowed ==
  ASSUME NEW request \in Request, DerivePlan(request)
  PROVE  /\ EffectiveDepth(request) \in 0..2
         /\ EffectiveDepth(request) <= TriggerPolicy[request.trigger].depth
         /\ EffectiveDepth(request) = 2 => TriggerPolicy[request.trigger].event \in EventTypes
<1>1. {"hr_replied", "hr_contacted", "interview_scheduled", "rejected"} \subseteq EventTypes
  <2>1. {"hr_replied", "hr_contacted", "interview_scheduled"} \subseteq DOMAIN Moves
    BY DEF Moves
  <2>2. "rejected" \in DOMAIN Closings
    BY DEF Closings
  <2> QED BY <2>1, <2>2 DEF EventTypes, UserEventTypes
<1>2. /\ request.depth \in 0..2 /\ request.trigger \in Triggers
      /\ TriggerPolicy[request.trigger].depth >= 0
  BY DEF Request, DerivePlan
<1>3. \A t \in Triggers :
        /\ TriggerPolicy[t].depth \in {-1, 0, 1, 2}
        /\ TriggerPolicy[t].depth = 2 =>
             TriggerPolicy[t].event \in {"hr_replied", "hr_contacted", "interview_scheduled", "rejected"}
  BY DEF Triggers, TriggerPolicy, Depths
<1>4. EffectiveDepth(request) \in 0..2 /\ EffectiveDepth(request) <= TriggerPolicy[request.trigger].depth
  BY <1>2, <1>3 DEF EffectiveDepth
<1>5. EffectiveDepth(request) = 2 => TriggerPolicy[request.trigger].depth = 2
  BY <1>2, <1>3, <1>4
<1> QED BY <1>1, <1>2, <1>3, <1>4, <1>5

-----------------------------------------------------------------------------
(* The steps.                                                               *)

\* What is promoted stays promoted as long as rows and events stay.
LEMMA PromotionsStay ==
  ASSUME PromotionInv, LogInv', RowsStay, promotions' = promotions
  PROVE  PromotionInv'
<1>1. /\ applications \in Seq(Application) /\ applications' \in Seq(Application)
      /\ events \in Seq(Event) /\ events' \in Seq(Event)
  BY DEF PromotionInv, LogInv, LogTyped
<1>2. /\ 0..Len(applications) \subseteq 0..Len(applications')
      /\ 0..Len(events) \subseteq 0..Len(events')
  BY <1>1 DEF RowsStay
<1>3. PromotionsNameRows'
  <2> SUFFICES ASSUME NEW p \in DOMAIN promotions
               PROVE  NamesItsRows(promotions[p], applications', events')
    BY DEF PromotionsNameRows
  <2>1. NamesItsRows(promotions[p], applications, events)
    BY DEF PromotionInv, PromotionsNameRows
  <2>2. promotions[p].event # 0 => promotions[p].event \in DOMAIN events
    BY <1>1, <2>1 DEF NamesItsRows
  <2> QED BY <1>2, <2>1, <2>2 DEF NamesItsRows, RowsStay
<1>4. RowsHavePromotions'
  <2>1. ASSUME NEW a \in DOMAIN applications', applications'[a].key[2] = "promoted application"
        PROVE  \E p \in DOMAIN promotions :
                 /\ promotions[p].app = a
                 /\ promotions[p].key = <<applications'[a].key[3], applications'[a].key[4]>>
    <3>1. a \in DOMAIN applications /\ applications'[a].key = applications[a].key
      BY <2>1 DEF RowsStay, CommandWords
    <3>2. PICK p \in DOMAIN promotions :
            /\ promotions[p].app = a
            /\ promotions[p].key = <<applications[a].key[3], applications[a].key[4]>>
      BY <2>1, <3>1 DEF PromotionInv, RowsHavePromotions
    <3> QED BY <3>1, <3>2
  <2>2. ASSUME NEW i \in DOMAIN events', events'[i].key[2] = "promoted feedback"
        PROVE  \E p \in DOMAIN promotions :
                 /\ promotions[p].event = i
                 /\ promotions[p].key = <<events'[i].key[3], events'[i].key[4]>>
    <3>1. i \in DOMAIN events /\ events'[i] = events[i]
      BY <2>2 DEF RowsStay, CommandWords
    <3> QED BY <2>2, <3>1 DEF PromotionInv, RowsHavePromotions
  <2> QED BY <2>1, <2>2 DEF RowsHavePromotions
<1> QED BY <1>3, <1>4 DEF PromotionInv, PromotionsTyped, PromotedOnce

LEMMA UserCommandKeeps ==
  ASSUME PromotionInv, UserCommand
  PROVE  PromotionInv'
<1>1. LogInv' /\ RowsStay
  <2>1. CASE ResumeCommand
    BY <2>1, QuietKeeps DEF PromotionInv, StepTells, ResumeCommand, CreateResumeVersion,
                            ActivateResumeVersion, ArchiveResumeVersion
  <2>2. CASE Command
    BY <2>2, CommandKeeps DEF PromotionInv, StepTells
  <2> QED BY <2>1, <2>2 DEF UserCommand
<1> QED BY <1>1, PromotionsStay DEF UserCommand

LEMMA OthersKeep ==
  ASSUME PromotionInv, UNCHANGED <<vars, promotions>>
  PROVE  PromotionInv'
BY QuietKeeps, PromotionsStay DEF PromotionInv, StepTells, vars

\* How a promotion at a depth of a version writes the two tables.
NotPromoted(version, depth) == \A p \in DOMAIN promotions : promotions[p].key # <<version, depth>>

WritesApplication(job, app, version, depth) ==
  applications' = IF app > Len(applications)
                  THEN Append(applications, ApplicationRow(job, <<version, depth>>))
                  ELSE applications

WritesEvent(app, event, type, version, depth) ==
  /\ event = IF depth < Depths.feedback THEN 0 ELSE Len(events) + 1
  /\ depth = Depths.feedback => type \in EventTypes
  /\ events' = IF event = 0 THEN events
               ELSE Append(events, MakeFeedbackEvent(app, type, Now, 0,
                                     PromotionRowKey("promoted feedback", <<version, depth>>)))

\* Which leaves the rows that were there, and adds at most the one that is named.
AddsApplication(app, version, depth) ==
  /\ applications' \in Seq(Application)
  /\ Distinct(applications')
  /\ app \in 0..Len(applications')
  /\ DOMAIN applications \subseteq DOMAIN applications'
  /\ \A a \in DOMAIN applications : applications'[a] = applications[a]
  /\ \A a \in DOMAIN applications' \ DOMAIN applications :
       a = app /\ applications'[a].key = PromotionRowKey("promoted application", <<version, depth>>)

AddsEvent(app, event, type, version, depth) ==
  /\ events' \in Seq(Event)
  /\ Distinct(events')
  /\ event \in 0..Len(events')
  /\ DOMAIN events \subseteq DOMAIN events'
  /\ \A i \in DOMAIN events : events'[i] = events[i]
  /\ event # 0 => events'[event].app = app /\ events'[event].type = type
  /\ \A i \in DOMAIN events' \ DOMAIN events :
       i = event /\ events'[i].key = PromotionRowKey("promoted feedback", <<version, depth>>)

\* A row that a promotion adds, or none.
LEMMA RowsWritten ==
  ASSUME PromotionInv, NEW job \in Jobs, NEW version \in Nat, NEW depth \in Nat,
         NEW app \in Nat,
         NotPromoted(version, depth), WritesApplication(job, app, version, depth),
         app \in 0..(Len(applications) + 1)
  PROVE  AddsApplication(app, version, depth)
<1> DEFINE row == ApplicationRow(job, <<version, depth>>)
           key == PromotionRowKey("promoted application", <<version, depth>>)
<1>1. /\ applications \in Seq(Application) /\ Distinct(applications)
      /\ KeysOf(applications) = AppKeys
  BY DEF PromotionInv, LogInv, LogTyped, KeysOnce, Distinct, KeysOf, AppKeys
<1>2. key \in DerivedKeys /\ key[2] = "promoted application" /\ key[3] = version /\ key[4] = depth
  <2>1. "promoted application" \in Words
    BY DEF Words
  <2> QED BY <2>1, DerivedKey DEF PromotionRowKey
<1>3. row \in Application /\ row.key = key
  <2> HIDE DEF key
  <2>1. row = [job |-> job, resume |-> None, version |-> 1, voided |-> FALSE, superseded |-> 0, key |-> key]
    BY DEF ApplicationRow, key
  <2>2. key \in DerivedKeys /\ None \in Resumes \cup {None}
    BY <1>2
  <2>3. [job |-> job, resume |-> None, version |-> 1, voided |-> FALSE, superseded |-> 0, key |-> key]
          \in Application
    BY <2>2 DEF Application
  <2> QED BY <2>1, <2>3
<1>4. key \notin KeysOf(applications)
  <2> SUFFICES ASSUME NEW a \in DOMAIN applications, applications[a].key = key PROVE FALSE
    BY DEF KeysOf
  <2>1. PICK p \in DOMAIN promotions :
          promotions[p].key = <<applications[a].key[3], applications[a].key[4]>>
    BY <1>2 DEF PromotionInv, RowsHavePromotions
  <2> QED BY <1>2, <2>1 DEF NotPromoted
<1>5. applications' = IF app > Len(applications) THEN Append(applications, row) ELSE applications
  BY DEF WritesApplication
<1> HIDE DEF row, key
<1>6. CASE app > Len(applications)
  <2>1. app = Len(applications) + 1
    BY <1>1, <1>6
  <2>2. /\ Append(applications, row) \in Seq(Application)
        /\ Distinct(Append(applications, row))
        /\ DOMAIN Append(applications, row) = DOMAIN applications \cup {Len(applications) + 1}
        /\ \A i \in DOMAIN applications : Append(applications, row)[i] = applications[i]
    BY <1>1, <1>3, <1>4, RowAppended
  <2>3. Append(applications, row)[Len(applications) + 1] = row
    BY <1>1, <1>3, RowAtTheEnd
  <2>4. Len(Append(applications, row)) = Len(applications) + 1
    BY <1>1, <1>3
  <2>5. applications' = Append(applications, row)
    BY <1>5, <1>6
  <2> QED BY <1>3, <2>1, <2>2, <2>3, <2>4, <2>5 DEF key, AddsApplication
<1>7. CASE ~(app > Len(applications))
  <2>1. app \in 0..Len(applications) /\ applications' = applications
    BY <1>1, <1>5, <1>7
  <2> QED BY <1>1, <2>1 DEF AddsApplication
<1> QED BY <1>6, <1>7

\* The event a promotion adds, or none.
LEMMA EventsWritten ==
  ASSUME PromotionInv, NEW version \in Nat, NEW depth \in 0..2, NEW app \in Nat, NEW event, NEW type,
         NotPromoted(version, depth), WritesEvent(app, event, type, version, depth)
  PROVE  AddsEvent(app, event, type, version, depth)
<1> DEFINE key == PromotionRowKey("promoted feedback", <<version, depth>>)
           e   == MakeFeedbackEvent(app, type, Now, 0, key)
<1>1. events \in Seq(Event) /\ Distinct(events) /\ Len(events) \in Nat
  <2>1. events \in Seq(Event)
    BY DEF PromotionInv, LogInv, LogTyped
  <2>2. Distinct(events)
    BY DEF PromotionInv, LogInv, KeysOnce, Distinct
  <2> QED BY <2>1, <2>2
<1>0. event \in Nat /\ (event = 0 \/ (event = Len(events) + 1 /\ depth = 2))
  <2>1. Depths.feedback = 2
    BY DEF Depths
  <2>2. event = IF depth < 2 THEN 0 ELSE Len(events) + 1
    BY <2>1 DEF WritesEvent
  <2> QED BY <1>1, <2>2
<1>2. key \in DerivedKeys /\ key[2] = "promoted feedback" /\ key[3] = version /\ key[4] = depth
  <2>1. "promoted feedback" \in Words
    BY DEF Words
  <2>2. depth \in Nat
    OBVIOUS
  <2> QED BY <2>1, <2>2, DerivedKey DEF PromotionRowKey
<1>3. key \notin KeysOf(events)
  <2> SUFFICES ASSUME NEW i \in DOMAIN events, events[i].key = key PROVE FALSE
    BY DEF KeysOf
  <2>1. PICK p \in DOMAIN promotions :
          promotions[p].key = <<events[i].key[3], events[i].key[4]>>
    BY <1>2 DEF PromotionInv, RowsHavePromotions
  <2> QED BY <1>2, <2>1 DEF NotPromoted
<1>4. CASE event = 0
  <2>1. events' = events
    BY <1>4 DEF WritesEvent
  <2>2. 0 \in 0..Len(events)
    BY <1>1
  <2> QED BY <1>1, <1>4, <2>1, <2>2 DEF AddsEvent
<1>5. CASE event # 0
  <2>1. event = Len(events) + 1 /\ type \in EventTypes
    BY <1>0, <1>5 DEF Depths, WritesEvent
  <2>2. events' = Append(events, e)
    BY <1>5 DEF WritesEvent
  <2>3. e \in Event /\ e.key = key /\ e.app = app /\ e.type = type
    <3> HIDE DEF key
    <3>1. Now \in Nat
      BY TypesOfEvents
    <3> QED BY <1>2, <2>1, <3>1 DEF MakeFeedbackEvent, Event
  <2> HIDE DEF e, key
  <2>7. e.key \notin KeysOf(events)
    BY <1>3, <2>3 DEF key
  <2>4. /\ Append(events, e) \in Seq(Event)
        /\ Distinct(Append(events, e))
        /\ DOMAIN Append(events, e) = DOMAIN events \cup {Len(events) + 1}
        /\ \A i \in DOMAIN events : Append(events, e)[i] = events[i]
    BY <1>1, <2>3, <2>7, RowAppended
  <2>5. Append(events, e)[Len(events) + 1] = e
    BY <1>1, <2>3, RowAtTheEnd
  <2>6. Len(Append(events, e)) = Len(events) + 1
    BY <1>1, <2>3
  <2>8. events' \in Seq(Event) /\ Distinct(events') /\ event \in 0..Len(events')
    BY <1>1, <2>1, <2>2, <2>4, <2>6
  <2>9. events'[event] = e /\ DOMAIN events' = DOMAIN events \cup {event}
    BY <2>1, <2>2, <2>4, <2>5
  <2> QED BY <2>2, <2>3, <2>4, <2>8, <2>9 DEF key, AddsEvent
<1> QED BY <1>4, <1>5

\* What WritePromotion does, with the names it gives to what it writes.
Written(request, job, app, event) ==
  LET depth == EffectiveDepth(request)
      row   == [key |-> KeyOf(request), job |-> job, app |-> app, event |-> event]
  IN  /\ NotPromoted(request.version, depth)
      /\ WritesApplication(job, app, request.version, depth)
      /\ WritesEvent(app, event, TriggerPolicy[request.trigger].event, request.version, depth)
      /\ promotions' = Append(promotions, row)
      /\ row \in PromotionRow
      /\ app \in 0..(Len(applications) + 1)
      /\ app # 0 <=> depth >= 1
      /\ event # 0 <=> depth = 2

LEMMA PromotionWrites ==
  ASSUME PromotionInv, NEW request \in Requests, NEW new \in NewJobs(request),
         WritePromotion(request, new)
  PROVE  \E job \in Jobs, app \in Nat, event \in Nat : Written(request, job, app, event)
<1> DEFINE depth == EffectiveDepth(request)
           job   == IF request.job = None THEN new ELSE request.job
           app   == IF depth < Depths.application THEN 0
                    ELSE IF request.app = 0 THEN Len(applications) + 1 ELSE request.app
           event == IF depth < Depths.feedback THEN 0 ELSE Len(events) + 1
           row   == [key |-> KeyOf(request), job |-> job, app |-> app, event |-> event]
<1>1. /\ request \in Request /\ request.app \in 0..Len(applications)
      /\ request.version \in 1..MaxVersions /\ request.job \in Jobs \cup {None}
  BY DEF Requests, Request
<1>2. /\ depth \in 0..2
      /\ depth = 2 => TriggerPolicy[request.trigger].event \in EventTypes
  BY <1>1, DepthIsAllowed DEF WritePromotion
<1>3. Depths.application = 1 /\ Depths.feedback = 2
  BY DEF Depths
<1>4. KeyOf(request) = <<request.version, depth>>
  BY DEF KeyOf
<1>5. /\ WritesApplication(job, app, request.version, depth)
      /\ WritesEvent(app, event, TriggerPolicy[request.trigger].event, request.version, depth)
      /\ promotions' = Append(promotions, row)
  BY <1>2, <1>3, <1>4 DEF WritePromotion, WritesApplication, WritesEvent
<1>6. NotPromoted(request.version, depth)
  BY <1>4 DEF WritePromotion, PromotionsFor, NotPromoted
<1>7. job \in Jobs
  BY <1>1 DEF NewJobs
<1>8. Len(applications) \in Nat /\ Len(events) \in Nat
  <2>1. applications \in Seq(Application) /\ events \in Seq(Event)
    BY DEF PromotionInv, LogInv, LogTyped
  <2> QED BY <2>1
<1> HIDE DEF depth
<1>9. /\ app \in 0..(Len(applications) + 1) /\ app \in Nat /\ event \in Nat
      /\ app # 0 <=> depth >= 1
      /\ event # 0 <=> depth = 2
  <2>1. app = IF depth < 1 THEN 0 ELSE IF request.app = 0 THEN Len(applications) + 1 ELSE request.app
    BY <1>3
  <2>2. event = IF depth < 2 THEN 0 ELSE Len(events) + 1
    BY <1>3
  <2> HIDE DEF app, event
  <2> QED BY <1>1, <1>2, <1>8, <2>1, <2>2
<1> HIDE DEF app, event, job
<1>10. row \in PromotionRow
  BY <1>1, <1>2, <1>4, <1>7, <1>9 DEF PromotionRow
<1>11. Written(request, job, app, event)
  BY <1>5, <1>6, <1>9, <1>10 DEF Written, depth
<1> QED BY <1>7, <1>9, <1>11

\* The promotion that is written: once, whole, and with the rows it names.
LEMMA WritingKeeps ==
  ASSUME PromotionInv, NEW request \in Requests, NEW new \in NewJobs(request),
         WritePromotion(request, new)
  PROVE  PromotionInv'
<1> DEFINE version == request.version
           depth   == EffectiveDepth(request)
<1>1. PICK job \in Jobs, app \in Nat, event \in Nat : Written(request, job, app, event)
  BY PromotionWrites
<1> DEFINE row  == [key |-> KeyOf(request), job |-> job, app |-> app, event |-> event]
           last == Len(promotions) + 1
<1>2. /\ version \in Nat /\ depth \in 0..2 /\ depth \in Nat /\ KeyOf(request) = <<version, depth>>
  <2>1. request \in Request /\ request.version \in 1..MaxVersions
    BY DEF Requests, Request
  <2>2. EffectiveDepth(request) \in 0..2
    BY <2>1, DepthIsAllowed DEF WritePromotion
  <2> QED BY <2>1, <2>2, PromotionAssumption DEF KeyOf
<1>3. /\ NotPromoted(version, depth) /\ WritesApplication(job, app, version, depth)
      /\ WritesEvent(app, event, TriggerPolicy[request.trigger].event, version, depth)
      /\ promotions' = Append(promotions, row)
      /\ row \in PromotionRow
      /\ app \in 0..(Len(applications) + 1)
      /\ app # 0 <=> depth >= 1
      /\ event # 0 <=> depth = 2
  BY <1>1 DEF Written
<1>4. row.key = <<version, depth>> /\ row.app = app /\ row.event = event
  BY <1>2
<1> HIDE DEF version, depth, row
<1>5. /\ applications' \in Seq(Application)
      /\ Distinct(applications')
      /\ app \in 0..Len(applications')
      /\ DOMAIN applications \subseteq DOMAIN applications'
      /\ \A a \in DOMAIN applications : applications'[a] = applications[a]
      /\ \A a \in DOMAIN applications' \ DOMAIN applications :
           a = app /\ applications'[a].key = PromotionRowKey("promoted application", <<version, depth>>)
  <2>1. /\ NotPromoted(version, depth) /\ WritesApplication(job, app, version, depth)
        /\ app \in 0..(Len(applications) + 1) /\ version \in Nat /\ depth \in Nat
    BY <1>2, <1>3
  <2>2. AddsApplication(app, version, depth)
    BY <2>1, RowsWritten
  <2> QED BY <2>2 DEF AddsApplication
<1>6. /\ events' \in Seq(Event)
      /\ Distinct(events')
      /\ event \in 0..Len(events')
      /\ DOMAIN events \subseteq DOMAIN events'
      /\ \A i \in DOMAIN events : events'[i] = events[i]
      /\ event # 0 => events'[event].app = app
      /\ \A i \in DOMAIN events' \ DOMAIN events :
           i = event /\ events'[i].key = PromotionRowKey("promoted feedback", <<version, depth>>)
  <2>1. /\ NotPromoted(version, depth)
        /\ WritesEvent(app, event, TriggerPolicy[request.trigger].event, version, depth)
        /\ version \in Nat /\ depth \in 0..2
    BY <1>2, <1>3
  <2>2. AddsEvent(app, event, TriggerPolicy[request.trigger].event, version, depth)
    BY <2>1, EventsWritten
  <2> QED BY <2>2 DEF AddsEvent
<1>7. /\ promotions' \in Seq(PromotionRow)
      /\ last \notin DOMAIN promotions
      /\ DOMAIN promotions' = DOMAIN promotions \cup {last}
      /\ \A p \in DOMAIN promotions : promotions'[p] = promotions[p]
      /\ promotions'[last] = row
  <2>1. promotions \in Seq(PromotionRow)
    BY DEF PromotionInv, PromotionsTyped
  <2>2. last \notin DOMAIN promotions
    BY <2>1
  <2> QED BY <1>3, <2>1, <2>2, RowAtTheEnd
<1> HIDE DEF last
<1>8. /\ \A word \in {"promoted application", "promoted feedback"} :
           LET key == PromotionRowKey(word, <<version, depth>>)
           IN  key[2] = word /\ key[3] = version /\ key[4] = depth
  BY DEF PromotionRowKey
<1>9. LogInv'
  <2>1. LogTyped' /\ KeysOnce'
    BY <1>5, <1>6 DEF LogTyped, KeysOnce, Distinct
  <2>2. KeysTraced(EventKeys', applications')
    <3>1. \A a \in DOMAIN applications : applications'[a].version >= applications[a].version
      <4>1. \A a \in DOMAIN applications : applications[a] \in Application
        BY RowOfLog DEF PromotionInv, LogInv, LogTyped
      <4>2. \A a \in DOMAIN applications : applications[a].version \in Nat
        BY <4>1 DEF Application
      <4>3. \A a \in DOMAIN applications : applications'[a] = applications[a]
        BY <1>5
      <4> QED BY <4>2, <4>3
    <3>2. EventKeys \subseteq DerivedKeys /\ EventKeys \subseteq EventKeys'
      <4>1. \A i \in DOMAIN events : events[i] \in Event
        BY RowOfLog DEF PromotionInv, LogInv, LogTyped
      <4>2. \A i \in DOMAIN events : events[i].key \in DerivedKeys
        BY <4>1 DEF Event
      <4>3. EventKeys \subseteq EventKeys'
        BY <1>6 DEF EventKeys
      <4> QED BY <4>2, <4>3 DEF EventKeys
    <3>3. \A key \in EventKeys : Traced(key, EventKeys', applications')
      BY <1>5, <3>1, <3>2, TracedStays DEF PromotionInv, LogInv
    <3>4. \A i \in DOMAIN events' \ DOMAIN events : Traced(events'[i].key, EventKeys', applications')
      BY <1>6, <1>8 DEF Traced
    <3>5. \A i \in DOMAIN events : events[i].key \in EventKeys
      BY DEF EventKeys
    <3>6. \A i \in DOMAIN events' : Traced(events'[i].key, EventKeys', applications')
      BY <1>6, <3>3, <3>4, <3>5
    <3> QED BY <3>6 DEF KeysTraced, EventKeys
  <2> QED BY <2>1, <2>2 DEF LogInv
<1>10. PromotionsTyped'
  BY <1>7 DEF PromotionsTyped
<1>11. PromotedOnce'
  <2>1. \A p \in DOMAIN promotions : promotions[p].key # row.key
    BY <1>3, <1>4 DEF NotPromoted
  <2> QED BY <1>7, <2>1 DEF PromotionInv, PromotedOnce
<1>12. RowsHavePromotions'
  <2>1. ASSUME NEW a \in DOMAIN applications', applications'[a].key[2] = "promoted application"
        PROVE  \E p \in DOMAIN promotions' :
                 /\ promotions'[p].app = a
                 /\ promotions'[p].key = <<applications'[a].key[3], applications'[a].key[4]>>
    <3>1. CASE a \in DOMAIN applications
      <4>1. PICK p \in DOMAIN promotions :
              /\ promotions[p].app = a
              /\ promotions[p].key = <<applications[a].key[3], applications[a].key[4]>>
        BY <1>5, <2>1, <3>1 DEF PromotionInv, RowsHavePromotions
      <4> QED BY <1>5, <1>7, <3>1, <4>1
    <3>2. CASE a \notin DOMAIN applications
      <4>1. a = app /\ applications'[a].key[3] = version /\ applications'[a].key[4] = depth
        BY <1>5, <1>8, <2>1, <3>2
      <4> QED BY <1>4, <1>7, <4>1
    <3> QED BY <3>1, <3>2
  <2>2. ASSUME NEW i \in DOMAIN events', events'[i].key[2] = "promoted feedback"
        PROVE  \E p \in DOMAIN promotions' :
                 /\ promotions'[p].event = i
                 /\ promotions'[p].key = <<events'[i].key[3], events'[i].key[4]>>
    <3>1. CASE i \in DOMAIN events
      <4>1. PICK p \in DOMAIN promotions :
              /\ promotions[p].event = i
              /\ promotions[p].key = <<events[i].key[3], events[i].key[4]>>
        BY <1>6, <2>2, <3>1 DEF PromotionInv, RowsHavePromotions
      <4> QED BY <1>6, <1>7, <3>1, <4>1
    <3>2. CASE i \notin DOMAIN events
      <4>1. i = event /\ events'[i].key[3] = version /\ events'[i].key[4] = depth
        BY <1>6, <1>8, <2>2, <3>2
      <4> QED BY <1>4, <1>7, <4>1
    <3> QED BY <3>1, <3>2
  <2> QED BY <2>1, <2>2 DEF RowsHavePromotions
<1>13. PromotionsNameRows'
  <2>1. /\ 0..Len(applications) \subseteq 0..Len(applications')
        /\ 0..Len(events) \subseteq 0..Len(events')
    <3>1. /\ applications \in Seq(Application) /\ events \in Seq(Event)
          /\ applications' \in Seq(Application) /\ events' \in Seq(Event)
      BY <1>5, <1>6 DEF PromotionInv, LogInv, LogTyped
    <3>2. DOMAIN applications \subseteq DOMAIN applications' /\ DOMAIN events \subseteq DOMAIN events'
      BY <1>5, <1>6
    <3> QED BY <3>1, <3>2
  <2>2. ASSUME NEW p \in DOMAIN promotions
        PROVE  NamesItsRows(promotions[p], applications', events')
    <3>1. NamesItsRows(promotions[p], applications, events)
      BY DEF PromotionInv, PromotionsNameRows
    <3>2. promotions[p].event # 0 => promotions[p].event \in DOMAIN events
      <4>1. events \in Seq(Event)
        BY DEF PromotionInv, LogInv, LogTyped
      <4> QED BY <3>1, <4>1 DEF NamesItsRows
    <3> QED BY <1>6, <2>1, <3>1, <3>2 DEF NamesItsRows
  <2>3. NamesItsRows(row, applications', events')
    <3>1. row.key[2] = depth /\ Depths.application = 1 /\ Depths.feedback = 2
      BY <1>4 DEF Depths
    <3> QED BY <1>3, <1>4, <1>5, <1>6, <3>1 DEF NamesItsRows
  <2> QED BY <1>7, <2>2, <2>3 DEF PromotionsNameRows
<1> QED BY <1>9, <1>10, <1>11, <1>12, <1>13 DEF PromotionInv

\* What is promoted is no more than the trigger proves, in any step.
Proven ==
  promotions' # promotions =>
    LET p      == promotions'[Len(promotions')]
        policy == TriggerPolicy[reply'.trigger]
    IN  /\ p.key = <<activeVersion, p.key[2]>>
        /\ p.key[2] <= policy.depth
        /\ p.event # 0 => events'[p.event].type = policy.event

LEMMA WritingIsProven ==
  ASSUME PromotionInv, NEW request \in Requests, NEW new \in NewJobs(request),
         WritePromotion(request, new)
  PROVE  Proven
<1> DEFINE version == request.version
           depth   == EffectiveDepth(request)
           policy  == TriggerPolicy[request.trigger]
<1>1. PICK job \in Jobs, app \in Nat, event \in Nat : Written(request, job, app, event)
  BY PromotionWrites
<1> DEFINE row == [key |-> KeyOf(request), job |-> job, app |-> app, event |-> event]
<1>2. request \in Request /\ DerivePlan(request)
  BY DEF Requests, WritePromotion
<1>3. depth \in 0..2 /\ depth <= policy.depth
  BY <1>2, DepthIsAllowed
<1>4. version = activeVersion /\ version \in Nat
  BY <1>2, PromotionAssumption DEF DerivePlan, Request
<1>5. /\ row.key = <<version, depth>> /\ row.key[2] = depth /\ row.event = event
  BY DEF KeyOf
<1>6. /\ NotPromoted(version, depth)
      /\ WritesEvent(app, event, policy.event, version, depth)
      /\ promotions' = Append(promotions, row)
      /\ row \in PromotionRow
  BY <1>1 DEF Written
<1>7. reply'.trigger = request.trigger
  BY DEF WritePromotion, Answer
<1> HIDE DEF version, depth, policy, row
<1>8. event # 0 => events'[event].type = policy.event
  <2>1. AddsEvent(app, event, policy.event, version, depth)
    BY <1>3, <1>4, <1>6, EventsWritten
  <2> QED BY <2>1 DEF AddsEvent
<1>9. promotions'[Len(promotions')] = row
  <2>1. promotions \in Seq(PromotionRow)
    BY DEF PromotionInv, PromotionsTyped
  <2>2. Len(promotions') = Len(promotions) + 1
    BY <1>6, <2>1
  <2>3. Append(promotions, row)[Len(promotions) + 1] = row
    BY <1>6, <2>1, RowAtTheEnd
  <2> QED BY <1>6, <2>2, <2>3
<1> QED BY <1>3, <1>4, <1>5, <1>7, <1>8, <1>9 DEF Proven, policy

-----------------------------------------------------------------------------
(* The theorems.                                                            *)

LEMMA PromotionInitHolds == PromotionInit => PromotionInv
<1> SUFFICES ASSUME PromotionInit PROVE PromotionInv
  OBVIOUS
<1>1. LogInv
  BY InitHolds DEF PromotionInit
<1>2. promotions = << >>
  BY DEF PromotionInit
<1>3. PromotionsTyped /\ PromotedOnce /\ PromotionsNameRows
  BY <1>2 DEF PromotionsTyped, PromotedOnce, PromotionsNameRows
<1>4. /\ \A a \in DOMAIN applications : applications[a].key[2] = "migration"
      /\ \A i \in DOMAIN events : events[i].key[2] = "migration"
  <2>1. CASE applications = << >> /\ events = << >>
    BY <2>1
  <2>2. ASSUME NEW job \in Jobs, NEW status \in LegacyStatuses, NEW key \in Keys,
               applications = <<[job |-> job, resume |-> None, version |-> 1, voided |-> FALSE,
                                 superseded |-> 0, key |-> KeyFor(key, "migration")]>>,
               events = <<[MakeFeedbackEvent(1, "legacy_status_imported", 0, 0, KeyFor(key, "migration"))
                             EXCEPT !.legacy = status]>>
        PROVE  /\ \A a \in DOMAIN applications : applications[a].key[2] = "migration"
               /\ \A i \in DOMAIN events : events[i].key[2] = "migration"
    <3>1. KeyFor(key, "migration")[2] = "migration"
      BY DEF KeyFor
    <3>2. \A a \in DOMAIN applications : applications[a].key = KeyFor(key, "migration")
      BY <2>2
    <3>3. \A i \in DOMAIN events : events[i].key = KeyFor(key, "migration")
      <4> DEFINE e == [MakeFeedbackEvent(1, "legacy_status_imported", 0, 0, KeyFor(key, "migration"))
                         EXCEPT !.legacy = status]
      <4>1. e.key = KeyFor(key, "migration")
        BY DEF MakeFeedbackEvent
      <4>2. events = <<e>>
        BY <2>2
      <4> HIDE DEF e
      <4> QED BY <4>1, <4>2
    <3> QED BY <3>1, <3>2, <3>3
  <2> QED BY <2>1, <2>2 DEF PromotionInit, Init
<1>5. RowsHavePromotions
  BY <1>4 DEF RowsHavePromotions
<1> QED BY <1>1, <1>3, <1>5 DEF PromotionInv

LEMMA PromotionNextHolds ==
  PromotionInv /\ [PromotionNext]_promotionVars => PromotionInv' /\ [Proven]_promotionVars
<1> SUFFICES ASSUME PromotionInv, [PromotionNext]_promotionVars
             PROVE  PromotionInv' /\ [Proven]_promotionVars
  OBVIOUS
<1>1. CASE UNCHANGED promotionVars
  BY <1>1, OthersKeep DEF promotionVars
<1>2. CASE UserCommand
  BY <1>2, UserCommandKeeps DEF UserCommand, Proven
<1>3. CASE CandidateChanges
  BY <1>3, OthersKeep DEF CandidateChanges, Proven
<1>4. CASE \E job \in Jobs : CreateJob(job) \/ DeleteJob(job)
  BY <1>4, OthersKeep DEF CreateJob, DeleteJob, Proven
<1>5. CASE \E request \in Requests : ReplayPromotion(request)
  BY <1>5, OthersKeep DEF ReplayPromotion, Proven
<1>6. CASE \E request \in Requests : \E new \in NewJobs(request) : WritePromotion(request, new)
  BY <1>6, WritingKeeps, WritingIsProven
<1> QED BY <1>1, <1>2, <1>3, <1>4, <1>5, <1>6 DEF PromotionNext

\* However often a promotion is asked for, and whatever the commands of the user do beside
\* it, there is one promotion per version and depth, it names exactly the rows its depth
\* calls for, and no row it created is left without it (promotionService.ts:219).
THEOREM PromotionsAreOnceAndWhole == PromotionSpec => []PromotedWholeOnce
BY InvIsEnough, PromotionInitHolds, PromotionNextHolds, PTL DEF PromotionSpec

\* No promotion writes a deeper fact, or another event, than the trigger of its request
\* proves (TRIGGER_POLICY, promotionPlan.ts).
THEOREM PromotionsAreProven == PromotionSpec => ProgressIsProven
<1>1. PromotionSpec => [][Proven]_promotionVars
  BY PromotionInitHolds, PromotionNextHolds, PTL DEF PromotionSpec
<1> QED BY <1>1 DEF ProgressIsProven, Proven

-----------------------------------------------------------------------------
(* Rows that are joined to a log at once.                                   *)

\* They stand behind the others.
LEMMA LogsJoined ==
  ASSUME NEW Row, NEW log \in Seq(Row), NEW rows \in Seq(Row)
  PROVE  /\ log \o rows \in Seq(Row)
         /\ DOMAIN log \subseteq DOMAIN (log \o rows)
         /\ \A i \in DOMAIN log : (log \o rows)[i] = log[i]
         /\ \A j \in DOMAIN rows : /\ Len(log) + j \in DOMAIN (log \o rows)
                                   /\ Len(log) + j \notin DOMAIN log
                                   /\ (log \o rows)[Len(log) + j] = rows[j]
         /\ \A i \in DOMAIN (log \o rows) \ DOMAIN log : \E j \in DOMAIN rows : i = Len(log) + j
<1>1. ASSUME NEW i \in DOMAIN (log \o rows) \ DOMAIN log
      PROVE  i - Len(log) \in DOMAIN rows /\ i = Len(log) + (i - Len(log))
  OBVIOUS
<1>2. /\ log \o rows \in Seq(Row)
      /\ DOMAIN log \subseteq DOMAIN (log \o rows)
      /\ \A i \in DOMAIN log : (log \o rows)[i] = log[i]
      /\ \A j \in DOMAIN rows : /\ Len(log) + j \in DOMAIN (log \o rows)
                                /\ Len(log) + j \notin DOMAIN log
                                /\ (log \o rows)[Len(log) + j] = rows[j]
  OBVIOUS
<1> QED BY <1>1, <1>2

\* Each under a key of its own keeps the keys distinct.
LEMMA KeysJoined ==
  ASSUME NEW Row, NEW log \in Seq(Row), NEW rows \in Seq(Row), Distinct(log), Distinct(rows),
         \A i \in DOMAIN log : \A j \in DOMAIN rows : log[i].key # rows[j].key
  PROVE  Distinct(log \o rows)
<1> DEFINE more == log \o rows
<1>1. /\ \A i \in DOMAIN log : more[i] = log[i]
      /\ \A i \in DOMAIN more \ DOMAIN log : \E j \in DOMAIN rows : i = Len(log) + j /\ more[i] = rows[j]
  BY LogsJoined
<1> HIDE DEF more
<1>2. ASSUME NEW i \in DOMAIN more, NEW j \in DOMAIN more, more[i].key = more[j].key
      PROVE  i = j
  <2>1. CASE i \in DOMAIN log /\ j \in DOMAIN log
    BY <1>1, <1>2, <2>1 DEF Distinct
  <2>2. CASE i \notin DOMAIN log /\ j \notin DOMAIN log
    BY <1>1, <1>2, <2>2 DEF Distinct
  <2>3. CASE i \in DOMAIN log /\ j \notin DOMAIN log
    BY <1>1, <1>2, <2>3
  <2>4. CASE i \notin DOMAIN log /\ j \in DOMAIN log
    BY <1>1, <1>2, <2>4
  <2> QED BY <2>1, <2>2, <2>3, <2>4
<1>3. Distinct(more)
  BY <1>2 DEF Distinct
<1> QED BY <1>3 DEF more

\* What FlattenSeq computes of the first n of a line of logs, as the function it recurs on.
Flattens(f, seqs, n) ==
  f = [i \in 1..n |-> IF i = 1 THEN seqs[i] ELSE f[i - 1] \o seqs[i]]

\* One more of them.
LEMMA FlattensAt ==
  ASSUME NEW f, NEW seqs, NEW n, Flattens(f, seqs, n), NEW i \in 1..n
  PROVE  f[i] = IF i = 1 THEN seqs[i] ELSE f[i - 1] \o seqs[i]
<1> DEFINE h(k) == IF k = 1 THEN seqs[k] ELSE f[k - 1] \o seqs[k]
<1>1. f = [k \in 1..n |-> h(k)]
  BY DEF Flattens
<1> HIDE DEF h
<1>2. f[i] = h(i)
  BY <1>1
<1> QED BY <1>2 DEF h

\* There is such a function,
LEMMA FlattenExists ==
  ASSUME NEW seqs, NEW n \in Nat
  PROVE  \E f : Flattens(f, seqs, n)
<1> DEFINE Bad == {m \in Nat : ~\E f : Flattens(f, seqs, m)}
<1>1. SUFFICES Bad = {}
  OBVIOUS
<1>2. SUFFICES ASSUME Bad # {} PROVE FALSE
  OBVIOUS
<1>3. PICK m \in Bad : \A k \in Bad : m <= k
  BY <1>2, LeastNatural
<1>4. 0 \notin Bad
  <2>1. Flattens([i \in 1..0 |-> seqs[i]], seqs, 0)
    BY DEF Flattens
  <2> QED BY <2>1
<1>5. m \in Nat /\ m # 0 /\ m - 1 \in Nat /\ m - 1 \notin Bad
  BY <1>3, <1>4
<1>6. PICK f : Flattens(f, seqs, m - 1)
  BY <1>5
<1> DEFINE g == [i \in 1..m |-> IF i = 1 THEN seqs[i] ELSE f[i - 1] \o seqs[i]]
<1>7. \A i \in 1..m : i # 1 => i - 1 \in 1..(m - 1)
  BY <1>5
<1>8. \A j \in 1..(m - 1) : f[j] = g[j]
  <2>1. \A j \in 1..(m - 1) : j \in 1..m /\ f[j] = IF j = 1 THEN seqs[j] ELSE f[j - 1] \o seqs[j]
    BY <1>5, <1>6, FlattensAt
  <2> QED BY <2>1
<1> HIDE DEF Bad
<1>9. Flattens(g, seqs, m)
  <2>1. \A i \in 1..m : (IF i = 1 THEN seqs[i] ELSE f[i - 1] \o seqs[i])
                          = (IF i = 1 THEN seqs[i] ELSE g[i - 1] \o seqs[i])
    BY <1>7, <1>8
  <2>2. g = [i \in 1..m |-> IF i = 1 THEN seqs[i] ELSE g[i - 1] \o seqs[i]]
    BY <2>1
  <2> HIDE DEF g
  <2> QED BY <2>2 DEF Flattens
<1> QED BY <1>3, <1>9 DEF Bad

\* FlattenSeq passes through joins of one log more.
LEMMA FlattenPasses ==
  ASSUME NEW Log, NEW seqs \in Seq(Log), NEW n \in Nat \ {0}, n = Len(seqs)
  PROVE  \E f : /\ FlattenSeq(seqs) = f[n]
                /\ f[1] = seqs[1]
                /\ \A i \in 2..n : f[i] = f[i - 1] \o seqs[i]
<1> DEFINE f == CHOOSE f : Flattens(f, seqs, n)
<1>1. FlattenSeq(seqs) = f[n]
  BY DEF FlattenSeq, Flattens
<1>2. Flattens(f, seqs, n)
  BY FlattenExists
<1> HIDE DEF f
<1>3. f[1] = seqs[1] /\ \A i \in 2..n : f[i] = f[i - 1] \o seqs[i]
  <2>1. 1 \in 1..n /\ \A i \in 2..n : i \in 1..n /\ i # 1
    OBVIOUS
  <2>2. \A i \in 1..n : f[i] = IF i = 1 THEN seqs[i] ELSE f[i - 1] \o seqs[i]
    BY <1>2, FlattensAt
  <2>3. f[1] = seqs[1]
    BY <2>1, <2>2
  <2>4. ASSUME NEW i \in 2..n PROVE f[i] = f[i - 1] \o seqs[i]
    BY <2>1, <2>2
  <2> QED BY <2>3, <2>4
<1> QED BY <1>1, <1>3

\* A line of logs whose keys are all distinct.
Apart(Row, seqs, n) ==
  /\ \A k \in 1..n : seqs[k] \in Seq(Row) /\ Distinct(seqs[k])
  /\ \A k, l \in 1..n : \A i \in DOMAIN seqs[k] : \A j \in DOMAIN seqs[l] :
       seqs[k][i].key = seqs[l][j].key => k = l

\* A log is made of the rows of the first n.
Gathers(Row, flat, seqs, n) ==
  /\ flat \in Seq(Row) /\ Distinct(flat)
  /\ \A i \in DOMAIN flat : \E k \in 1..n : \E j \in DOMAIN seqs[k] : flat[i] = seqs[k][j]
  /\ \A k \in 1..n : \A j \in DOMAIN seqs[k] : \E i \in DOMAIN flat : flat[i] = seqs[k][j]

\* One more of them joins.
LEMMA GathersOneMore ==
  ASSUME NEW Row, NEW seqs, NEW n \in Nat, Apart(Row, seqs, n + 1),
         NEW flat, Gathers(Row, flat, seqs, n)
  PROVE  Gathers(Row, flat \o seqs[n + 1], seqs, n + 1)
<1> DEFINE rows == seqs[n + 1]
           more == flat \o rows
<1>1. rows \in Seq(Row) /\ Distinct(rows) /\ flat \in Seq(Row) /\ Distinct(flat)
  BY DEF Apart, Gathers
<1>2. 1..(n + 1) = 1..n \cup {n + 1} /\ n + 1 \notin 1..n /\ n + 1 \in 1..(n + 1)
  OBVIOUS
<1>3. \A i \in DOMAIN flat : \A j \in DOMAIN rows : flat[i].key # rows[j].key
  BY <1>2 DEF Apart, Gathers
<1> HIDE DEF rows
<1>4. more \in Seq(Row) /\ Distinct(more)
  BY <1>1, <1>3, LogsJoined, KeysJoined
<1>5. /\ DOMAIN flat \subseteq DOMAIN more
      /\ \A i \in DOMAIN flat : more[i] = flat[i]
      /\ \A j \in DOMAIN rows : Len(flat) + j \in DOMAIN more /\ more[Len(flat) + j] = rows[j]
      /\ \A i \in DOMAIN more \ DOMAIN flat : \E j \in DOMAIN rows : more[i] = rows[j]
  BY <1>1, LogsJoined
<1> HIDE DEF more
<1>6. ASSUME NEW i \in DOMAIN more
      PROVE  \E k \in 1..(n + 1) : \E j \in DOMAIN seqs[k] : more[i] = seqs[k][j]
  <2>1. CASE i \in DOMAIN flat
    BY <1>2, <1>5, <2>1 DEF Gathers
  <2>2. CASE i \notin DOMAIN flat
    BY <1>2, <1>5, <1>6, <2>2 DEF rows
  <2> QED BY <2>1, <2>2
<1>7. ASSUME NEW k \in 1..(n + 1), NEW j \in DOMAIN seqs[k]
      PROVE  \E i \in DOMAIN more : more[i] = seqs[k][j]
  <2>1. CASE k \in 1..n
    <3>1. PICK i \in DOMAIN flat : flat[i] = seqs[k][j]
      BY <2>1 DEF Gathers
    <3> QED BY <1>5, <3>1
  <2>2. CASE k = n + 1
    BY <1>5, <2>2 DEF rows
  <2> QED BY <1>2, <2>1, <2>2
<1>8. Gathers(Row, more, seqs, n + 1)
  BY <1>4, <1>6, <1>7 DEF Gathers
<1> QED BY <1>8 DEF more, rows

\* FlattenSeq gathers them all.
LEMMA FlattenGathers ==
  ASSUME NEW Row, NEW n \in Nat, NEW Log, NEW seqs \in Seq(Log), n = Len(seqs), Apart(Row, seqs, n)
  PROVE  Gathers(Row, FlattenSeq(seqs), seqs, n)
<1>1. CASE n = 0
  <2>1. FlattenSeq(seqs) = seqs /\ seqs = << >>
    <3>1. Len(seqs) = 0
      BY <1>1
    <3>2. FlattenSeq(seqs) = seqs
      BY <3>1, Zenon DEF FlattenSeq
    <3> QED BY <3>1, <3>2
  <2>2. << >> \in Seq(Row) /\ DOMAIN << >> = {} /\ 1..n = {}
    BY <1>1
  <2> QED BY <2>1, <2>2 DEF Gathers, Distinct
<1>2. CASE n # 0
  <2>1. PICK f : /\ FlattenSeq(seqs) = f[n]
                 /\ f[1] = seqs[1]
                 /\ \A i \in 2..n : f[i] = f[i - 1] \o seqs[i]
    <3>1. n \in Nat \ {0}
      BY <1>2
    <3> QED BY <3>1, FlattenPasses
  <2> DEFINE Bad == {m \in Nat : m \in 1..n /\ ~Gathers(Row, f[m], seqs, m)}
  <2>2. ASSUME NEW m \in 1..n PROVE Apart(Row, seqs, m)
    <3>1. 1..m \subseteq 1..n
      OBVIOUS
    <3> QED BY <3>1 DEF Apart
  <2>3. 1 \notin Bad
    <3>1. 1 \in 1..n
      BY <1>2
    <3>2. seqs[1] \in Seq(Row) /\ Distinct(seqs[1])
      BY <3>1 DEF Apart
    <3>3. 1..1 = {1}
      OBVIOUS
    <3>4. Gathers(Row, seqs[1], seqs, 1)
      BY <3>2, <3>3 DEF Gathers
    <3> QED BY <2>1, <3>4
  <2>4. SUFFICES ASSUME Bad # {} PROVE FALSE
    <3>1. n \in 1..n
      BY <1>2
    <3> QED BY <2>1, <3>1
  <2>5. PICK m \in Bad : \A k \in Bad : m <= k
    <3>1. Bad \in SUBSET Nat
      OBVIOUS
    <3> HIDE DEF Bad
    <3> QED BY <2>4, <3>1, LeastNatural
  <2>6. m \in 2..n /\ m - 1 \in Nat /\ m - 1 \in 1..n /\ m - 1 \notin Bad /\ (m - 1) + 1 = m
    BY <2>3, <2>5
  <2>7. Gathers(Row, f[m - 1], seqs, m - 1)
    BY <2>6
  <2> DEFINE p == m - 1
  <2>8. p \in Nat /\ m = p + 1 /\ Gathers(Row, f[p], seqs, p) /\ Apart(Row, seqs, p + 1)
    BY <2>2, <2>6, <2>7
  <2> HIDE DEF p
  <2>9. Gathers(Row, f[p] \o seqs[p + 1], seqs, p + 1)
    BY <2>8, GathersOneMore
  <2>10. f[m] = f[m - 1] \o seqs[m]
    BY <2>1, <2>6
  <2>11. Gathers(Row, f[m], seqs, m)
    BY <2>8, <2>9, <2>10 DEF p
  <2> QED BY <2>5, <2>11
<1> QED BY <1>1, <1>2

-----------------------------------------------------------------------------
(* A confirmation.                                                          *)

\* The drafts and notes, and what they refer to.
DraftsTyped ==
  /\ limit \in [drafts : 0..Len(DraftJobs), edits : Nat, notes : Nat, start : Nat, end : Nat]
  /\ session \in [status : {"none", "draft", "preview_generated", "confirmed", "discarded"},
                  version : Nat, writes : Nat]
  /\ drafts \in Seq(Draft \cup {None}) /\ Len(drafts) <= limit.drafts
  /\ notes \in Seq(Note \cup {None})
  /\ \A d \in LiveDrafts : drafts[d].form.dup \in {0} \cup LiveDrafts
  /\ \A n \in LiveNotes : notes[n].draft \in LiveDrafts

\* Those that are there are of their types, and each stands for a job.
LEMMA LiveAreTyped ==
  ASSUME DraftsTyped
  PROVE  /\ LiveDrafts \in SUBSET DOMAIN drafts /\ LiveNotes \in SUBSET DOMAIN notes
         /\ IsFiniteSet(LiveDrafts) /\ IsFiniteSet(LiveNotes)
         /\ \A d \in LiveDrafts : drafts[d] \in Draft /\ d \in 1..Len(DraftJobs) /\ DraftJobs[d] \in Jobs
         /\ \A n \in LiveNotes : notes[n] \in Note /\ n \in Nat
<1>1. LiveDrafts \in SUBSET DOMAIN drafts /\ LiveNotes \in SUBSET DOMAIN notes
  BY DEF LiveDrafts, LiveNotes
<1>2. drafts \in Seq(Draft \cup {None}) /\ notes \in Seq(Note \cup {None})
  BY DEF DraftsTyped
<1>3. IsFiniteSet(LiveDrafts) /\ IsFiniteSet(LiveNotes)
  BY <1>1, <1>2, PlacesAreFinite
<1>4. /\ \A d \in DOMAIN drafts : drafts[d] \in Draft \cup {None} /\ d \in 1..Len(drafts)
      /\ \A n \in DOMAIN notes : notes[n] \in Note \cup {None} /\ n \in Nat
  BY <1>2
<1>5. /\ \A d \in LiveDrafts : drafts[d] \in Draft /\ d \in 1..Len(drafts)
      /\ \A n \in LiveNotes : notes[n] \in Note /\ n \in Nat
  BY <1>4 DEF LiveDrafts, LiveNotes
<1>6. DraftJobs \in Seq(Jobs)
  BY HistoryImportAssumption
<1>7. Len(drafts) \in Nat /\ limit.drafts \in 0..Len(DraftJobs) /\ Len(drafts) <= limit.drafts
  BY <1>2 DEF DraftsTyped
<1>8. \A d \in LiveDrafts : d \in 1..Len(DraftJobs) /\ DraftJobs[d] \in Jobs
  BY <1>5, <1>6, <1>7
<1> QED BY <1>1, <1>3, <1>5, <1>8

\* The drafts are listed once each.
LEMMA ListedOnce ==
  ASSUME DraftsTyped, NEW S \in SUBSET LiveDrafts
  PROVE  /\ Listed(S) \in Seq(S)
         /\ \A d \in S : \E k \in DOMAIN Listed(S) : Listed(S)[k] = d
         /\ \A k, l \in DOMAIN Listed(S) : Listed(S)[k] = Listed(S)[l] => k = l
<1> DEFINE R == {p \in S \X S : \/ drafts[p[1]].updated > drafts[p[2]].updated
                                \/ drafts[p[1]].updated = drafts[p[2]].updated /\ p[1] > p[2]}
<1>1. IsFiniteSet(S)
  BY LiveAreTyped, FS_Subset
<1>2. \A d \in S : d \in Nat /\ drafts[d].updated \in Nat
  <2>1. \A d \in S : d \in Nat /\ drafts[d] \in Draft
    BY LiveAreTyped
  <2> QED BY <2>1 DEF Draft
<1>3. \A d, e \in S : <<d, e>> \in R <=> \/ drafts[d].updated > drafts[e].updated
                                         \/ drafts[d].updated = drafts[e].updated /\ d > e
  OBVIOUS
<1> HIDE DEF R
<1>4. \A d \in S : <<d, d>> \notin R
  BY <1>2, <1>3
<1>5. \A d, e \in S : d # e => <<d, e>> \in R \/ <<e, d>> \in R
  BY <1>2, <1>3
<1>6. \A d, e, f \in S : <<d, e>> \in R /\ <<e, f>> \in R => <<d, f>> \in R
  BY <1>2, <1>3
<1>7. Orders(R, S)
  BY <1>4, <1>5, <1>6 DEF Orders
<1>8. Listed(S) = InOrder(S, R)
  BY DEF Listed, R
<1> QED BY <1>1, <1>7, <1>8, InOrderSorts

\* So are the drafts that become applications,
LEMMA AppliedOnce ==
  ASSUME DraftsTyped
  PROVE  /\ Applied \in Seq(LiveDrafts)
         /\ \A k, l \in DOMAIN Applied : Applied[k] = Applied[l] => k = l
<1> DEFINE S == {d \in KeptDrafts : drafts[d].form.applied}
<1>1. S \in SUBSET LiveDrafts
  BY DEF KeptDrafts
<1> HIDE DEF S
<1>2. Listed(S) \in Seq(S) /\ \A k, l \in DOMAIN Listed(S) : Listed(S)[k] = Listed(S)[l] => k = l
  BY <1>1, ListedOnce
<1>3. Applied = Listed(S)
  BY DEF Applied, S
<1>4. Listed(S) \in Seq(LiveDrafts)
  BY <1>1, <1>2
<1> QED BY <1>2, <1>3, <1>4

\* and the notes about each.
LEMMA NotesOnce ==
  ASSUME DraftsTyped, NEW d
  PROVE  LET S == {n \in LiveNotes : notes[n].draft = d}
         IN  /\ NotesOf(d) \in Seq(S)
             /\ \A n \in S : \E k \in DOMAIN NotesOf(d) : NotesOf(d)[k] = n
             /\ \A k, l \in DOMAIN NotesOf(d) : NotesOf(d)[k] = NotesOf(d)[l] => k = l
<1> DEFINE S == {n \in LiveNotes : notes[n].draft = d}
           R == {p \in S \X S : Before(notes, p[1], p[2])}
<1>1. IsFiniteSet(S)
  BY LiveAreTyped, FS_Subset
<1>2. S \in SUBSET Nat /\ \A n \in S : notes[n].at \in Nat
  <2>1. \A n \in S : n \in Nat /\ notes[n] \in Note
    BY LiveAreTyped
  <2> QED BY <2>1, TypesOfEvents DEF Note
<1>3. NotesOf(d) = InOrder(S, R)
  BY DEF NotesOf, BusinessOrder
<1> HIDE DEF S
<1>4. Orders(R, S)
  BY <1>2, BeforeIsOrder
<1> HIDE DEF R
<1>5. /\ NotesOf(d) \in Seq(S)
      /\ \A n \in S : \E k \in DOMAIN NotesOf(d) : NotesOf(d)[k] = n
      /\ \A k, l \in DOMAIN NotesOf(d) : NotesOf(d)[k] = NotesOf(d)[l] => k = l
  BY <1>1, <1>3, <1>4, InOrderSorts
<1> QED BY <1>5 DEF S

\* The keys of what a confirmation makes.
ImportWords == {"imported application", "imported created", "imported event"}

LEMMA ImportKeys ==
  ASSUME NEW word \in ImportWords, NEW id \in Nat
  PROVE  /\ ImportKey(word, id) \in DerivedKeys
         /\ ImportKey(word, id)[2] = word
         /\ ImportKey(word, id)[3] = id
<1>1. word \in Words /\ None \in Keys \cup {None} /\ 0 \in Nat
  BY DEF Words, ImportWords
<1>2. <<None, word, id, 0>> \in DerivedKeys
  BY <1>1, DerivedKey
<1> QED BY <1>2 DEF ImportKey

\* The rows that are made of the drafts.
NewRows == [k \in DOMAIN Applied |-> CreateApplicationFromDraft(Applied[k])]

\* They are applications, with keys of their own, to the jobs of the drafts.
LEMMA RowsMade ==
  ASSUME DraftsTyped
  PROVE  /\ NewRows \in Seq(Application) /\ DOMAIN NewRows = DOMAIN Applied
         /\ Distinct(NewRows)
         /\ \A k \in DOMAIN Applied :
              /\ NewRows[k].key = ImportKey("imported application", Applied[k])
              /\ NewRows[k].key[2] = "imported application"
              /\ NewRows[k].job = DraftJobs[Applied[k]]
              /\ NewRows[k].voided = FALSE /\ NewRows[k].superseded = 0
<1>1. Applied \in Seq(LiveDrafts) /\ \A k, l \in DOMAIN Applied : Applied[k] = Applied[l] => k = l
  BY AppliedOnce
<1>2. \A k \in DOMAIN Applied : Applied[k] \in LiveDrafts
  BY <1>1
<1>3. ASSUME NEW d \in LiveDrafts
      PROVE  /\ CreateApplicationFromDraft(d) \in Application
             /\ CreateApplicationFromDraft(d).key = ImportKey("imported application", d)
             /\ CreateApplicationFromDraft(d).job = DraftJobs[d]
             /\ CreateApplicationFromDraft(d).voided = FALSE
             /\ CreateApplicationFromDraft(d).superseded = 0
  <2>1. drafts[d] \in Draft /\ DraftJobs[d] \in Jobs /\ d \in Nat
    BY LiveAreTyped
  <2>2. drafts[d].resume \in Resumes \cup {None}
    BY <2>1 DEF Draft
  <2>3. ImportKey("imported application", d) \in DerivedKeys
    BY <2>1, ImportKeys DEF ImportWords
  <2> QED BY <2>1, <2>2, <2>3 DEF CreateApplicationFromDraft, Application
<1>4. /\ DOMAIN NewRows = DOMAIN Applied
      /\ \A k \in DOMAIN Applied : NewRows[k] = CreateApplicationFromDraft(Applied[k])
  BY DEF NewRows
<1>5. NewRows \in Seq(Application)
  <2>1. PICK n \in Nat : DOMAIN Applied = 1..n
    BY <1>1
  <2>2. NewRows \in [1..n -> Application]
    BY <1>2, <1>3, <2>1 DEF NewRows
  <2> QED BY <2>2
<1>6. \A k \in DOMAIN Applied : /\ NewRows[k].key = ImportKey("imported application", Applied[k])
                                /\ NewRows[k].key[2] = "imported application"
                                /\ NewRows[k].key[3] = Applied[k]
  <2>1. ASSUME NEW d \in LiveDrafts
        PROVE  /\ ImportKey("imported application", d)[2] = "imported application"
               /\ ImportKey("imported application", d)[3] = d
    <3>1. d \in Nat /\ "imported application" \in ImportWords
      BY LiveAreTyped DEF ImportWords
    <3> QED BY <3>1, ImportKeys
  <2>2. ASSUME NEW k \in DOMAIN Applied
        PROVE  /\ NewRows[k].key = ImportKey("imported application", Applied[k])
               /\ NewRows[k].key[2] = "imported application"
               /\ NewRows[k].key[3] = Applied[k]
    <3>1. Applied[k] \in LiveDrafts /\ NewRows[k].key = ImportKey("imported application", Applied[k])
      BY <1>2, <1>3, <1>4
    <3> QED BY <2>1, <3>1
  <2> QED BY <2>2
<1>7. Distinct(NewRows)
  <2>1. \A k \in DOMAIN Applied : NewRows[k].key[3] = Applied[k]
    BY <1>6
  <2>2. ASSUME NEW k \in DOMAIN Applied, NEW l \in DOMAIN Applied, NewRows[k].key = NewRows[l].key
        PROVE  k = l
    <3>1. Applied[k] = Applied[l]
      BY <2>1, <2>2
    <3> QED BY <1>1, <3>1
  <2> QED BY <1>4, <2>2 DEF Distinct
<1>8. ASSUME NEW k \in DOMAIN Applied
      PROVE  /\ NewRows[k].job = DraftJobs[Applied[k]]
             /\ NewRows[k].voided = FALSE /\ NewRows[k].superseded = 0
  <2>1. Applied[k] \in LiveDrafts /\ NewRows[k] = CreateApplicationFromDraft(Applied[k])
    BY <1>2, <1>4
  <2> QED BY <1>3, <2>1
<1> QED BY <1>4, <1>5, <1>6, <1>7, <1>8

\* An event that a note about a draft becomes.
OfNote(e, a, n) ==
  /\ e.app = a /\ e.type = notes[n].type /\ e.at = notes[n].at
  /\ e.key = ImportKey("imported event", n)

\* It is one that voids nothing.
LEMMA NoteMade ==
  ASSUME DraftsTyped, NEW a \in Nat, NEW n \in LiveNotes
  PROVE  LET e == MakeFeedbackEvent(a, notes[n].type, notes[n].at, 0, ImportKey("imported event", n))
         IN  e \in Event /\ Plain(e) /\ OfNote(e, a, n)
<1> DEFINE type == notes[n].type
           at == notes[n].at
           key == ImportKey("imported event", n)
           e == MakeFeedbackEvent(a, type, at, 0, key)
<1>1. notes[n] \in Note /\ n \in Nat
  BY LiveAreTyped
<1>2. type \in UserTypes /\ at \in Times
  BY <1>1 DEF Note
<1>3. type \in EventTypes /\ at \in Nat
  BY <1>2, TypesOfEvents
<1>4. type \notin {"event_voided", "application_voided", "legacy_status_imported"}
  BY <1>2, UsersVoidNothing
<1>5. key \in DerivedKeys
  BY <1>1, ImportKeys DEF ImportWords
<1> HIDE DEF type, at, key
<1>6. e \in Event
  BY <1>3, <1>5, EventType
<1>7. e.app = a /\ e.type = type /\ e.at = at /\ e.target = 0 /\ e.key = key
  BY DEF MakeFeedbackEvent
<1> HIDE DEF e
<1>8. Plain(e) /\ OfNote(e, a, n)
  BY <1>4, <1>7 DEF Plain, OfNote, type, at, key
<1> QED BY <1>6, <1>8 DEF e, type, at, key

\* The events of one draft after the one that says it was created.
LEMMA NotesMade ==
  ASSUME DraftsTyped, NEW a \in Nat, NEW d
  PROVE  LET made == MaterializeEventDrafts(a, d)
         IN  /\ made \in Seq(Event)
             /\ \A j \in DOMAIN made : /\ Plain(made[j])
                                       /\ \E n \in LiveNotes : notes[n].draft = d /\ OfNote(made[j], a, n)
             /\ \A n \in LiveNotes : notes[n].draft = d => \E j \in DOMAIN made : OfNote(made[j], a, n)
             /\ Distinct(made)
<1> DEFINE S == {n \in LiveNotes : notes[n].draft = d}
           made == MaterializeEventDrafts(a, d)
           e(n) == MakeFeedbackEvent(a, notes[n].type, notes[n].at, 0, ImportKey("imported event", n))
<1>1. /\ NotesOf(d) \in Seq(S)
      /\ \A n \in S : \E k \in DOMAIN NotesOf(d) : NotesOf(d)[k] = n
      /\ \A k, l \in DOMAIN NotesOf(d) : NotesOf(d)[k] = NotesOf(d)[l] => k = l
  BY NotesOnce
<1>2. DOMAIN made = DOMAIN NotesOf(d) /\ \A j \in DOMAIN made : made[j] = e(NotesOf(d)[j])
  BY DEF MaterializeEventDrafts
<1>3. \A n \in S : e(n) \in Event /\ Plain(e(n)) /\ OfNote(e(n), a, n)
  BY NoteMade
<1>4. \A n \in S : n \in LiveNotes /\ notes[n].draft = d
  OBVIOUS
<1>5. \A n \in LiveNotes : notes[n].draft = d => n \in S
  OBVIOUS
<1>6. made = [j \in DOMAIN NotesOf(d) |-> e(NotesOf(d)[j])]
  BY DEF MaterializeEventDrafts
<1> HIDE DEF S, e, made
<1>7. \A j \in DOMAIN NotesOf(d) : NotesOf(d)[j] \in S
  BY <1>1
<1>8. made \in Seq(Event)
  <2>1. PICK m \in Nat : DOMAIN NotesOf(d) = 1..m
    BY <1>1
  <2>2. \A j \in 1..m : e(NotesOf(d)[j]) \in Event
    BY <1>3, <1>7, <2>1
  <2>3. made \in [1..m -> Event]
    BY <1>6, <2>1, <2>2
  <2> QED BY <2>3
<1>9. ASSUME NEW j \in DOMAIN made
      PROVE  Plain(made[j]) /\ \E n \in LiveNotes : notes[n].draft = d /\ OfNote(made[j], a, n)
  BY <1>2, <1>3, <1>4, <1>7
<1>10. ASSUME NEW n \in LiveNotes, notes[n].draft = d
       PROVE  \E j \in DOMAIN made : OfNote(made[j], a, n)
  <2>1. PICK k \in DOMAIN NotesOf(d) : NotesOf(d)[k] = n
    BY <1>1, <1>5, <1>10
  <2> QED BY <1>2, <1>3, <1>5, <1>10, <2>1
<1>11. Distinct(made)
  <2>1. ASSUME NEW n \in S PROVE e(n).key[3] = n
    <3>1. n \in Nat /\ "imported event" \in ImportWords
      BY <1>4, <2>1, LiveAreTyped DEF ImportWords
    <3>2. ImportKey("imported event", n)[3] = n
      BY <3>1, ImportKeys
    <3> QED BY <1>3, <2>1, <3>2 DEF OfNote
  <2>2. ASSUME NEW j \in DOMAIN made, NEW k \in DOMAIN made, made[j].key = made[k].key
        PROVE  j = k
    <3>1. NotesOf(d)[j] = NotesOf(d)[k]
      BY <1>2, <1>7, <2>1, <2>2
    <3> QED BY <1>1, <1>2, <3>1
  <2> QED BY <2>2 DEF Distinct
<1>12. /\ made \in Seq(Event)
       /\ \A j \in DOMAIN made : /\ Plain(made[j])
                                 /\ \E n \in LiveNotes : notes[n].draft = d /\ OfNote(made[j], a, n)
       /\ \A n \in LiveNotes : notes[n].draft = d => \E j \in DOMAIN made : OfNote(made[j], a, n)
       /\ Distinct(made)
  BY <1>8, <1>9, <1>10, <1>11
<1> QED BY <1>12 DEF made

\* An event about the application that the k-th draft becomes.
OfDraft(e, k) ==
  /\ e.app = Len(applications) + k /\ Plain(e)
  /\ \/ e.key = ImportKey("imported created", Applied[k])
     \/ \E n \in LiveNotes : notes[n].draft = Applied[k] /\ e.key = ImportKey("imported event", n)

\* The first of them records that it was created.
LEMMA CreatedMade ==
  ASSUME DraftsTyped, NEW a \in Nat, NEW d \in Nat
  PROVE  LET e == MakeFeedbackEvent(a, "application_created", Now, 0, ImportKey("imported created", d))
         IN  /\ e \in Event /\ Plain(e) /\ e.app = a
             /\ e.key = ImportKey("imported created", d)
<1> DEFINE key == ImportKey("imported created", d)
           now == Now
           e == MakeFeedbackEvent(a, "application_created", now, 0, key)
<1>1. key \in DerivedKeys
  BY ImportKeys DEF ImportWords
<1>2. now \in Nat /\ "application_created" \in EventTypes
  BY TypesOfEvents
<1> HIDE DEF key, now
<1>3. e \in Event
  BY <1>1, <1>2, EventType
<1>4. e.app = a /\ e.type = "application_created" /\ e.target = 0 /\ e.key = key
  BY DEF MakeFeedbackEvent
<1> HIDE DEF e
<1>5. Plain(e)
  BY <1>4 DEF Plain
<1> QED BY <1>3, <1>4, <1>5 DEF e, key, now

\* A log of one row.
LEMMA OneRow ==
  ASSUME NEW Row, NEW row \in Row
  PROVE  <<row>> \in Seq(Row) /\ DOMAIN <<row>> = {1} /\ <<row>>[1] = row
<1>1. DOMAIN <<row>> = 1..1 /\ 1..1 = {1}
  OBVIOUS
<1>2. <<row>> \in Seq(Row) /\ <<row>>[1] = row
  OBVIOUS
<1> QED BY <1>1, <1>2

\* All the events of one draft.
LEMMA BlockMade ==
  ASSUME DraftsTyped, LogTyped, NEW k \in DOMAIN Applied
  PROVE  LET made == EventsFromDraft(k)
         IN  /\ made \in Seq(Event) /\ Distinct(made)
             /\ \A j \in DOMAIN made : OfDraft(made[j], k)
             /\ \A n \in LiveNotes : notes[n].draft = Applied[k] =>
                  \E j \in DOMAIN made : OfNote(made[j], Len(applications) + k, n)
<1> DEFINE a == Len(applications) + k
           d == Applied[k]
           first == MakeFeedbackEvent(a, "application_created", Now, 0, ImportKey("imported created", d))
           rest == MaterializeEventDrafts(a, d)
<1>1. a \in Nat /\ d \in LiveDrafts /\ d \in Nat
  <2>1. Applied \in Seq(LiveDrafts)
    BY AppliedOnce
  <2>2. k \in Nat /\ d \in LiveDrafts
    BY <2>1
  <2>3. Len(applications) \in Nat
    BY DEF LogTyped
  <2> QED BY <2>2, <2>3, LiveAreTyped
<1>2. EventsFromDraft(k) = <<first>> \o rest
  BY DEF EventsFromDraft
<1> HIDE DEF a, d
<1>3. first \in Event /\ Plain(first) /\ first.app = a /\ first.key = ImportKey("imported created", d)
  BY <1>1, CreatedMade
<1>4. /\ rest \in Seq(Event)
      /\ \A j \in DOMAIN rest : /\ Plain(rest[j])
                                /\ \E n \in LiveNotes : notes[n].draft = d /\ OfNote(rest[j], a, n)
      /\ \A n \in LiveNotes : notes[n].draft = d => \E j \in DOMAIN rest : OfNote(rest[j], a, n)
      /\ Distinct(rest)
  BY <1>1, NotesMade
<1> HIDE DEF first, rest
<1> DEFINE one == <<first>>
           made == one \o rest
<1>5. one \in Seq(Event) /\ DOMAIN one = {1} /\ one[1] = first
  BY <1>3, OneRow
<1>9. EventsFromDraft(k) = made
  BY <1>2
<1> HIDE DEF one
<1>6. /\ made \in Seq(Event)
      /\ \A i \in DOMAIN made : made[i] = first \/ \E j \in DOMAIN rest : made[i] = rest[j]
      /\ \A j \in DOMAIN rest : \E i \in DOMAIN made : made[i] = rest[j]
  <2>1. /\ one \o rest \in Seq(Event)
        /\ \A i \in DOMAIN one : (one \o rest)[i] = one[i]
        /\ \A j \in DOMAIN rest : Len(one) + j \in DOMAIN (one \o rest)
                                  /\ (one \o rest)[Len(one) + j] = rest[j]
        /\ \A i \in DOMAIN (one \o rest) \ DOMAIN one : \E j \in DOMAIN rest : i = Len(one) + j
    BY <1>4, <1>5, LogsJoined
  <2> HIDE DEF made
  <2>2. made = one \o rest
    BY DEF made
  <2>3. ASSUME NEW i \in DOMAIN made
        PROVE  made[i] = first \/ \E j \in DOMAIN rest : made[i] = rest[j]
    <3>1. CASE i \in DOMAIN one
      BY <1>5, <2>1, <2>2, <3>1
    <3>2. CASE i \notin DOMAIN one
      BY <2>1, <2>2, <2>3, <3>2
    <3> QED BY <3>1, <3>2
  <2>4. \A j \in DOMAIN rest : \E i \in DOMAIN made : made[i] = rest[j]
    BY <2>1, <2>2
  <2> QED BY <2>1, <2>2, <2>3, <2>4
<1>7. \A j \in DOMAIN rest : rest[j].key # first.key
  <2>1. ASSUME NEW n \in LiveNotes
        PROVE  ImportKey("imported event", n) # ImportKey("imported created", d)
    <3>1. n \in Nat
      BY LiveAreTyped
    <3>2. ImportKey("imported event", n)[2] = "imported event"
      BY <3>1, ImportKeys DEF ImportWords
    <3>3. ImportKey("imported created", d)[2] = "imported created"
      BY <1>1, ImportKeys DEF ImportWords
    <3> QED BY <3>2, <3>3
  <2>2. ASSUME NEW j \in DOMAIN rest PROVE rest[j].key # first.key
    <3>1. PICK n \in LiveNotes : OfNote(rest[j], a, n)
      BY <1>4
    <3>2. rest[j].key = ImportKey("imported event", n)
      BY <3>1 DEF OfNote
    <3> QED BY <1>3, <2>1, <3>2
  <2> QED BY <2>2
<1>8. Distinct(made)
  <2>1. Distinct(one)
    BY <1>5 DEF Distinct
  <2>2. \A i \in DOMAIN one : \A j \in DOMAIN rest : one[i].key # rest[j].key
    BY <1>5, <1>7
  <2> QED BY <1>4, <1>5, <2>1, <2>2, KeysJoined
<1> HIDE DEF made
<1>10. \A j \in DOMAIN rest : rest[j].app = a /\ \E n \in LiveNotes :
          notes[n].draft = d /\ rest[j].key = ImportKey("imported event", n)
  BY <1>4 DEF OfNote
<1>11. ASSUME NEW i \in DOMAIN made PROVE OfDraft(made[i], k)
  <2>1. CASE made[i] = first
    BY <1>3, <2>1 DEF OfDraft, a, d
  <2>2. CASE \E j \in DOMAIN rest : made[i] = rest[j]
    BY <1>4, <1>10, <2>2 DEF OfDraft, a, d
  <2> QED BY <1>6, <1>11, <2>1, <2>2
<1>12. ASSUME NEW n \in LiveNotes, notes[n].draft = d
       PROVE  \E i \in DOMAIN made : OfNote(made[i], a, n)
  <2>1. PICK j \in DOMAIN rest : OfNote(rest[j], a, n)
    BY <1>4, <1>12
  <2>2. PICK i \in DOMAIN made : made[i] = rest[j]
    BY <1>6, <2>1
  <2> QED BY <2>1, <2>2
<1>13. /\ made \in Seq(Event) /\ Distinct(made)
       /\ \A j \in DOMAIN made : OfDraft(made[j], k)
       /\ \A n \in LiveNotes : notes[n].draft = d => \E j \in DOMAIN made : OfNote(made[j], a, n)
  BY <1>6, <1>8, <1>11, <1>12
<1> QED BY <1>9, <1>13 DEF a, d

\* The key of an event names the draft it was made of.
LEMMA KeysApart ==
  ASSUME DraftsTyped, NEW k \in DOMAIN Applied, NEW l \in DOMAIN Applied,
         NEW e, NEW f, OfDraft(e, k), OfDraft(f, l), e.key = f.key
  PROVE  k = l
<1>1. /\ Applied[k] \in LiveDrafts /\ Applied[l] \in LiveDrafts
      /\ Applied[k] = Applied[l] => k = l
  BY AppliedOnce
<1>2. Applied[k] \in Nat /\ Applied[l] \in Nat
  BY <1>1, LiveAreTyped
<1>3. \A id \in Nat : /\ ImportKey("imported created", id)[2] = "imported created"
                      /\ ImportKey("imported created", id)[3] = id
                      /\ ImportKey("imported event", id)[2] = "imported event"
                      /\ ImportKey("imported event", id)[3] = id
  BY ImportKeys DEF ImportWords
<1>4. CASE e.key = ImportKey("imported created", Applied[k])
  <2>1. e.key[2] = "imported created" /\ e.key[3] = Applied[k]
    BY <1>2, <1>3, <1>4
  <2>2. CASE f.key = ImportKey("imported created", Applied[l])
    <3>1. f.key[3] = Applied[l]
      BY <1>2, <1>3, <2>2
    <3> QED BY <1>1, <2>1, <3>1
  <2>3. ASSUME NEW n \in LiveNotes, f.key = ImportKey("imported event", n) PROVE FALSE
    <3>1. n \in Nat
      BY LiveAreTyped
    <3>2. f.key[2] = "imported event"
      BY <1>3, <2>3, <3>1
    <3> QED BY <2>1, <3>2
  <2> QED BY <2>2, <2>3 DEF OfDraft
<1>5. ASSUME NEW n \in LiveNotes, notes[n].draft = Applied[k], e.key = ImportKey("imported event", n)
      PROVE  k = l
  <2>1. n \in Nat
    BY LiveAreTyped
  <2>2. e.key[2] = "imported event" /\ e.key[3] = n
    BY <1>3, <1>5, <2>1
  <2>3. CASE f.key = ImportKey("imported created", Applied[l])
    <3>1. f.key[2] = "imported created"
      BY <1>2, <1>3, <2>3
    <3> QED BY <2>2, <3>1
  <2>4. ASSUME NEW m \in LiveNotes, notes[m].draft = Applied[l], f.key = ImportKey("imported event", m)
        PROVE  k = l
    <3>1. m \in Nat
      BY LiveAreTyped
    <3>2. f.key[3] = m
      BY <1>3, <2>4, <3>1
    <3>3. m = n
      BY <2>2, <3>2
    <3> QED BY <1>1, <1>5, <2>4, <3>3
  <2> QED BY <2>3, <2>4 DEF OfDraft
<1> QED BY <1>4, <1>5 DEF OfDraft

\* The events that are made of the notes.
NewEvents == FlattenSeq([k \in DOMAIN Applied |-> EventsFromDraft(k)])

\* Each event is of a draft, each note of a draft becomes one, and no key is used twice.
LEMMA EventsMade ==
  ASSUME DraftsTyped, LogTyped
  PROVE  /\ NewEvents \in Seq(Event) /\ Distinct(NewEvents)
         /\ \A i \in DOMAIN NewEvents : \E k \in DOMAIN Applied : OfDraft(NewEvents[i], k)
         /\ \A k \in DOMAIN Applied : \A n \in LiveNotes : notes[n].draft = Applied[k] =>
              \E i \in DOMAIN NewEvents : OfNote(NewEvents[i], Len(applications) + k, n)
<1> DEFINE seqs == [k \in DOMAIN Applied |-> EventsFromDraft(k)]
<1>1. PICK n \in Nat : DOMAIN Applied = 1..n
  BY AppliedOnce
<1>2. \A k \in 1..n : seqs[k] = EventsFromDraft(k)
  BY <1>1
<1>3. seqs \in Seq(Seq(Event)) /\ n = Len(seqs)
  <2>1. \A k \in 1..n : EventsFromDraft(k) \in Seq(Event)
    BY <1>1, BlockMade
  <2>2. seqs \in [1..n -> Seq(Event)]
    BY <1>1, <2>1
  <2> HIDE DEF seqs
  <2> QED BY <2>2
<1>4. NewEvents = FlattenSeq(seqs)
  BY DEF NewEvents
<1> HIDE DEF seqs
<1>5. Apart(Event, seqs, n)
  <2>1. \A k \in 1..n : seqs[k] \in Seq(Event) /\ Distinct(seqs[k])
    BY <1>1, <1>2, BlockMade
  <2>2. ASSUME NEW k \in 1..n, NEW l \in 1..n, NEW i \in DOMAIN seqs[k], NEW j \in DOMAIN seqs[l],
               seqs[k][i].key = seqs[l][j].key
        PROVE  k = l
    <3>1. OfDraft(seqs[k][i], k) /\ OfDraft(seqs[l][j], l)
      BY <1>1, <1>2, BlockMade
    <3> DEFINE e == seqs[k][i]
               f == seqs[l][j]
    <3>2. OfDraft(e, k) /\ OfDraft(f, l) /\ e.key = f.key
      BY <2>2, <3>1
    <3> HIDE DEF e, f
    <3> QED BY <1>1, <3>2, KeysApart
  <2> QED BY <2>1, <2>2 DEF Apart
<1>6. Gathers(Event, NewEvents, seqs, n)
  BY <1>3, <1>4, <1>5, FlattenGathers
<1>7. ASSUME NEW i \in DOMAIN NewEvents PROVE \E k \in DOMAIN Applied : OfDraft(NewEvents[i], k)
  <2>1. PICK k \in 1..n : \E j \in DOMAIN seqs[k] : NewEvents[i] = seqs[k][j]
    BY <1>6 DEF Gathers
  <2> QED BY <1>1, <1>2, <2>1, BlockMade
<1>8. ASSUME NEW k \in DOMAIN Applied, NEW m \in LiveNotes, notes[m].draft = Applied[k]
      PROVE  \E i \in DOMAIN NewEvents : OfNote(NewEvents[i], Len(applications) + k, m)
  <2>1. PICK j \in DOMAIN seqs[k] : OfNote(seqs[k][j], Len(applications) + k, m)
    BY <1>1, <1>2, <1>8, BlockMade
  <2>2. PICK i \in DOMAIN NewEvents : NewEvents[i] = seqs[k][j]
    BY <1>1, <1>6 DEF Gathers
  <2> QED BY <2>1, <2>2
<1> QED BY <1>6, <1>7, <1>8 DEF Gathers

\* No row was imported yet.
NothingImported ==
  /\ \A a \in DOMAIN applications : applications[a].key[2] \notin ImportWords
  /\ \A i \in DOMAIN events : events[i].key[2] \notin ImportWords

\* The application and the events that a draft became.
Became(d) ==
  \E a \in DOMAIN applications :
    /\ applications[a].key = ImportKey("imported application", d)
    /\ applications[a].job = DraftJobs[d]
    /\ \A n \in LiveNotes : notes[n].draft = d => \E i \in DOMAIN events : OfNote(events[i], a, n)

\* The rows and events that are made stand behind those that were there.
LEMMA MaterializeJoins ==
  ASSUME DraftsTyped, LogTyped, Materialize
  PROVE  /\ applications' \in Seq(Application) /\ applications' = applications \o NewRows
         /\ DOMAIN applications \subseteq DOMAIN applications'
         /\ \A a \in DOMAIN applications : applications'[a] = applications[a]
         /\ \A k \in DOMAIN Applied : /\ Len(applications) + k \in DOMAIN applications'
                                      /\ applications'[Len(applications) + k] = NewRows[k]
         /\ \A a \in DOMAIN applications' \ DOMAIN applications :
              \E k \in DOMAIN Applied : a = Len(applications) + k /\ applications'[a] = NewRows[k]
         /\ events' \in Seq(Event) /\ events' = events \o NewEvents
         /\ DOMAIN events \subseteq DOMAIN events'
         /\ \A i \in DOMAIN events : events'[i] = events[i]
         /\ \A j \in DOMAIN NewEvents : \E i \in DOMAIN events' : events'[i] = NewEvents[j]
         /\ \A i \in DOMAIN events' \ DOMAIN events : \E j \in DOMAIN NewEvents : events'[i] = NewEvents[j]
<1>1. applications' = applications \o NewRows /\ events' = events \o NewEvents
  BY DEF Materialize, NewRows, NewEvents
<1>2. /\ applications \in Seq(Application) /\ events \in Seq(Event)
      /\ NewRows \in Seq(Application) /\ DOMAIN NewRows = DOMAIN Applied
      /\ NewEvents \in Seq(Event)
  BY RowsMade, EventsMade DEF LogTyped
<1>3. /\ applications \o NewRows \in Seq(Application)
      /\ DOMAIN applications \subseteq DOMAIN (applications \o NewRows)
      /\ \A i \in DOMAIN applications : (applications \o NewRows)[i] = applications[i]
      /\ \A j \in DOMAIN NewRows : /\ Len(applications) + j \in DOMAIN (applications \o NewRows)
                                   /\ (applications \o NewRows)[Len(applications) + j] = NewRows[j]
      /\ \A i \in DOMAIN (applications \o NewRows) \ DOMAIN applications :
           \E j \in DOMAIN NewRows : i = Len(applications) + j
  BY <1>2, LogsJoined
<1>4. /\ events \o NewEvents \in Seq(Event)
      /\ DOMAIN events \subseteq DOMAIN (events \o NewEvents)
      /\ \A i \in DOMAIN events : (events \o NewEvents)[i] = events[i]
      /\ \A j \in DOMAIN NewEvents : /\ Len(events) + j \in DOMAIN (events \o NewEvents)
                                     /\ (events \o NewEvents)[Len(events) + j] = NewEvents[j]
      /\ \A i \in DOMAIN (events \o NewEvents) \ DOMAIN events :
           \E j \in DOMAIN NewEvents : i = Len(events) + j
  BY <1>2, LogsJoined
<1>5. /\ applications' \in Seq(Application) /\ applications' = applications \o NewRows
      /\ DOMAIN applications \subseteq DOMAIN applications'
      /\ \A a \in DOMAIN applications : applications'[a] = applications[a]
      /\ \A k \in DOMAIN Applied : /\ Len(applications) + k \in DOMAIN applications'
                                   /\ applications'[Len(applications) + k] = NewRows[k]
      /\ \A a \in DOMAIN applications' \ DOMAIN applications :
           \E k \in DOMAIN Applied : a = Len(applications) + k /\ applications'[a] = NewRows[k]
  BY <1>1, <1>2, <1>3
<1>6. /\ events' \in Seq(Event) /\ events' = events \o NewEvents
      /\ DOMAIN events \subseteq DOMAIN events'
      /\ \A i \in DOMAIN events : events'[i] = events[i]
      /\ \A j \in DOMAIN NewEvents : \E i \in DOMAIN events' : events'[i] = NewEvents[j]
      /\ \A i \in DOMAIN events' \ DOMAIN events : \E j \in DOMAIN NewEvents : events'[i] = NewEvents[j]
  BY <1>1, <1>4
<1> QED BY <1>5, <1>6

\* The keys of what is made are new, and nothing has to be traced for them.
LEMMA ImportKeysFree ==
  ASSUME DraftsTyped, LogTyped
  PROVE  /\ \A k \in DOMAIN Applied : NewRows[k].key[2] \in ImportWords
         /\ \A j \in DOMAIN NewEvents : NewEvents[j].key[2] \in ImportWords
<1>1. \A k \in DOMAIN Applied : NewRows[k].key[2] \in ImportWords
  BY RowsMade DEF ImportWords
<1>2. \A id \in Nat : /\ ImportKey("imported created", id)[2] \in ImportWords
                      /\ ImportKey("imported event", id)[2] \in ImportWords
  BY ImportKeys DEF ImportWords
<1>3. ASSUME NEW j \in DOMAIN NewEvents PROVE NewEvents[j].key[2] \in ImportWords
  <2>1. PICK k \in DOMAIN Applied : OfDraft(NewEvents[j], k)
    BY EventsMade
  <2>2. Applied[k] \in Nat /\ \A n \in LiveNotes : n \in Nat
    <3>1. Applied[k] \in LiveDrafts
      BY AppliedOnce
    <3> QED BY <3>1, LiveAreTyped
  <2> QED BY <1>2, <2>1, <2>2 DEF OfDraft
<1> QED BY <1>1, <1>3

\* So the keys stay distinct.
LEMMA MaterializeKeepsKeys ==
  ASSUME DraftsTyped, LogInv, NothingImported, Materialize
  PROVE  LogInv'
<1>1. LogTyped /\ LogTyped'
  BY MaterializeJoins DEF LogInv, LogTyped
<1>2. Distinct(applications) /\ Distinct(events)
  BY DEF LogInv, KeysOnce, Distinct
<1>3. \A a \in DOMAIN applications : \A k \in DOMAIN NewRows : applications[a].key # NewRows[k].key
  BY <1>1, ImportKeysFree, RowsMade DEF NothingImported
<1>4. \A i \in DOMAIN events : \A j \in DOMAIN NewEvents : events[i].key # NewEvents[j].key
  BY <1>1, ImportKeysFree DEF NothingImported
<1>5. Distinct(applications')
  <2>1. /\ applications \in Seq(Application) /\ NewRows \in Seq(Application)
        /\ Distinct(NewRows) /\ applications' = applications \o NewRows
    BY <1>1, RowsMade, MaterializeJoins DEF LogTyped
  <2>2. Distinct(applications \o NewRows)
    BY <1>2, <1>3, <2>1, KeysJoined
  <2> QED BY <2>1, <2>2
<1>6. Distinct(events')
  <2>1. /\ events \in Seq(Event) /\ NewEvents \in Seq(Event)
        /\ Distinct(NewEvents) /\ events' = events \o NewEvents
    BY <1>1, EventsMade, MaterializeJoins DEF LogTyped
  <2>2. Distinct(events \o NewEvents)
    BY <1>2, <1>4, <2>1, KeysJoined
  <2> QED BY <2>1, <2>2
<1>7. KeysOnce'
  BY <1>5, <1>6 DEF KeysOnce, Distinct
<1>8. EventKeys \subseteq EventKeys'
  BY <1>1, MaterializeJoins DEF EventKeys
<1>9. \A key \in EventKeys' \ EventKeys : key[2] \in ImportWords
  <2>1. ASSUME NEW i \in DOMAIN events', events'[i].key \notin EventKeys
        PROVE  events'[i].key[2] \in ImportWords
    <3>1. i \notin DOMAIN events
      BY <1>1, <2>1, MaterializeJoins DEF EventKeys
    <3> QED BY <1>1, <2>1, <3>1, ImportKeysFree, MaterializeJoins
  <2> QED BY <2>1 DEF EventKeys
<1>10. EventKeys \subseteq DerivedKeys
  <2>1. \A i \in DOMAIN events : events[i] \in Event
    BY <1>1, RowOfLog DEF LogTyped
  <2> QED BY <2>1 DEF EventKeys, Event
<1>11. \A key \in EventKeys : Traced(key, EventKeys', applications')
  <2>1. \A a \in DOMAIN applications : applications'[a].version >= applications[a].version
    <3>1. \A a \in DOMAIN applications : applications[a] \in Application
      BY <1>1, RowOfLog DEF LogTyped
    <3>2. \A a \in DOMAIN applications : applications[a].version \in Nat /\ applications'[a] = applications[a]
      BY <1>1, <3>1, MaterializeJoins DEF Application
    <3> QED BY <3>2
  <2>2. KeysTraced(EventKeys, applications)
    BY DEF LogInv
  <2>3. applications' \in Seq(Application) /\ DOMAIN applications \subseteq DOMAIN applications'
    BY <1>1, MaterializeJoins
  <2> QED BY <1>1, <1>8, <1>10, <2>1, <2>2, <2>3, TracedStays
<1>12. \A key \in EventKeys' \ EventKeys : Traced(key, EventKeys', applications')
  BY <1>9 DEF Traced, ImportWords
<1>13. KeysTraced(EventKeys', applications')
  BY <1>11, <1>12 DEF KeysTraced
<1> QED BY <1>1, <1>7, <1>13 DEF LogInv

\* A confirmation keeps the log whole, and leaves what was there as it was.
LEMMA MaterializeIsWhole ==
  ASSUME DraftsTyped, Whole, NothingImported, Materialize
  PROVE  Whole' /\ VersionTells
<1>1. LogInv /\ LogTyped
  BY DEF Whole, LogInv
<1>2. LogInv'
  BY <1>1, MaterializeKeepsKeys
<1>3. RowsSound(applications') /\ RowsJoin(applications, applications')
  <2>1. 0 \notin DOMAIN applications'
    BY <1>1, MaterializeJoins, LogNumbers
  <2>2. \A a \in DOMAIN applications' \ DOMAIN applications :
          applications'[a].voided = FALSE /\ applications'[a].superseded = 0
    <3>1. \A k \in DOMAIN Applied : NewRows[k].voided = FALSE /\ NewRows[k].superseded = 0
      BY <1>1, RowsMade
    <3>2. \A a \in DOMAIN applications' \ DOMAIN applications :
            \E k \in DOMAIN Applied : applications'[a] = NewRows[k]
      BY <1>1, MaterializeJoins
    <3> QED BY <3>1, <3>2
  <2>3. DOMAIN applications \subseteq DOMAIN applications'
        /\ \A a \in DOMAIN applications : applications'[a] = applications[a]
    BY <1>1, MaterializeJoins
  <2>4. RowsSound(applications)
    BY DEF Whole
  <2> QED BY <2>1, <2>2, <2>3, <2>4, RowJoins
<1>4. ASSUME NEW i \in DOMAIN events' \ DOMAIN events
      PROVE  /\ Plain(events'[i])
             /\ events'[i].app \in DOMAIN applications' \ DOMAIN applications
  <2>1. PICK j \in DOMAIN NewEvents : events'[i] = NewEvents[j]
    BY <1>1, MaterializeJoins
  <2>2. PICK k \in DOMAIN Applied : OfDraft(NewEvents[j], k)
    BY <1>1, EventsMade
  <2>3. Plain(events'[i]) /\ events'[i].app = Len(applications) + k
    BY <2>1, <2>2 DEF OfDraft
  <2>4. Len(applications) + k \in DOMAIN applications'
    BY <1>1, MaterializeJoins
  <2>5. Len(applications) + k \notin DOMAIN applications
    <3>1. k \in Nat /\ k >= 1
      BY AppliedOnce
    <3> QED BY <1>1, <3>1 DEF LogTyped
  <2> QED BY <2>3, <2>4, <2>5
<1>5. Extended(events, events')
  BY <1>1, MaterializeJoins DEF Extended, LogTyped
<1>6. EventsSound(events', applications')
  BY <1>3, <1>4, <1>5, PlainEventsJoin DEF Whole
<1>7. VersionTells
  <2>1. ASSUME NEW a \in DOMAIN applications
        PROVE  /\ applications'[a] = applications[a] /\ applications[a].version \in Nat
               /\ EventsOf(events', a) = EventsOf(events, a)
    <3>1. applications[a] \in Application /\ applications'[a] = applications[a]
      BY <1>1, MaterializeJoins, RowOfLog DEF LogTyped
    <3>2. EventsOf(events', a) = EventsOf(events, a)
      BY <1>4, <1>5, <2>1 DEF EventsOf, Extended
    <3> QED BY <3>1, <3>2 DEF Application
  <2> QED BY <2>1 DEF VersionTells
<1> QED BY <1>2, <1>3, <1>6, <1>7 DEF Whole

\* And what it makes is what the drafts say.
LEMMA DraftsBecome ==
  ASSUME DraftsTyped, LogTyped, Materialize, UNCHANGED notes, NEW d \in ToSet(Applied)
  PROVE  Became(d)'
<1>1. PICK k \in DOMAIN Applied : d = Applied[k]
  BY DEF ToSet
<1> DEFINE a == Len(applications) + k
<1>2. a \in DOMAIN applications' /\ applications'[a] = NewRows[k]
  BY MaterializeJoins
<1>3. /\ applications'[a].key = ImportKey("imported application", d)
      /\ applications'[a].job = DraftJobs[d]
  BY <1>1, <1>2, RowsMade
<1>4. ASSUME NEW n \in LiveNotes, notes[n].draft = d
      PROVE  \E i \in DOMAIN events' : OfNote(events'[i], a, n)
  <2>1. PICK j \in DOMAIN NewEvents : OfNote(NewEvents[j], a, n)
    BY <1>1, <1>4, EventsMade
  <2>2. PICK i \in DOMAIN events' : events'[i] = NewEvents[j]
    BY MaterializeJoins
  <2> QED BY <2>1, <2>2
<1> HIDE DEF a
<1>5. \A n \in LiveNotes : notes[n].draft = d =>
        \E i \in DOMAIN events' :
          /\ events'[i].app = a /\ events'[i].type = notes[n].type /\ events'[i].at = notes[n].at
          /\ events'[i].key = ImportKey("imported event", n)
  BY <1>4 DEF OfNote
<1> QED BY <1>2, <1>3, <1>5 DEF Became, OfNote, LiveNotes

-----------------------------------------------------------------------------
(* The drafts of a session.                                                 *)

\* What is said of live rows, row by row.
LEMMA DraftsAre ==
  DraftsTyped <=>
    /\ limit \in [drafts : 0..Len(DraftJobs), edits : Nat, notes : Nat, start : Nat, end : Nat]
    /\ session \in [status : {"none", "draft", "preview_generated", "confirmed", "discarded"},
                    version : Nat, writes : Nat]
    /\ drafts \in Seq(Draft \cup {None}) /\ Len(drafts) <= limit.drafts
    /\ notes \in Seq(Note \cup {None})
    /\ \A d \in DOMAIN drafts : drafts[d] # None =>
         drafts[d].form.dup = 0 \/ (drafts[d].form.dup \in DOMAIN drafts /\ drafts[drafts[d].form.dup] # None)
    /\ \A n \in DOMAIN notes : notes[n] # None =>
         notes[n].draft \in DOMAIN drafts /\ drafts[notes[n].draft] # None
BY DEF DraftsTyped, LiveDrafts, LiveNotes

\* The session's status and row version change alone.
LEMMA SessionMoves ==
  ASSUME DraftsTyped, NEW status \in {"none", "draft", "preview_generated", "confirmed", "discarded"},
         NEW version \in Nat, UNCHANGED <<drafts, notes, limit>>,
         session' = [session EXCEPT !.status = status, !.version = version]
  PROVE  DraftsTyped' /\ session'.status = status /\ session'.version = version
<1>1. session' \in [status : {"none", "draft", "preview_generated", "confirmed", "discarded"},
                    version : Nat, writes : Nat]
      /\ session'.status = status /\ session'.version = version
  BY DEF DraftsTyped
<1> QED BY <1>1 DEF DraftsTyped, LiveDrafts, LiveNotes

\* A write of a draft is counted in its session.
LEMMA SessionCounts ==
  ASSUME DraftsTyped, session' = [session EXCEPT !.writes = session.writes + 1]
  PROVE  /\ session' \in [status : {"none", "draft", "preview_generated", "confirmed", "discarded"},
                          version : Nat, writes : Nat]
         /\ session'.status = session.status /\ session'.version = session.version
         /\ session.writes + 1 \in Nat
<1>1. session \in [status : {"none", "draft", "preview_generated", "confirmed", "discarded"},
                   version : Nat, writes : Nat]
  BY DEF DraftsTyped
<1>2. session.writes + 1 \in Nat
  BY <1>1
<1> QED BY <1>1, <1>2

\* A row of the drafts as the user fills it in.
LEMMA DraftMade ==
  ASSUME NEW form \in DraftForms, NEW resume \in Resumes \cup {None}, NEW version \in Nat, NEW updated \in Nat
  PROVE  LET row == [form |-> form, resume |-> resume, version |-> version, updated |-> updated]
         IN  row \in Draft /\ row # None /\ row.form = form
<1> DEFINE row == [form |-> form, resume |-> resume, version |-> version, updated |-> updated]
<1>1. form \in Form
  BY HistoryImportAssumption
<1>2. row \in Draft /\ row.form = form
  BY <1>1 DEF Draft
<1>3. None \notin Draft
  BY HistoryImportAssumption
<1> HIDE DEF row
<1>4. row # None
  BY <1>2, <1>3
<1> QED BY <1>2, <1>4 DEF row

\* A row of the notes.
LEMMA NoteFilled ==
  ASSUME NEW form \in NoteForms, NEW d \in Nat, NEW version \in Nat
  PROVE  LET row == [draft |-> d, type |-> form.type, at |-> form.at, version |-> version]
         IN  row \in Note /\ row.draft = d
<1>1. form \in NoteForm
  BY HistoryImportAssumption
<1>2. form.type \in UserTypes /\ form.at \in Times
  BY <1>1 DEF NoteForm
<1> QED BY <1>2 DEF Note

\* A draft is added: the bound of the model keeps a job for it.
LEMMA DraftCreated ==
  ASSUME DraftsTyped, NEW form \in DraftForms, NEW resume \in Resumes \cup {None},
         CreateBaselineDraft(form, resume)
  PROVE  DraftsTyped' /\ session'.status = session.status
<1> DEFINE row == [form |-> form, resume |-> resume, version |-> 1, updated |-> session.writes + 1]
<1>1. /\ drafts' = Append(drafts, row)
      /\ session' = [session EXCEPT !.writes = session.writes + 1]
      /\ UNCHANGED <<notes, limit>>
      /\ Len(drafts) < limit.drafts
      /\ form.dup \in {0} \cup LiveDrafts
  BY DEF CreateBaselineDraft, Acceptable
<1>2. /\ session' \in [status : {"none", "draft", "preview_generated", "confirmed", "discarded"},
                       version : Nat, writes : Nat]
      /\ session'.status = session.status
      /\ session.writes + 1 \in Nat
  BY <1>1, SessionCounts
<1>3. row \in Draft /\ row # None /\ row.form = form
  BY <1>2, DraftMade
<1> HIDE DEF row
<1>4. drafts \in Seq(Draft \cup {None}) /\ Len(drafts) \in Nat /\ limit.drafts \in Nat
  BY DEF DraftsTyped
<1>5. /\ drafts' \in Seq(Draft \cup {None})
      /\ DOMAIN drafts' = DOMAIN drafts \cup {Len(drafts) + 1}
      /\ \A d \in DOMAIN drafts : drafts'[d] = drafts[d]
      /\ drafts'[Len(drafts) + 1] = row
      /\ Len(drafts') = Len(drafts) + 1
  BY <1>1, <1>3, <1>4
<1>6. Len(drafts') <= limit.drafts
  BY <1>1, <1>4, <1>5
<1>7. \A d \in DOMAIN drafts' : drafts'[d] # None =>
        drafts'[d].form.dup = 0 \/ (drafts'[d].form.dup \in DOMAIN drafts' /\ drafts'[drafts'[d].form.dup] # None)
  <2>1. ASSUME NEW d \in DOMAIN drafts, drafts[d] # None
        PROVE  drafts'[d].form.dup = 0 \/ (drafts'[d].form.dup \in DOMAIN drafts' /\ drafts'[drafts'[d].form.dup] # None)
    <3>1. drafts[d].form.dup = 0 \/ (drafts[d].form.dup \in DOMAIN drafts /\ drafts[drafts[d].form.dup] # None)
      BY <2>1, DraftsAre
    <3> QED BY <1>5, <2>1, <3>1
  <2>2. row.form.dup = 0 \/ (row.form.dup \in DOMAIN drafts' /\ drafts'[row.form.dup] # None)
    BY <1>1, <1>3, <1>5 DEF LiveDrafts
  <2> QED BY <1>5, <2>1, <2>2
<1>8. \A n \in DOMAIN notes' : notes'[n] # None =>
        notes'[n].draft \in DOMAIN drafts' /\ drafts'[notes'[n].draft] # None
  BY <1>1, <1>5, DraftsAre
<1>9. notes' \in Seq(Note \cup {None}) /\ limit' = limit /\ limit' \in [drafts : 0..Len(DraftJobs), edits : Nat, notes : Nat, start : Nat, end : Nat]
  BY <1>1 DEF DraftsTyped
<1> QED BY <1>2, <1>5, <1>6, <1>7, <1>8, <1>9 DEF DraftsTyped, LiveDrafts, LiveNotes

\* A draft is written anew.
LEMMA DraftUpdated ==
  ASSUME DraftsTyped, NEW d \in LiveDrafts, NEW form \in DraftForms, NEW resume \in Resumes \cup {None},
         UpdateBaselineDraft(d, form, resume)
  PROVE  DraftsTyped' /\ session'.status = session.status
<1> DEFINE row == [form |-> form, resume |-> resume, version |-> drafts[d].version + 1,
                   updated |-> session.writes + 1]
<1>1. /\ drafts' = [drafts EXCEPT ![d] = row]
      /\ session' = [session EXCEPT !.writes = session.writes + 1]
      /\ UNCHANGED <<notes, limit>>
      /\ form.dup \in {0} \cup LiveDrafts
  BY DEF UpdateBaselineDraft, Acceptable
<1>2. /\ session' \in [status : {"none", "draft", "preview_generated", "confirmed", "discarded"},
                       version : Nat, writes : Nat]
      /\ session'.status = session.status
      /\ session.writes + 1 \in Nat
  BY <1>1, SessionCounts
<1>3. drafts[d].version + 1 \in Nat
  <2>1. drafts[d] \in Draft
    BY LiveAreTyped
  <2> QED BY <2>1 DEF Draft
<1>4. row \in Draft /\ row # None /\ row.form = form
  BY <1>2, <1>3, DraftMade
<1> HIDE DEF row
<1>5. drafts \in Seq(Draft \cup {None}) /\ d \in DOMAIN drafts /\ drafts[d] # None
  BY DEF DraftsTyped, LiveDrafts
<1>6. /\ drafts' \in Seq(Draft \cup {None}) /\ Len(drafts') = Len(drafts)
      /\ DOMAIN drafts' = DOMAIN drafts
      /\ \A e \in DOMAIN drafts : drafts'[e] = IF e = d THEN row ELSE drafts[e]
  BY <1>1, <1>4, <1>5
<1>7. \A e \in DOMAIN drafts : drafts'[e] # None <=> drafts[e] # None
  BY <1>4, <1>5, <1>6
<1>8. \A e \in DOMAIN drafts' : drafts'[e] # None =>
        drafts'[e].form.dup = 0 \/ (drafts'[e].form.dup \in DOMAIN drafts' /\ drafts'[drafts'[e].form.dup] # None)
  <2>1. ASSUME NEW e \in DOMAIN drafts, drafts[e] # None, e # d
        PROVE  drafts'[e].form.dup = 0 \/ (drafts'[e].form.dup \in DOMAIN drafts' /\ drafts'[drafts'[e].form.dup] # None)
    <3>1. drafts[e].form.dup = 0 \/ (drafts[e].form.dup \in DOMAIN drafts /\ drafts[drafts[e].form.dup] # None)
      BY <2>1, DraftsAre
    <3> QED BY <1>6, <1>7, <2>1, <3>1
  <2>2. drafts'[d].form.dup = 0 \/ (drafts'[d].form.dup \in DOMAIN drafts' /\ drafts'[drafts'[d].form.dup] # None)
    <3>1. drafts'[d].form.dup = form.dup
      BY <1>4, <1>5, <1>6
    <3>2. form.dup = 0 \/ (form.dup \in DOMAIN drafts /\ drafts[form.dup] # None)
      BY <1>1 DEF LiveDrafts
    <3> QED BY <1>6, <1>7, <3>1, <3>2
  <2> QED BY <1>6, <1>7, <2>1, <2>2
<1>9. \A n \in DOMAIN notes' : notes'[n] # None =>
        notes'[n].draft \in DOMAIN drafts' /\ drafts'[notes'[n].draft] # None
  BY <1>1, <1>6, <1>7, DraftsAre
<1>10. /\ notes' \in Seq(Note \cup {None}) /\ limit' = limit
       /\ limit' \in [drafts : 0..Len(DraftJobs), edits : Nat, notes : Nat, start : Nat, end : Nat]
       /\ Len(drafts') <= limit'.drafts
  BY <1>1, <1>6 DEF DraftsTyped
<1> QED BY <1>2, <1>6, <1>8, <1>9, <1>10 DEF DraftsTyped, LiveDrafts, LiveNotes

\* A draft is deleted: its notes go along, and no draft names it as its duplicate.
LEMMA DraftDeleted ==
  ASSUME DraftsTyped, NEW d \in LiveDrafts, DeleteBaselineDraft(d)
  PROVE  DraftsTyped' /\ session' = session
<1> DEFINE left(e) == IF e = d \/ drafts[e] = None THEN None
                      ELSE IF drafts[e].form.dup = d THEN [drafts[e] EXCEPT !.form.dup = 0]
                      ELSE drafts[e]
           kept(n) == IF notes[n] # None /\ notes[n].draft = d THEN None ELSE notes[n]
<1>1. /\ drafts' = [e \in DOMAIN drafts |-> left(e)]
      /\ notes' = [n \in DOMAIN notes |-> kept(n)]
      /\ UNCHANGED <<session, limit>>
  BY DEF DeleteBaselineDraft
<1>2. drafts \in Seq(Draft \cup {None}) /\ notes \in Seq(Note \cup {None})
  BY DEF DraftsTyped
<1>3. ASSUME NEW row \in Draft
      PROVE  [row EXCEPT !.form.dup = 0] \in Draft /\ [row EXCEPT !.form.dup = 0].form.dup = 0
  <2> DEFINE form == [row.form EXCEPT !.dup = 0]
  <2>1. row.form \in Form /\ 0 \in 0..Len(DraftJobs)
    <3>1. Len(DraftJobs) \in Nat
      BY HistoryImportAssumption
    <3> QED BY <3>1 DEF Draft
  <2>2. form \in Form /\ form.dup = 0
    BY <2>1 DEF Form
  <2>3. [row EXCEPT !.form.dup = 0] = [row EXCEPT !.form = form]
    BY DEF Draft
  <2> HIDE DEF form
  <2>4. [row EXCEPT !.form = form] \in Draft /\ [row EXCEPT !.form = form].form = form
    BY <2>2 DEF Draft
  <2> QED BY <2>2, <2>3, <2>4
<1>4. None \notin Draft /\ None \notin Note
  BY HistoryImportAssumption
<1>5. ASSUME NEW e \in DOMAIN drafts
      PROVE  /\ left(e) \in Draft \cup {None}
             /\ left(e) # None <=> drafts[e] # None /\ e # d
             /\ left(e) # None => left(e).form.dup \in {0, drafts[e].form.dup} \ {d}
  <2>1. drafts[e] \in Draft \cup {None} /\ d # 0
    BY <1>2 DEF LiveDrafts
  <2>2. CASE e = d \/ drafts[e] = None
    BY <2>2
  <2>3. CASE e # d /\ drafts[e] # None /\ drafts[e].form.dup = d
    <3>1. left(e) = [drafts[e] EXCEPT !.form.dup = 0]
      BY <2>3
    <3> HIDE DEF left
    <3> QED BY <1>3, <1>4, <2>1, <2>3, <3>1
  <2>4. CASE e # d /\ drafts[e] # None /\ drafts[e].form.dup # d
    BY <1>4, <2>1, <2>4
  <2> QED BY <2>2, <2>3, <2>4
<1>6. ASSUME NEW n \in DOMAIN notes
      PROVE  /\ kept(n) \in Note \cup {None}
             /\ kept(n) # None => kept(n) = notes[n] /\ notes[n].draft # d
  <2>1. notes[n] \in Note \cup {None}
    BY <1>2
  <2> QED BY <2>1
<1> HIDE DEF left, kept
<1>7. /\ drafts' \in Seq(Draft \cup {None}) /\ Len(drafts') = Len(drafts)
      /\ DOMAIN drafts' = DOMAIN drafts
      /\ \A e \in DOMAIN drafts : drafts'[e] = left(e)
  <2>1. PICK m \in Nat : m = Len(drafts) /\ DOMAIN drafts = 1..m
    BY <1>2
  <2>2. drafts' \in [1..m -> Draft \cup {None}]
    BY <1>1, <1>5, <2>1
  <2> QED BY <1>1, <2>1, <2>2
<1>8. /\ notes' \in Seq(Note \cup {None})
      /\ DOMAIN notes' = DOMAIN notes
      /\ \A n \in DOMAIN notes : notes'[n] = kept(n)
  <2>1. PICK m \in Nat : DOMAIN notes = 1..m
    BY <1>2
  <2>2. notes' \in [1..m -> Note \cup {None}]
    BY <1>1, <1>6, <2>1
  <2> QED BY <1>1, <2>1, <2>2
<1>9. ASSUME NEW e \in DOMAIN drafts', drafts'[e] # None
      PROVE  drafts'[e].form.dup = 0 \/ (drafts'[e].form.dup \in DOMAIN drafts' /\ drafts'[drafts'[e].form.dup] # None)
  <2> DEFINE dup == drafts'[e].form.dup
  <2>1. drafts[e] # None /\ dup \in {0, drafts[e].form.dup} \ {d}
    BY <1>5, <1>7, <1>9
  <2>2. drafts[e].form.dup = 0 \/ (drafts[e].form.dup \in DOMAIN drafts /\ drafts[drafts[e].form.dup] # None)
    BY <1>7, <1>9, <2>1, DraftsAre
  <2> HIDE DEF dup
  <2>3. dup = 0 \/ (dup \in DOMAIN drafts' /\ drafts'[dup] # None)
    BY <1>5, <1>7, <2>1, <2>2
  <2> QED BY <2>3 DEF dup
<1>10. ASSUME NEW n \in DOMAIN notes', notes'[n] # None
       PROVE  notes'[n].draft \in DOMAIN drafts' /\ drafts'[notes'[n].draft] # None
  <2>1. notes'[n] = notes[n] /\ notes[n] # None /\ notes[n].draft # d
    BY <1>6, <1>8, <1>10
  <2>2. notes[n].draft \in DOMAIN drafts /\ drafts[notes[n].draft] # None
    BY <1>8, <1>10, <2>1, DraftsAre
  <2> QED BY <1>5, <1>7, <2>1, <2>2
<1>11. /\ session' \in [status : {"none", "draft", "preview_generated", "confirmed", "discarded"},
                        version : Nat, writes : Nat]
       /\ limit' \in [drafts : 0..Len(DraftJobs), edits : Nat, notes : Nat, start : Nat, end : Nat]
       /\ Len(drafts') <= limit'.drafts
       /\ session' = session
  BY <1>1, <1>7 DEF DraftsTyped
<1> QED BY <1>7, <1>8, <1>9, <1>10, <1>11 DEF DraftsTyped, LiveDrafts, LiveNotes

\* Only the notes change, and a live one is about a live draft.
LEMMA NotesMove ==
  ASSUME DraftsTyped, UNCHANGED <<session, drafts, limit>>, notes' \in Seq(Note \cup {None}),
         \A n \in DOMAIN notes' : notes'[n] # None =>
           notes'[n].draft \in LiveDrafts \/ (n \in DOMAIN notes /\ notes'[n] = notes[n])
  PROVE  DraftsTyped' /\ session' = session
<1>1. \A n \in DOMAIN notes' : notes'[n] # None => notes'[n].draft \in LiveDrafts
  BY DEF DraftsTyped, LiveNotes
<1> QED BY <1>1 DEF DraftsTyped, LiveDrafts, LiveNotes

\* A note is added, about a live draft,
LEMMA NoteCreated ==
  ASSUME DraftsTyped, NEW d \in LiveDrafts, NEW form \in NoteForms, CreateEventDraft(d, form)
  PROVE  DraftsTyped' /\ session' = session
<1> DEFINE row == [draft |-> d, type |-> form.type, at |-> form.at, version |-> 1]
<1>1. notes' = Append(notes, row) /\ UNCHANGED <<session, drafts, limit>>
  BY DEF CreateEventDraft
<1>2. d \in Nat
  BY LiveAreTyped
<1>3. row \in Note /\ row.draft = d
  BY <1>2, NoteFilled
<1> HIDE DEF row
<1>4. notes \in Seq(Note \cup {None}) /\ row \in Note \cup {None}
  BY <1>3 DEF DraftsTyped
<1>5. /\ notes' \in Seq(Note \cup {None})
      /\ DOMAIN notes' = DOMAIN notes \cup {Len(notes) + 1}
      /\ \A n \in DOMAIN notes : notes'[n] = notes[n]
      /\ notes'[Len(notes) + 1] = row
  BY <1>1, <1>4
<1> QED BY <1>1, <1>3, <1>5, NotesMove

\* written anew, about the same,
LEMMA NoteUpdated ==
  ASSUME DraftsTyped, NEW n \in LiveNotes, NEW form \in NoteForms, UpdateEventDraft(n, form)
  PROVE  DraftsTyped' /\ session' = session
<1> DEFINE row == [draft |-> notes[n].draft, type |-> form.type, at |-> form.at,
                   version |-> notes[n].version + 1]
<1>1. notes' = [notes EXCEPT ![n] = row] /\ UNCHANGED <<session, drafts, limit>>
  BY DEF UpdateEventDraft
<1>2. notes[n].draft \in LiveDrafts /\ notes[n].draft \in Nat /\ notes[n].version + 1 \in Nat
  <2>1. notes[n] \in Note
    BY LiveAreTyped
  <2> QED BY <2>1 DEF Note, DraftsTyped
<1>3. row \in Note /\ row.draft = notes[n].draft
  BY <1>2, NoteFilled
<1> HIDE DEF row
<1>4. notes \in Seq(Note \cup {None}) /\ row \in Note \cup {None} /\ n \in DOMAIN notes
  BY <1>3 DEF DraftsTyped, LiveNotes
<1>5. /\ notes' \in Seq(Note \cup {None})
      /\ DOMAIN notes' = DOMAIN notes
      /\ \A m \in DOMAIN notes : notes'[m] = IF m = n THEN row ELSE notes[m]
  BY <1>1, <1>4
<1> QED BY <1>1, <1>2, <1>3, <1>5, NotesMove

\* or deleted.
LEMMA NoteDeleted ==
  ASSUME DraftsTyped, NEW n \in LiveNotes, DeleteEventDraft(n)
  PROVE  DraftsTyped' /\ session' = session
<1>1. notes' = [notes EXCEPT ![n] = None] /\ UNCHANGED <<session, drafts, limit>>
  BY DEF DeleteEventDraft
<1>2. notes \in Seq(Note \cup {None}) /\ n \in DOMAIN notes
  BY DEF DraftsTyped, LiveNotes
<1>3. /\ notes' \in Seq(Note \cup {None})
      /\ DOMAIN notes' = DOMAIN notes
      /\ \A m \in DOMAIN notes : notes'[m] = IF m = n THEN None ELSE notes[m]
  BY <1>1, <1>2
<1> QED BY <1>1, <1>3, NotesMove

-----------------------------------------------------------------------------
(* The inductive invariant of the import, and its steps.                    *)

\* No command gives an application another job.
JobsStand == \A a \in DOMAIN applications : applications'[a].job = applications[a].job

\* The fields a command writes do not include it (updateApplicationMetadata, voidApplication).
LEMMA JobsStay == Whole /\ [Next]_vars => JobsStand
<1> SUFFICES ASSUME Whole, [Next]_vars PROVE JobsStand
  OBVIOUS
<1>1. CASE UNCHANGED vars \/ ResumeCommand
  BY <1>1 DEF JobsStand, vars, ResumeCommand, CreateResumeVersion, ActivateResumeVersion, ArchiveResumeVersion
<1>2. ASSUME NEW key \in Keys, NEW job \in Jobs, NEW resume \in Resumes \cup {None},
             NEW initial \in UserTypes \cup {None}, NEW at \in Times,
             CreateApplication(key, job, resume, initial, at)
      PROVE  JobsStand
  <2> DEFINE row == [job |-> job, resume |-> resume, version |-> 1, voided |-> FALSE,
                     superseded |-> 0, key |-> KeyFor(key, "")]
  <2>1. applications' = Append(applications, row) /\ applications \in Seq(Application)
    BY <1>2 DEF CreateApplication, Whole, LogInv, LogTyped
  <2> HIDE DEF row
  <2>2. \A a \in DOMAIN applications : applications'[a] = applications[a]
    BY <2>1
  <2> QED BY <2>2 DEF JobsStand
<1>3. ASSUME NEW a, NEW expected, NEW resume \in Resumes \cup {None},
             UpdateApplicationMetadata(a, expected, resume)
      PROVE  JobsStand
  <2>1. a \in DOMAIN applications /\ applications[a] \in Application
    BY <1>3, WritableRow DEF Whole, UpdateApplicationMetadata
  <2> DEFINE row == [applications[a] EXCEPT !.version = @ + 1, !.resume = resume]
  <2>2. Standing(applications[a], row)
    <3>1. 0 \in Nat
      OBVIOUS
    <3> QED BY <2>1, <3>1, RowStands
  <2>3. applications' = [applications EXCEPT ![a] = row]
    BY <1>3, <2>1 DEF UpdateApplicationMetadata, IncrementVersion, Whole, LogInv, LogTyped
  <2> HIDE DEF row
  <2> QED BY <2>1, <2>2, <2>3 DEF JobsStand, Standing
<1>4. ASSUME NEW a, NEW expected, NEW successor \in Nat, VoidApplication(a, expected, successor)
      PROVE  JobsStand
  <2>1. a \in DOMAIN applications /\ applications[a] \in Application
    BY <1>4, WritableRow DEF Whole, VoidApplication
  <2> DEFINE row == [applications[a] EXCEPT !.version = @ + 1, !.voided = TRUE, !.superseded = successor]
  <2>2. row.job = applications[a].job
    <3>1. None \in Resumes \cup {None}
      OBVIOUS
    <3> QED BY <2>1, <3>1, RowStands
  <2>3. applications' = [applications EXCEPT ![a] = row]
    BY <1>4, <2>1 DEF VoidApplication, IncrementVersion, Whole, LogInv, LogTyped
  <2> HIDE DEF row
  <2> QED BY <2>1, <2>2, <2>3 DEF JobsStand
<1>5. ASSUME NEW a \in DOMAIN applications, applications' = IncrementVersion(a)
      PROVE  JobsStand
  BY <1>5, IncrementStands DEF JobsStand, RowsStand, Standing, Whole
<1>6. ASSUME NEW key \in Keys, NEW a, NEW expected, NEW type \in UserTypes, NEW at \in Times,
             AppendFeedbackEvent(key, a, expected, type, at)
      PROVE  JobsStand
  BY <1>5, <1>6, WritableRow DEF AppendFeedbackEvent, Whole
<1>7. ASSUME NEW key \in Keys, NEW target \in DOMAIN events, NEW expected,
             NEW replacement \in UserTypes \cup {None}, NEW at \in Times,
             VoidFeedbackEvent(key, target, expected, replacement, at)
      PROVE  JobsStand
  BY <1>5, <1>7, WritableRow DEF VoidFeedbackEvent, Whole
<1>8. \A successor \in 0..Len(applications) : successor \in Nat
  OBVIOUS
<1> QED BY <1>1, <1>2, <1>3, <1>4, <1>6, <1>7, <1>8 DEF Next, Command

\* Applications are to jobs that exist.
JobsKnown == \A a \in DOMAIN applications : applications[a].job \in jobsTable

\* Once the session has been previewed, what the tab has read at a version that is no later
\* than the one now stored is the session as it stands.
BundleIsRead ==
  bundle # None \/ session.status = "confirmed" =>
    /\ session.status \notin {"none", "draft"}
    /\ \E v \in Nat : v <= session.version /\ bundle = [version |-> v, drafts |-> drafts, notes |-> notes]

\* A session that is confirmed made what its drafts say, another one nothing.
MadeOfDrafts ==
  IF session.status = "confirmed"
  THEN imported = Kept /\ \A d \in ToSet(Applied) : Became(d)
  ELSE imported = <<>> /\ NothingImported

\* The inductive invariant of the import.
ImportInv ==
  /\ Whole /\ ResumesTyped /\ DraftsTyped
  /\ JobsKnown /\ BundleIsRead /\ MadeOfDrafts

\* While the drafts can be written, none has been read for a confirmation, or imported.
LEMMA DraftWritten ==
  ASSUME ImportInv, session.status = "draft", session'.status = "draft", DraftsTyped',
         UNCHANGED <<vars, bundle, imported, jobsTable>>
  PROVE  ImportInv'
<1>1. Whole' /\ ResumesTyped' /\ JobsKnown'
  BY QuietIsWhole DEF ImportInv, ResumesTyped, JobsKnown, vars
<1>2. BundleIsRead'
  BY DEF ImportInv, BundleIsRead
<1>3. MadeOfDrafts'
  BY DEF ImportInv, MadeOfDrafts, NothingImported, vars
<1> QED BY <1>1, <1>2, <1>3 DEF ImportInv

\* The lists are those of the drafts.
LEMMA ListsStay ==
  ASSUME UNCHANGED drafts
  PROVE  Kept' = Kept /\ Applied' = Applied
<1>1. LiveDrafts' = LiveDrafts
  BY DEF LiveDrafts
<1>2. KeptDrafts' = KeptDrafts
  BY <1>1 DEF KeptDrafts, Skipped
<1> QED BY <1>2 DEF Kept, Applied, Listed

\* The session moves on, and nothing else does.
LEMMA StatusMoves ==
  ASSUME ImportInv, NEW status \in {"draft", "preview_generated", "discarded"}, NEW version \in Nat,
         session' = [session EXCEPT !.status = status, !.version = version],
         session.status # "confirmed",
         bundle # None => status # "draft" /\ version >= session.version,
         UNCHANGED <<vars, drafts, notes, bundle, imported, jobsTable, limit>>
  PROVE  ImportInv'
<1>1. DraftsTyped' /\ session'.status = status /\ session'.version = version
  BY SessionMoves DEF ImportInv
<1>2. Whole' /\ ResumesTyped' /\ JobsKnown'
  BY QuietIsWhole DEF ImportInv, ResumesTyped, JobsKnown, vars
<1>3. BundleIsRead'
  <2>1. ASSUME bundle' # None \/ session'.status = "confirmed"
        PROVE  bundle # None
    BY <1>1, <2>1
  <2>2. session.version \in Nat
    BY DEF ImportInv, DraftsTyped
  <2>3. bundle # None => status \notin {"none", "draft"}
    OBVIOUS
  <2>4. bundle # None => \A v \in Nat : v <= session.version => v <= version
    BY <2>2
  <2> QED BY <1>1, <2>1, <2>3, <2>4 DEF ImportInv, BundleIsRead
<1>4. MadeOfDrafts'
  BY <1>1 DEF ImportInv, MadeOfDrafts, NothingImported, vars
<1> QED BY <1>1, <1>2, <1>3, <1>4 DEF ImportInv

\* The tab reads the session.
LEMMA BundleRead ==
  ASSUME ImportInv, GetSessionBundle
  PROVE  ImportInv'
<1>1. UNCHANGED <<vars, session, drafts, notes, imported, jobsTable, limit>> /\ bundle' = Read(session)
      /\ session.status \notin {"none", "draft"}
  BY DEF GetSessionBundle
<1>2. Whole' /\ ResumesTyped' /\ JobsKnown'
  BY <1>1, QuietIsWhole DEF ImportInv, ResumesTyped, JobsKnown, vars
<1>3. DraftsTyped'
  BY <1>1 DEF ImportInv, DraftsTyped, LiveDrafts, LiveNotes
<1>4. BundleIsRead'
  <2>1. session.version \in Nat /\ session.version <= session.version
    BY DEF ImportInv, DraftsTyped
  <2>2. bundle' = [version |-> session.version, drafts |-> drafts, notes |-> notes]
    BY <1>1 DEF Read
  <2> QED BY <1>1, <2>1, <2>2 DEF BundleIsRead
<1>5. Kept' = Kept /\ Applied' = Applied
  BY <1>1, ListsStay
<1>6. \A d : Became(d)' <=> Became(d)
  BY <1>1 DEF Became, OfNote, LiveNotes, vars
<1>7. MadeOfDrafts'
  BY <1>1, <1>5, <1>6 DEF ImportInv, MadeOfDrafts, NothingImported, vars, ToSet
<1> QED BY <1>2, <1>3, <1>4, <1>7 DEF ImportInv

\* What became of the drafts stays when the log grows.
LEMMA BecameStays ==
  ASSUME RowsStay, JobsStand, UNCHANGED notes, NEW d, Became(d)
  PROVE  Became(d)'
<1>1. PICK a \in DOMAIN applications :
        /\ applications[a].key = ImportKey("imported application", d)
        /\ applications[a].job = DraftJobs[d]
        /\ \A n \in LiveNotes : notes[n].draft = d => \E i \in DOMAIN events : OfNote(events[i], a, n)
  BY DEF Became
<1>2. /\ a \in DOMAIN applications' /\ applications'[a].key = applications[a].key
      /\ applications'[a].job = applications[a].job
  BY DEF RowsStay, JobsStand
<1>3. ASSUME NEW n \in LiveNotes, notes[n].draft = d
      PROVE  \E i \in DOMAIN events' : OfNote(events'[i], a, n)
  <2>1. PICK i \in DOMAIN events : OfNote(events[i], a, n)
    BY <1>1, <1>3
  <2>2. i \in DOMAIN events' /\ events'[i] = events[i]
    BY DEF RowsStay
  <2> QED BY <2>1, <2>2
<1>4. \A n \in LiveNotes : notes[n].draft = d =>
        \E i \in DOMAIN events' :
          /\ events'[i].app = a /\ events'[i].type = notes[n].type /\ events'[i].at = notes[n].at
          /\ events'[i].key = ImportKey("imported event", n)
  BY <1>3 DEF OfNote
<1> QED BY <1>1, <1>2, <1>4 DEF Became, OfNote, LiveNotes

\* A command of the job memory leaves what was imported.
LEMMA JobMemoryKeeps ==
  ASSUME ImportInv, [Next]_vars, JobsKnown', UNCHANGED importVars
  PROVE  ImportInv' /\ VersionTells
<1>1. Whole' /\ ResumesTyped'
  BY NextIsWhole, ResumesKeep DEF ImportInv
<1>2. VersionTells /\ RowsStay
  BY NextHolds DEF ImportInv, Whole, StepTells
<1>3. JobsStand
  BY JobsStay DEF ImportInv
<1>4. UNCHANGED <<session, drafts, notes, bundle, imported, jobsTable, limit>>
  BY DEF importVars
<1>5. DraftsTyped' /\ BundleIsRead'
  BY <1>4 DEF ImportInv, DraftsTyped, LiveDrafts, LiveNotes, BundleIsRead
<1>6. Kept' = Kept /\ Applied' = Applied
  BY <1>4, ListsStay
<1>7. NothingImported => NothingImported'
  <2>1. \A word \in CommandWords : word \notin ImportWords
    BY DEF CommandWords, ImportWords
  <2> QED BY <1>2, <2>1 DEF NothingImported, RowsStay
<1>8. MadeOfDrafts'
  <2>1. CASE session.status = "confirmed"
    <3>1. imported = Kept /\ \A d \in ToSet(Applied) : Became(d)
      BY <2>1 DEF ImportInv, MadeOfDrafts
    <3>2. \A d : Became(d) => Became(d)'
      BY <1>2, <1>3, <1>4, BecameStays
    <3>3. imported' = Kept' /\ \A d \in ToSet(Applied') : Became(d)'
      BY <1>4, <1>6, <3>1, <3>2
    <3> QED BY <1>4, <2>1, <3>3 DEF MadeOfDrafts, ToSet
  <2>2. CASE session.status # "confirmed"
    BY <1>4, <1>7, <2>2 DEF ImportInv, MadeOfDrafts
  <2> QED BY <2>1, <2>2
<1> QED BY <1>1, <1>2, <1>5, <1>8 DEF ImportInv

\* The drafts that become applications are among those that are kept.
LEMMA AppliedAreKept ==
  ASSUME DraftsTyped
  PROVE  /\ Kept \in Seq(LiveDrafts)
         /\ \A k \in DOMAIN Applied : Applied[k] \in ToSet(Kept)
<1> DEFINE S == {d \in KeptDrafts : drafts[d].form.applied}
<1>1. S \in SUBSET LiveDrafts /\ KeptDrafts \in SUBSET LiveDrafts /\ S \subseteq KeptDrafts
  BY DEF KeptDrafts
<1>2. Applied = Listed(S) /\ Kept = Listed(KeptDrafts)
  BY DEF Applied, Kept
<1> HIDE DEF S
<1>3. Listed(S) \in Seq(S)
  BY <1>1, ListedOnce
<1>4. /\ Listed(KeptDrafts) \in Seq(KeptDrafts)
      /\ \A d \in KeptDrafts : \E k \in DOMAIN Listed(KeptDrafts) : Listed(KeptDrafts)[k] = d
  BY <1>1, ListedOnce
<1>5. Kept \in Seq(LiveDrafts)
  BY <1>1, <1>2, <1>4
<1>6. \A k \in DOMAIN Applied : Applied[k] \in KeptDrafts
  BY <1>1, <1>2, <1>3
<1>7. \A d \in KeptDrafts : d \in ToSet(Kept)
  BY <1>2, <1>4 DEF ToSet
<1> QED BY <1>5, <1>6, <1>7

\* A confirmation makes what the drafts say (confirmSession).
LEMMA ConfirmKeeps ==
  ASSUME ImportInv, ConfirmSession
  PROVE  ImportInv' /\ VersionTells
<1>1. /\ session.status = "preview_generated" /\ bundle # None /\ Materialize
      /\ session' = [session EXCEPT !.status = "confirmed", !.version = session.version + 1]
      /\ UNCHANGED <<drafts, notes, bundle, limit>>
  BY DEF ConfirmSession
<1>2. DraftsTyped /\ Whole /\ LogTyped
  BY DEF ImportInv, Whole, LogInv
<1>3. imported = <<>> /\ NothingImported
  BY <1>1 DEF ImportInv, MadeOfDrafts
<1>4. session.version \in Nat /\ session.version + 1 \in Nat
  <2>1. session.version \in Nat
    BY DEF ImportInv, DraftsTyped
  <2> QED BY <2>1
<1>5. DraftsTyped' /\ session'.status = "confirmed" /\ session'.version = session.version + 1
  BY <1>1, <1>2, <1>4, SessionMoves
<1>6. Whole' /\ VersionTells
  BY <1>1, <1>2, <1>3, MaterializeIsWhole
<1>7. ResumesTyped'
  BY <1>1 DEF ImportInv, ResumesTyped, Materialize
<1>8. JobsKnown'
  <2>1. jobsTable' = jobsTable \cup {DraftJobs[d] : d \in ToSet(Kept)}
    BY <1>1 DEF Materialize
  <2>2. \A k \in DOMAIN Applied : NewRows[k].job \in jobsTable'
    BY <1>2, <2>1, RowsMade, AppliedAreKept
  <2>3. \A a \in DOMAIN applications : applications'[a].job \in jobsTable'
    BY <1>1, <1>2, <2>1, MaterializeJoins DEF ImportInv, JobsKnown
  <2>4. \A a \in DOMAIN applications' \ DOMAIN applications : applications'[a].job \in jobsTable'
    BY <1>1, <1>2, <2>2, MaterializeJoins
  <2> QED BY <2>3, <2>4 DEF JobsKnown
<1>9. BundleIsRead'
  <2>1. PICK v \in Nat : v <= session.version /\ bundle = [version |-> v, drafts |-> drafts, notes |-> notes]
    BY <1>1 DEF ImportInv, BundleIsRead
  <2>2. v <= session'.version /\ bundle' = [version |-> v, drafts |-> drafts', notes |-> notes']
    BY <1>1, <1>4, <1>5, <2>1
  <2> QED BY <1>5, <2>2 DEF BundleIsRead
<1>10. Kept' = Kept /\ Applied' = Applied
  BY <1>1, ListsStay
<1>11. imported' = Kept'
  <2>1. imported' = <<>> \o Kept
    BY <1>1, <1>3 DEF Materialize
  <2>2. Kept \in Seq(LiveDrafts)
    BY <1>2, AppliedAreKept
  <2> QED BY <1>10, <2>1, <2>2
<1>12. \A d \in ToSet(Applied) : Became(d)'
  BY <1>1, <1>2, DraftsBecome
<1>13. MadeOfDrafts'
  BY <1>5, <1>10, <1>11, <1>12 DEF MadeOfDrafts, ToSet
<1> QED BY <1>5, <1>6, <1>7, <1>8, <1>9, <1>13 DEF ImportInv

\* Every request to the import keeps the invariant,
LEMMA ImportCommandKeeps == ImportInv /\ ImportCommand => ImportInv' /\ VersionTells
<1> SUFFICES ASSUME ImportInv, ImportCommand PROVE ImportInv' /\ VersionTells
  OBVIOUS
<1>1. ConfirmSession => ImportInv' /\ VersionTells
  BY ConfirmKeeps
<1>2. DraftsTyped /\ session.version \in Nat /\ session.version + 1 \in Nat /\ session.version + 1 >= session.version
  <2>1. session.version \in Nat
    BY DEF ImportInv, DraftsTyped
  <2> QED BY <2>1 DEF ImportInv
<1>3. UNCHANGED vars => VersionTells
  BY QuietKeeps DEF ImportInv, Whole, StepTells, vars
<1>4. session.status \in {"none", "draft"} => bundle = None
  BY DEF ImportInv, BundleIsRead
<1>5. CASE CreateSession
  <2>1. 1 \in Nat
    OBVIOUS
  <2> QED BY <1>3, <1>4, <1>5, <2>1, StatusMoves DEF CreateSession
<1>6. CASE GetSessionBundle
  BY <1>3, <1>6, BundleRead DEF GetSessionBundle
<1>7. CASE MarkPreviewGenerated
  BY <1>2, <1>3, <1>7, StatusMoves DEF MarkPreviewGenerated
<1>8. CASE DiscardSession
  BY <1>2, <1>3, <1>8, StatusMoves DEF DiscardSession
<1>9. ASSUME DraftsTyped', session'.status = session.status, session.status = "draft",
             UNCHANGED <<vars, bundle, imported, jobsTable>>
      PROVE  ImportInv' /\ VersionTells
  BY <1>3, <1>9, DraftWritten
<1>10. ASSUME NEW form \in DraftForms, NEW resume \in Resumes \cup {None}, CreateBaselineDraft(form, resume)
       PROVE  ImportInv' /\ VersionTells
  BY <1>2, <1>9, <1>10, DraftCreated DEF CreateBaselineDraft, RequireEditableSession
<1>11. ASSUME NEW d \in LiveDrafts, NEW form \in DraftForms, NEW resume \in Resumes \cup {None},
              UpdateBaselineDraft(d, form, resume)
       PROVE  ImportInv' /\ VersionTells
  BY <1>2, <1>9, <1>11, DraftUpdated DEF UpdateBaselineDraft, RequireEditableSession
<1>12. ASSUME NEW d \in LiveDrafts, DeleteBaselineDraft(d)
       PROVE  ImportInv' /\ VersionTells
  BY <1>2, <1>9, <1>12, DraftDeleted DEF DeleteBaselineDraft, RequireEditableSession
<1>13. ASSUME NEW d \in LiveDrafts, NEW form \in NoteForms, CreateEventDraft(d, form)
       PROVE  ImportInv' /\ VersionTells
  BY <1>2, <1>9, <1>13, NoteCreated DEF CreateEventDraft, RequireEditableSession
<1>14. ASSUME NEW n \in LiveNotes, NEW form \in NoteForms, UpdateEventDraft(n, form)
       PROVE  ImportInv' /\ VersionTells
  BY <1>2, <1>9, <1>14, NoteUpdated DEF UpdateEventDraft, RequireEditableSession
<1>15. ASSUME NEW n \in LiveNotes, DeleteEventDraft(n)
       PROVE  ImportInv' /\ VersionTells
  BY <1>2, <1>9, <1>15, NoteDeleted DEF DeleteEventDraft, RequireEditableSession
<1> QED BY <1>1, <1>5, <1>6, <1>7, <1>8, <1>10, <1>11, <1>12, <1>13, <1>14, <1>15 DEF ImportCommand

\* every step does,
LEMMA ImportNextKeeps == ImportInv /\ [ImportNext]_allVars => ImportInv' /\ VersionTells
<1> SUFFICES ASSUME ImportInv, [ImportNext]_allVars PROVE ImportInv' /\ VersionTells
  OBVIOUS
<1>1. CASE ImportCommand
  BY <1>1, ImportCommandKeeps
<1>2. CASE JobMemoryCommand
  <2>1. Next /\ JobsKnown' /\ UNCHANGED importVars
    <3>1. UNCHANGED importVars /\ jobsTable' = jobsTable
      BY <1>2 DEF JobMemoryCommand, importVars
    <3> QED BY <1>2, <3>1 DEF JobMemoryCommand, JobsKnown
  <2> QED BY <2>1, JobMemoryKeeps
<1>3. CASE UNCHANGED allVars
  <2>1. UNCHANGED vars /\ UNCHANGED importVars
    BY <1>3 DEF allVars
  <2>2. JobsKnown'
    BY <2>1 DEF ImportInv, JobsKnown, vars, importVars
  <2> QED BY <2>1, <2>2, JobMemoryKeeps
<1> QED BY <1>1, <1>2, <1>3 DEF ImportNext

\* and it holds at the start.
LEMMA ImportInitHolds == ImportInit => ImportInv
<1> SUFFICES ASSUME ImportInit PROVE ImportInv
  OBVIOUS
<1>1. Init /\ Whole /\ ResumesTyped
  BY InitIsWhole DEF ImportInit, Init, ResumesTyped
<1>2. DraftsTyped
  <2>1. limit \in [drafts : 0..Len(DraftJobs), edits : Nat, notes : Nat, start : Nat, end : Nat]
    BY HistoryImportAssumption DEF ImportInit
  <2>2. limit.drafts \in 0..Len(DraftJobs) /\ Len(DraftJobs) \in Nat
    BY <2>1, HistoryImportAssumption
  <2>3. session \in [status : {"none", "draft", "preview_generated", "confirmed", "discarded"},
                     version : Nat, writes : Nat]
    BY DEF ImportInit
  <2>4. drafts = <<>> /\ notes = <<>>
    BY DEF ImportInit
  <2>5. drafts \in Seq(Draft \cup {None}) /\ Len(drafts) = 0 /\ notes \in Seq(Note \cup {None})
    BY <2>4
  <2>6. LiveDrafts = {} /\ LiveNotes = {}
    BY <2>4 DEF LiveDrafts, LiveNotes
  <2> QED BY <2>1, <2>2, <2>3, <2>5, <2>6 DEF DraftsTyped
<1>3. JobsKnown
  BY DEF ImportInit, JobsKnown
<1>4. session.status = "none" /\ bundle = None /\ imported = <<>>
  BY DEF ImportInit
<1>5. NothingImported
  <2>1. CASE applications = <<>> /\ events = <<>>
    BY <2>1 DEF NothingImported
  <2>2. ASSUME NEW job \in Jobs, NEW status \in LegacyStatuses, NEW key \in Keys,
               applications = <<[job |-> job, resume |-> None, version |-> 1, voided |-> FALSE,
                                 superseded |-> 0, key |-> KeyFor(key, "migration")]>>,
               events = <<[MakeFeedbackEvent(1, "legacy_status_imported", 0, 0, KeyFor(key, "migration"))
                             EXCEPT !.legacy = status]>>
        PROVE  NothingImported
    <3> DEFINE row == [job |-> job, resume |-> None, version |-> 1, voided |-> FALSE,
                       superseded |-> 0, key |-> KeyFor(key, "migration")]
               e   == [MakeFeedbackEvent(1, "legacy_status_imported", 0, 0, KeyFor(key, "migration"))
                         EXCEPT !.legacy = status]
    <3>1. row.key = KeyFor(key, "migration") /\ e.key = KeyFor(key, "migration")
      BY DEF MakeFeedbackEvent
    <3>2. KeyFor(key, "migration")[2] = "migration" /\ "migration" \notin ImportWords
      BY DEF KeyFor, ImportWords
    <3>3. applications = <<row>> /\ events = <<e>>
      BY <2>2
    <3> HIDE DEF row, e
    <3>4. \A a \in DOMAIN applications : applications[a] = row
      BY <3>3
    <3>5. \A i \in DOMAIN events : events[i] = e
      BY <3>3
    <3> QED BY <3>1, <3>2, <3>4, <3>5 DEF NothingImported
  <2> QED BY <1>1, <2>1, <2>2 DEF Init
<1> QED BY <1>1, <1>2, <1>3, <1>4, <1>5 DEF ImportInv, BundleIsRead, MadeOfDrafts

\* The invariant says what the two properties say.
LEMMA ImportIsWhole == ImportInv => LogIsWhole
<1> SUFFICES ASSUME ImportInv PROVE LogIsWhole
  OBVIOUS
<1>1. TypeOK /\ SuccessorsEnd /\ KeysOnce
  BY WholeIsTyped DEF ImportInv, Whole, LogInv
<1>2. session.status \in {"none", "draft", "preview_generated", "confirmed", "discarded"}
  BY DEF ImportInv, DraftsTyped
<1>3. /\ \A d \in LiveDrafts : drafts[d] \in Draft /\ drafts[d].form.dup \in {0} \cup LiveDrafts
      /\ \A n \in LiveNotes : notes[n] \in Note /\ notes[n].draft \in LiveDrafts
  BY LiveAreTyped DEF ImportInv, DraftsTyped
<1>4. \A a \in DOMAIN applications : applications[a].job \in jobsTable
  BY DEF ImportInv, JobsKnown
<1> QED BY <1>1, <1>2, <1>3, <1>4 DEF LogIsWhole, ImportTypeOK

\* And what the other does.
LEMMA ImportIsPreviewed == ImportInv => ImportedAsPreviewed
<1> SUFFICES ASSUME ImportInv PROVE ImportedAsPreviewed
  OBVIOUS
<1>1. ASSUME session.status = "preview_generated", bundle # None, bundle.version = session.version
      PROVE  bundle = Read(session)
  <2>1. PICK v \in Nat : bundle = [version |-> v, drafts |-> drafts, notes |-> notes]
    BY <1>1 DEF ImportInv, BundleIsRead
  <2>2. v = session.version
    BY <1>1, <2>1
  <2> QED BY <2>1, <2>2 DEF Read
<1>2. CASE session.status = "confirmed"
  <2>1. PICK v \in Nat : bundle = [version |-> v, drafts |-> drafts, notes |-> notes]
    BY <1>2 DEF ImportInv, BundleIsRead
  <2>2. bundle.drafts = drafts /\ bundle.notes = notes
    BY <2>1
  <2>3. imported = Kept /\ \A d \in ToSet(Applied) : Became(d)
    BY <1>2 DEF ImportInv, MadeOfDrafts
  <2> QED BY <1>1, <1>2, <2>2, <2>3 DEF ImportedAsPreviewed, Became, OfNote
<1>3. CASE session.status # "confirmed"
  <2>1. imported = <<>> /\ NothingImported
    BY <1>3 DEF ImportInv, MadeOfDrafts
  <2>2. \A a \in DOMAIN applications : applications[a].key[2] # "imported application"
    BY <2>1 DEF NothingImported, ImportWords
  <2> QED BY <1>1, <1>3, <2>1, <2>2 DEF ImportedAsPreviewed
<1> QED BY <1>2, <1>3

\* Whatever is drafted, edited, deleted and confirmed beside the commands of the job memory,
\* every reference leads to a row, no key is used twice, and the successors of a voided
\* application end (confirmSession, history-import/service.ts:238, with the
\* unique keys and the foreign keys of the tables).
THEOREM ImportsLeaveTheLogWhole == ImportSpec => []LogIsWhole
BY ImportIsWhole, ImportInitHolds, ImportNextKeeps, PTL DEF ImportSpec

\* A confirmation makes what the preview showed, each draft once and with all of its notes,
\* however often it is sent and whatever is written after it; a session that is not
\* confirmed leaves nothing (service.ts:217, :499, :238).
THEOREM ImportsAreAsPreviewed == ImportSpec => []ImportedAsPreviewed
BY ImportIsPreviewed, ImportInitHolds, ImportNextKeeps, PTL DEF ImportSpec

\* What is imported is projected as what is recorded: never invalid, and ended by the first
\* event that closes the process (projectApplication.ts:190, :409).
THEOREM ImportsAreProjected == ImportSpec => [](ProjectionIsClean /\ ClosedIsFinal)
<1>1. ImportInv => ProjectionIsClean /\ ClosedIsFinal
  BY WholeIsClean, WholeEnds DEF ImportInv
<1> QED BY <1>1, ImportInitHolds, ImportNextKeeps, PTL DEF ImportSpec

\* An import writes nothing about an application that is there, so that its row version
\* stands for one set of facts and events beside imports too (jobMemoryService.ts:592).
THEOREM ImportsKeepVersions == ImportSpec => VersionNamesContents
<1>1. ImportInv /\ [ImportNext]_allVars => ImportInv' /\ [VersionTells]_vars
  BY ImportNextKeeps
<1>2. ImportSpec => [][VersionTells]_vars
  BY <1>1, ImportInitHolds, PTL DEF ImportSpec
<1> QED BY <1>2 DEF VersionNamesContents, VersionTells
=============================================================================
