----------------------------- MODULE HistoryImport -----------------------------
(***************************************************************************)
(* The import of past applications (server/history-import): a session of   *)
(* baseline drafts, one for each past application, and of event drafts     *)
(* about them, that is previewed and then confirmed into the job memory    *)
(* or discarded, beside the commands of JobMemory on the same tables.  A   *)
(* request is one transaction; a refused request changes nothing and is    *)
(* not a step, and neither is a confirmation that its receipt answers.     *)
(***************************************************************************)
EXTENDS JobMemory

CONSTANTS DraftJobs,       \* the job each draft would make, in the order of the drafts
          DraftForms,      \* what the user may fill in
          NoteForms,
          Limits           \* what a behaviour may do, chosen at the start

\* Deleted rows leave None behind; ids are not used again.  `dup' is duplicate_of_draft_id
\* (0: null), a resume version may be archived, `updated' is updated_at: the number of the
\* write, as two in one millisecond would be ordered by their random ids.
Form == [applied : BOOLEAN, dup : 0 .. Len(DraftJobs), keep : BOOLEAN]
Draft == [form : Form, resume : Resumes \cup {None}, version : Nat, updated : Nat]
NoteForm == [type : UserTypes, at : Times]
Note == [draft : Nat, type : UserTypes, at : Times, version : Nat]

ASSUME HistoryImportAssumption ==
  /\ DraftJobs \in Seq(Jobs) /\ IsInjective(DraftJobs)
  /\ DraftForms \subseteq Form /\ NoteForms \subseteq NoteForm
  /\ Limits \subseteq [drafts : 0 .. Len(DraftJobs), edits : Nat, notes : Nat, start : Nat, end : Nat]
  /\ None \notin Draft /\ None \notin Note

VARIABLES session,    \* its status and row version, and the writes of drafts so far
          drafts, notes,
          bundle,     \* the session as the tab that may confirm it has read it
          imported,   \* drafts whose job was made, in the order of their making
          jobsTable,    \* jobs that exist
          limit

importVars == <<session, drafts, notes, bundle, imported, jobsTable, limit>>
allVars == <<vars, importVars>>

LiveDrafts == {d \in DOMAIN drafts : drafts[d] # None}
LiveNotes == {n \in DOMAIN notes : notes[n] # None}

ImportInit ==
  /\ Init
  /\ limit \in Limits
  /\ session = [status |-> "none", version |-> 0, writes |-> 0]
  /\ drafts = <<>> /\ notes = <<>> /\ imported = <<>>
  /\ bundle = None
  /\ jobsTable = Jobs \ ToSet(DraftJobs)
  /\ \A a \in DOMAIN applications : applications[a].job \in jobsTable

CreateSession ==
  /\ session.status = "none"
  /\ limit.drafts > 0 /\ Len(events) <= limit.start
  /\ session' = [session EXCEPT !.status = "draft", !.version = 1]
  /\ UNCHANGED <<vars, drafts, notes, bundle, imported, jobsTable, limit>>

RequireEditableSession == session.status = "draft"

\* A draft is not its own duplicate, and names one that is there.
Acceptable(d, form, resume) ==
  /\ form.dup # d /\ form.dup \in {0} \cup LiveDrafts
  /\ resume # None => resumes[resume] # "none"

CreateBaselineDraft(form, resume) ==
  /\ RequireEditableSession
  /\ Len(drafts) < limit.drafts
  /\ Acceptable(Len(drafts) + 1, form, resume)
  /\ drafts' = Append(drafts, [form |-> form, resume |-> resume, version |-> 1,
                               updated |-> session.writes + 1])
  /\ session' = [session EXCEPT !.writes = session.writes + 1]
  /\ UNCHANGED <<vars, notes, bundle, imported, jobsTable, limit>>

\* The version presented is the one now stored, or the request is refused.
UpdateBaselineDraft(d, form, resume) ==
  /\ RequireEditableSession
  /\ drafts[d].version < limit.edits
  /\ Acceptable(d, form, resume)
  /\ drafts' = [drafts EXCEPT ![d] = [form |-> form, resume |-> resume,
                                      version |-> drafts[d].version + 1,
                                      updated |-> session.writes + 1]]
  /\ session' = [session EXCEPT !.writes = session.writes + 1]
  /\ UNCHANGED <<vars, notes, bundle, imported, jobsTable, limit>>

\* The foreign keys take the notes along and clear the duplicates, whose version and
\* updated_at stay.
DeleteBaselineDraft(d) ==
  /\ RequireEditableSession
  /\ drafts' = [e \in DOMAIN drafts |->
                  IF e = d \/ drafts[e] = None THEN None
                  ELSE IF drafts[e].form.dup = d THEN [drafts[e] EXCEPT !.form.dup = 0]
                  ELSE drafts[e]]
  /\ notes' = [n \in DOMAIN notes |->
                 IF notes[n] # None /\ notes[n].draft = d THEN None ELSE notes[n]]
  /\ UNCHANGED <<vars, session, bundle, imported, jobsTable, limit>>

CreateEventDraft(d, form) ==
  /\ RequireEditableSession
  /\ Len(notes) < limit.notes
  /\ notes' = Append(notes, [draft |-> d, type |-> form.type, at |-> form.at, version |-> 1])
  /\ UNCHANGED <<vars, session, drafts, bundle, imported, jobsTable, limit>>

UpdateEventDraft(n, form) ==
  /\ RequireEditableSession
  /\ notes[n].version < limit.edits
  /\ notes' = [notes EXCEPT ![n] = [draft |-> notes[n].draft, type |-> form.type, at |-> form.at,
                                    version |-> notes[n].version + 1]]
  /\ UNCHANGED <<vars, session, drafts, bundle, imported, jobsTable, limit>>

DeleteEventDraft(n) ==
  /\ RequireEditableSession
  /\ notes' = [notes EXCEPT ![n] = None]
  /\ UNCHANGED <<vars, session, drafts, bundle, imported, jobsTable, limit>>

Read(s) == [version |-> s.version, drafts |-> drafts, notes |-> notes]

\* The tab reads the session again; the model keeps what can be confirmed.
GetSessionBundle ==
  /\ session.status \notin {"none", "draft"}
  /\ bundle' = Read(session)
  /\ bundle' # bundle
  /\ UNCHANGED <<vars, session, drafts, notes, imported, jobsTable, limit>>

MarkPreviewGenerated ==
  /\ session.status = "draft"
  /\ session' = [session EXCEPT !.status = "preview_generated", !.version = session.version + 1]
  /\ UNCHANGED <<vars, drafts, notes, bundle, imported, jobsTable, limit>>

DiscardSession ==
  /\ session.status \in {"draft", "preview_generated"}
  /\ session' = [session EXCEPT !.status = "discarded", !.version = session.version + 1]
  /\ UNCHANGED <<vars, drafts, notes, bundle, imported, jobsTable, limit>>

-----------------------------------------------------------------------------
(* confirmSession. *)

Skipped(d) == drafts[d].form.dup # 0 /\ ~drafts[d].form.keep

\* The drafts as listDraftsBySession lists them: the last to be written first.
Listed(S) ==
  InOrder(S, {p \in S \X S : \/ drafts[p[1]].updated > drafts[p[2]].updated
                             \/ drafts[p[1]].updated = drafts[p[2]].updated /\ p[1] > p[2]})

KeptDrafts == {d \in LiveDrafts : ~Skipped(d)}
Kept == Listed(KeptDrafts)
Applied == Listed({d \in KeptDrafts : drafts[d].form.applied})

\* The notes of a draft by business time, then as they were made.
NotesOf(d) == BusinessOrder(notes, {n \in LiveNotes : notes[n].draft = d})

ImportKey(word, id) == <<None, word, id, 0>>

CreateApplicationFromDraft(d) ==
  [job |-> DraftJobs[d], resume |-> drafts[d].resume, version |-> 1, voided |-> FALSE,
   superseded |-> 0, key |-> ImportKey("imported application", d)]

MaterializeEventDrafts(a, d) ==
  [i \in DOMAIN NotesOf(d) |->
     LET n == NotesOf(d)[i]
     IN  MakeFeedbackEvent(a, notes[n].type, notes[n].at, 0, ImportKey("imported event", n))]

\* The events about the application that the k-th draft becomes.
EventsFromDraft(k) ==
  LET a == Len(applications) + k
      d == Applied[k]
  IN  <<MakeFeedbackEvent(a, "application_created", Now, 0, ImportKey("imported created", d))>>
        \o MaterializeEventDrafts(a, d)

\* `imported' is what the drafts say of the jobs they made; the row version they are given
\* with it is of no further use, as no draft of a confirmed session is edited.
Materialize ==
  /\ imported' = imported \o Kept
  /\ jobsTable' = jobsTable \cup {DraftJobs[d] : d \in ToSet(Kept)}
  /\ applications' = applications \o [k \in DOMAIN Applied |-> CreateApplicationFromDraft(Applied[k])]
  /\ events' = events \o FlattenSeq([k \in DOMAIN Applied |-> EventsFromDraft(k)])
  /\ UNCHANGED <<resumes, activeResume>>

\* Mutated: a confirmation that comes again under a new key is carried out again.
ConfirmAgain ==
  /\ session.status \in {"preview_generated", "confirmed"} /\ bundle # None
  /\ Len(imported) < 2 * Len(DraftJobs)
  /\ Materialize
  /\ session' = [session EXCEPT !.status = "confirmed"]
  /\ UNCHANGED <<drafts, notes, bundle, limit>>

\* One transaction; the request presents the version the tab read.
ConfirmSession ==
  /\ session.status = "preview_generated"
  /\ bundle # None /\ bundle.version = session.version
  /\ Materialize
  /\ session' = [session EXCEPT !.status = "confirmed", !.version = session.version + 1]
  /\ UNCHANGED <<drafts, notes, bundle, limit>>

-----------------------------------------------------------------------------
ImportCommand ==
  \/ CreateSession \/ GetSessionBundle \/ MarkPreviewGenerated \/ ConfirmSession \/ DiscardSession
  \/ \E form \in DraftForms, resume \in Resumes \cup {None} :
       CreateBaselineDraft(form, resume) \/ \E d \in LiveDrafts : UpdateBaselineDraft(d, form, resume)
  \/ \E d \in LiveDrafts : DeleteBaselineDraft(d) \/ \E form \in NoteForms : CreateEventDraft(d, form)
  \/ \E n \in LiveNotes : DeleteEventDraft(n) \/ \E form \in NoteForms : UpdateEventDraft(n, form)

\* The other commands, on jobs that exist, up to the bounds of the model.
JobMemoryCommand ==
  /\ limit.drafts > 0 => Len(events) < IF session.status = "confirmed" /\ Applied # <<>>
                                      THEN limit.end ELSE limit.start
  /\ Next
  /\ \A a \in DOMAIN applications' : applications'[a].job \in jobsTable
  /\ UNCHANGED importVars

ImportNext == ImportCommand \/ JobMemoryCommand

ImportSpec == ImportInit /\ [][ImportNext]_allVars

-----------------------------------------------------------------------------
\* Types, and that no draft is left without what it refers to.
ImportTypeOK ==
  /\ TypeOK
  /\ session.status \in {"none", "draft", "preview_generated", "confirmed", "discarded"}
  /\ \A d \in LiveDrafts : drafts[d] \in Draft /\ drafts[d].form.dup \in {0} \cup LiveDrafts
  /\ \A n \in LiveNotes : notes[n] \in Note /\ notes[n].draft \in LiveDrafts
  /\ \A a \in DOMAIN applications : applications[a].job \in jobsTable

\* A preview that carries the version now stored is the session as it stands, and what is
\* in the job memory after a confirmation, however often it was sent, is what the preview
\* showed: each draft that is not a duplicate made its job once, and an application with
\* all its events if it was applied for; a session that is not confirmed left nothing
\* (markPreviewGenerated, requireEditableSession, confirmSession).
ImportedAsPreviewed ==
  /\ session.status = "preview_generated" /\ bundle # None =>
       (bundle.version = session.version => bundle = Read(session))
  /\ IF session.status = "confirmed"
     THEN /\ bundle.drafts = drafts /\ bundle.notes = notes
          /\ imported = Kept
          /\ \A d \in ToSet(Applied) : \E a \in DOMAIN applications :
               /\ applications[a].key = ImportKey("imported application", d)
               /\ applications[a].job = DraftJobs[d]
               /\ \A n \in LiveNotes : notes[n].draft = d => \E i \in DOMAIN events :
                    /\ events[i].app = a /\ events[i].key = ImportKey("imported event", n)
                    /\ events[i].type = notes[n].type /\ events[i].at = notes[n].at
     ELSE /\ imported = <<>>
          /\ \A a \in DOMAIN applications : applications[a].key[2] # "imported application"

\* Whatever commands and imports come in whatever order, and come again, the log stays
\* whole: every reference leads to a row, no key is used twice, and the successors of a
\* voided application end.
LogIsWhole == ImportTypeOK /\ KeysOnce /\ SuccessorsEnd
=============================================================================
