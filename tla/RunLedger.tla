------------------------------- MODULE RunLedger -------------------------------
(***************************************************************************)
(* The persistent record of a run, .cc-auto/runs/<id>/state.json           *)
(* (store.ts), and what a provider call writes to it (executor.ts).  The   *)
(* file is replaced by rename, so it always holds one whole record; what   *)
(* can go wrong is which record: a command keeps a copy in memory and      *)
(* saves all of it, while the executor loads, changes and saves the file.  *)
(***************************************************************************)
EXTENDS Naturals, Sequences, SequencesExt

CONSTANTS Calls, None, ByModelName

Phases == {"INTAKE", "SCOUT", "IMPLEMENT", "REPAIR_1", "REPAIR_2", "VERIFY", "FINAL_VERIFY",
           "ARBITRATE", "APPLY_DECISION", "DONE", "STOPPED"}
Statuses == {"PREPARED", "DISPATCHED", "COMPLETED", "UNKNOWN_AFTER_CRASH"}
\* What the task says, read again from the description on every attempt: whether it
\* is simple, names files, is for the strong model, risky, or a single edit.
Tasks == [simple : BOOLEAN, explicit : BOOLEAN, hard : BOOLEAN, risky : BOOLEAN, direct : BOOLEAN]

Attempt == [id : Calls, status : Statuses]

\* `next': the strong model is to make the next repair; `flash': a discovery by the fast
\* model is to be repaired by the strong one; `changed': files are known to have changed.
RunState == [task : Tasks, phase : Phases, done : BOOLEAN, calls : Seq(Calls \cup {ByModelName}),
             history : SUBSET Attempt, pending : Attempt \cup {None}, cycles : Nat,
             next : BOOLEAN, flash : BOOLEAN, decisions : Nat, seen : Nat,
             changed : BOOLEAN, direct : BOOLEAN, opus : Nat]

CreateRunState(t) ==
  [task |-> t, phase |-> "INTAKE", done |-> FALSE, calls |-> << >>, history |-> {},
   pending |-> None, cycles |-> 0, next |-> FALSE, flash |-> FALSE, decisions |-> 0,
   seen |-> 0, changed |-> FALSE, direct |-> FALSE, opus |-> 0]

Stopped(s) == [s EXCEPT !.phase = "STOPPED", !.done = TRUE]

PersistPendingCall(s, c, status) == [s EXCEPT !.pending = [id |-> c, status |-> status]]

\* An attempt is archived once; a second archive of the same call is dropped.
Archive(s, c, status) ==
  IF \E a \in s.history : a.id = c THEN s.history
  ELSE s.history \cup {[id |-> c, status |-> status]}

\* A known end: archived, recorded and cleared in one save.  When the file has lost the
\* call meanwhile, the charge is recorded under the name of the model.
CompleteKnownCall(s) ==
  IF s.pending = None THEN [s EXCEPT !.calls = Append(@, ByModelName)]
  ELSE [s EXCEPT !.history = Archive(s, s.pending.id, "COMPLETED"),
                 !.calls = Append(@, s.pending.id),
                 !.pending = None]

\* Mutated: the attempt is marked and not archived.
MarkWithoutArchive(s, c) == [s EXCEPT !.pending.status = "UNKNOWN_AFTER_CRASH"]

\* An exception of the transport: whether the provider charged for it is not known.
MarkPendingCallUnknown(s, c) ==
  IF s.pending = None THEN s
  ELSE IF s.pending.id # c THEN s
  ELSE [s EXCEPT !.history = Archive(s, c, "UNKNOWN_AFTER_CRASH"),
                 !.pending.status = "UNKNOWN_AFTER_CRASH"]

\* Mutated: the copy in memory goes on with what it had.
ReloadNothing(s, disk) == s

\* After a tool loop the copy in memory takes the ledger from the file.
Reload(s, disk) ==
  [s EXCEPT !.calls = disk.calls, !.pending = disk.pending, !.history = disk.history,
            !.decisions = disk.decisions]

CallIds(s) == {s.calls[i] : i \in DOMAIN s.calls}
\* The calls a record accounts for, whatever is known of them.
Accounted(s) == CallIds(s) \cup {a.id : a \in s.history}
                \cup (IF s.pending = None THEN {} ELSE {s.pending.id})
=============================================================================
