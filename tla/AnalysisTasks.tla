---------------------------- MODULE AnalysisTasks ----------------------------
(***************************************************************************)
(* Radar's job-match analysis tasks: the rows of analysis_tasks and         *)
(* job_match_analysis_records, and the operating-system processes that      *)
(* share the SQLite file (the server, and scripts/retryAnalysisTask.ts run  *)
(* by hand with --commit).                                                  *)
(*                                                                          *)
(* Inside a process JavaScript runs to completion: a call keeps the event   *)
(* loop until it awaits the model.  Between processes nothing is exclusive  *)
(* but one SQL statement (or one transaction), so every read-then-update    *)
(* of the code is two steps here and loop[p] names the call that holds p's  *)
(* event loop between them.                                                 *)
(*                                                                          *)
(* The tasks are those of one candidate.  The id of a task is a function of *)
(* its input hash; a recovery task hashes the same frozen input plus        *)
(* recovery{of, generation}, so the tasks of one input form a chain and a   *)
(* task is <<input, generation>>.                                           *)
(***************************************************************************)
EXTENDS Naturals, FiniteSets

CONSTANTS
  Inputs,              \* frozen analysis inputs (input hashes) of the candidate
  Server,              \* the process that serves HTTP requests
  Clis,                \* processes running the retry script on the same file
  Calls,               \* slots for the calls in progress, over all processes
  None,                \* no call
  DefaultMaxAttempts,  \* DEFAULT_MAX_ATTEMPTS
  Ceiling,             \* MANUAL_RETRY_ATTEMPT_CEILING
  MaxGeneration,       \* bound: recovery generations explored
  MaxCrashes,          \* bound: process crashes explored
  RecoveryWired        \* may a start of the server call recoverOnStartup?  (As deployed, none does.)

ASSUME NoneAssumption == None \notin Calls
ASSUME ServerAssumption == Server \notin Clis
ASSUME BudgetAssumption ==
  /\ DefaultMaxAttempts \in Nat \ {0}
  /\ Ceiling \in Nat
  /\ DefaultMaxAttempts <= Ceiling
ASSUME BoundAssumption == MaxGeneration \in Nat /\ MaxCrashes \in Nat
ASSUME WiredAssumption == RecoveryWired \in BOOLEAN

Procs == {Server} \cup Clis
Tasks == Inputs \X (0 .. MaxGeneration)

Statuses == {"absent", "queued", "running", "succeeded", "failed", "cancelled"}
ProviderErrors == {"PROVIDER_ERROR", "CONFIGURATION_ERROR"}
ErrorCodes == ProviderErrors \cup
  {"", "CANCELLED_BY_USER", "RESULT_WRITE_FAILED", "PROCESS_RESTART_INTERRUPTED"}

\* A row of analysis_tasks; "absent" when there is none, result 0 for NULL.
Row == [status : Statuses, attempt : Nat, max : Nat, err : ErrorCodes, result : Nat]
\* A row of job_match_analysis_records: its task (by input hash), its id and
\* createdAt (one stamp), and supersedesAnalysisId (0 for NULL).
Record == [task : Tasks, stamp : Nat, supersedes : Nat]

Absent == [status |-> "absent", attempt |-> 0, max |-> 0, err |-> "", result |-> 0]

VARIABLES
  task,      \* analysis_tasks, by task id
  recs,      \* job_match_analysis_records
  call,      \* what each call in progress knows
  loop,      \* the call holding each process's event loop, or None
  inflight,  \* the executor's AbortController registry of each process
  up,        \* is the process running?
  scan,      \* rows recoverOnStartup has listed and not yet handled
  clock,     \* source of record stamps
  crashes,   \* crashes so far
  claims     \* history: how often the model was called for each task

vars == <<task, recs, call, loop, inflight, up, scan, clock, crashes, claims>>

Phases == {"launch", "claim", "calling", "record", "failing", "cancelling", "retrying"}
Idle == [pc |-> "idle"]
Busy == [pc : Phases, proc : Procs, task : Tasks, seen : Row,
         aborted : BOOLEAN, stamp : Nat, supersedes : Nat]
Scanned == [task : Tasks, seen : Row]

TypeOK ==
  /\ task \in [Tasks -> Row]
  /\ recs \subseteq Record
  /\ call \in [Calls -> {Idle} \cup Busy]
  /\ loop \in [Procs -> Calls \cup {None}]
  /\ inflight \in [Procs -> [Tasks -> Calls \cup {None}]]
  /\ up \in [Procs -> BOOLEAN]
  /\ scan \in [Procs -> SUBSET Scanned]
  /\ clock \in Nat
  /\ crashes \in Nat
  /\ claims \in [Tasks -> Nat]

Init ==
  /\ task = [t \in Tasks |-> Absent]
  /\ recs = {}
  /\ call = [c \in Calls |-> Idle]
  /\ loop = [p \in Procs |-> None]
  /\ inflight = [p \in Procs |-> [t \in Tasks |-> None]]
  /\ up = [p \in Procs |-> TRUE]
  /\ scan = [p \in Procs |-> {}]
  /\ clock = 0
  /\ crashes = 0
  /\ claims = [t \in Tasks |-> 0]

-----------------------------------------------------------------------------
(* The pure transitions of taskStateMachine.ts, on a row.                   *)

CreateQueuedTask ==
  [status |-> "queued", attempt |-> 0, max |-> DefaultMaxAttempts,
   err |-> "", result |-> 0]

CanStart(row) == row.status = "queued" /\ row.attempt < row.max
StartTask(row) == [row EXCEPT !.status = "running", !.attempt = @ + 1]

MarkSucceeded(row, id) ==
  [row EXCEPT !.status = "succeeded", !.result = id, !.err = ""]

MarkFailed(row, code) ==
  [row EXCEPT !.status = "failed", !.err = code, !.result = 0]

CanCancelFailed(row) == row.status \in {"queued", "running", "failed"}   \* mutated
CanCancel(row) == row.status \in {"queued", "running"}
CancelTask(row) ==
  [row EXCEPT !.status = "cancelled", !.err = "CANCELLED_BY_USER", !.result = 0]

Larger(a, b) == IF a >= b THEN a ELSE b

\* Mutated: no ceiling; or a cancelled task may be retried as well.
CanRetryUncapped(row) == row.status = "failed"
CanRetryCancelled(row) == row.status \in {"failed", "cancelled"} /\ row.attempt < Ceiling
CanRetry(row) == row.status = "failed" /\ row.attempt < Ceiling
\* Mutated: the retry starts the count afresh.
ManualRetryTaskReset(row) ==
  [row EXCEPT !.status = "queued", !.attempt = 0, !.err = "", !.result = 0]
ManualRetryTask(row) ==
  [row EXCEPT !.status = "queued", !.max = Larger(row.max, row.attempt + 1),
              !.err = "", !.result = 0]

-----------------------------------------------------------------------------
(* The event loop and the compare-and-set of AnalysisTaskRepository.        *)

\* p is running, its start-up scan is over and no call holds its event loop.
Free(p) == up[p] /\ scan[p] = {} /\ loop[p] = None

\* transition(): the WHERE clause on the status, and on the attempt count for
\* the callers that pass expectedAttemptCount.  The UPDATE then writes every
\* mutable column from the caller's row, whatever the stored row holds.
StatusMatches(t, seen) == task[t].status = seen.status
AttemptMatchesAlways(t, seen) == TRUE                         \* mutated: no CAS
AttemptMatches(t, seen) == StatusMatches(t, seen) /\ task[t].attempt = seen.attempt

\* A script process makes one call in its life; the server any number.
Available(p) ==
  Free(p) /\ (p \in Clis => \A d \in Calls : call[d] # Idle => call[d].proc # p)

Enter(c, p, t, phase) ==
  /\ call[c] = Idle
  /\ Available(p)
  /\ loop' = [loop EXCEPT ![p] = c]
  /\ call' = [call EXCEPT ![c] =
       [pc |-> phase, proc |-> p, task |-> t, seen |-> task[t],
        aborted |-> FALSE, stamp |-> 0, supersedes |-> 0]]

Leave(c) ==
  /\ call' = [call EXCEPT ![c] = Idle]
  /\ loop' = [loop EXCEPT ![call[c].proc] = None]

\* runTask's finally: drop the registry entry of the task, whoever put it there.
\* Mutated: the whole registry is cleared.
UnregisterAll(c) ==
  inflight' = [inflight EXCEPT ![call[c].proc] = [t \in Tasks |-> None]]
Unregister(c) ==
  inflight' = [inflight EXCEPT ![call[c].proc][call[c].task] = None]

-----------------------------------------------------------------------------
(* AnalysisService: creating tasks.                                         *)

CreateTask(i) ==
  /\ Free(Server)
  /\ task[<<i, 0>>] = Absent
  /\ task' = [task EXCEPT ![<<i, 0>>] = CreateQueuedTask]
  /\ UNCHANGED <<recs, call, loop, inflight, up, scan, clock, crashes, claims>>

\* The script with --recover: a failed task gets a successor with the same
\* frozen input and the next generation (or has one already); the failed row is
\* left alone.  The script goes on to run the successor.
CreateRecoveryTask(c, p, i, g) ==
  /\ g < MaxGeneration
  /\ task[<<i, g>>].status = "failed"
  /\ Enter(c, p, <<i, g + 1>>, "launch")
  /\ task' = IF task[<<i, g + 1>>] = Absent
             THEN [task EXCEPT ![<<i, g + 1>>] = CreateQueuedTask]
             ELSE task
  /\ UNCHANGED <<recs, inflight, up, scan, clock, crashes, claims>>

-----------------------------------------------------------------------------
(* AnalysisExecutor.runTask: claim, call the model, finish.                 *)

\* The server, asked to run a task.
ClaimRead(c, t) ==
  /\ CanStart(task[t])
  /\ Enter(c, Server, t, "claim")
  /\ inflight' = [inflight EXCEPT ![Server][t] = c]
  /\ UNCHANGED <<task, recs, up, scan, clock, crashes, claims>>

\* The script, after its retryTask or createRecoveryTask; a task it cannot
\* start ends the script.
LaunchRead(c) ==
  /\ call[c].pc = "launch"
  /\ LET t == call[c].task
         p == call[c].proc
     IN \/ /\ CanStart(task[t])
           /\ call' = [call EXCEPT ![c] = [@ EXCEPT !.pc = "claim", !.seen = task[t]]]
           /\ inflight' = [inflight EXCEPT ![p][t] = c]
           /\ UNCHANGED loop
        \/ /\ ~ CanStart(task[t])
           /\ Leave(c)
           /\ UNCHANGED inflight
  /\ UNCHANGED <<task, recs, up, scan, clock, crashes, claims>>

ClaimWins(c) ==
  /\ call[c].pc = "claim"
  /\ AttemptMatches(call[c].task, call[c].seen)
  /\ LET t == call[c].task
         running == StartTask(call[c].seen)
     IN /\ task' = [task EXCEPT ![t] = running]
        /\ claims' = [claims EXCEPT ![t] = @ + 1]
        /\ call' = [call EXCEPT ![c] = [@ EXCEPT !.pc = "calling", !.seen = running]]
  /\ loop' = [loop EXCEPT ![call[c].proc] = None]
  /\ UNCHANGED <<recs, inflight, up, scan, clock, crashes>>

ClaimLoses(c) ==
  /\ call[c].pc = "claim"
  /\ ~ AttemptMatches(call[c].task, call[c].seen)
  /\ Leave(c)
  /\ Unregister(c)
  /\ UNCHANGED <<task, recs, up, scan, clock, crashes, claims>>

\* The newest record of the candidate (createdAt DESC), 0 when it has none.
NewestRecord ==
  LET newest == {r \in recs : \A s \in recs : s.stamp <= r.stamp}
  IN IF newest = {} THEN 0 ELSE (CHOOSE r \in newest : TRUE).stamp

\* analyze returned a payload: buildRecord reads the newest record of the
\* candidate to fill supersedesAnalysisId, outside the write transaction.
ResultReturned(c) ==
  /\ call[c].pc = "calling"
  /\ Free(call[c].proc)
  /\ clock' = clock + 1
  /\ call' = [call EXCEPT ![c] = [@ EXCEPT !.pc = "record", !.stamp = clock + 1,
                                           !.supersedes = NewestRecord]]
  /\ loop' = [loop EXCEPT ![call[c].proc] = c]
  /\ UNCHANGED <<task, recs, inflight, up, scan, crashes, claims>>

\* markRunningFailed: reread; give up unless the row is still running, else
\* hold the reread row, to be written as failed(code).
RereadToFail(c, code) ==
  \/ /\ task[call[c].task].status = "running"
     /\ call' = [call EXCEPT ![c] =
          [@ EXCEPT !.pc = "failing", !.seen = MarkFailed(task[call[c].task], code)]]
     /\ loop' = [loop EXCEPT ![call[c].proc] = c]
     /\ UNCHANGED inflight
  \/ /\ task[call[c].task].status # "running"
     /\ Leave(c)
     /\ Unregister(c)

\* analyze threw.  An aborted call is reported as CANCELLED_BY_USER.
ErrorReturned(c, code) ==
  /\ call[c].pc = "calling"
  /\ Free(call[c].proc)
  /\ code = "CANCELLED_BY_USER" => call[c].aborted
  /\ RereadToFail(c, code)
  /\ UNCHANGED <<task, recs, up, scan, clock, crashes, claims>>

\* insertOrGetByInputHash, in the transaction of finishWithResult: the stored
\* record of the task's input hash, or the new one.
StoredRecord(c) ==
  LET mine == {r \in recs : r.task = call[c].task}
  IN IF mine # {} THEN CHOOSE r \in mine : TRUE
     ELSE [task |-> call[c].task, stamp |-> call[c].stamp,
           supersedes |-> call[c].supersedes]

WriteResult(c) ==
  /\ call[c].pc = "record"
  /\ task[call[c].task].status = "running"
  /\ recs' = recs \cup {StoredRecord(c)}
  /\ task' = [task EXCEPT ![call[c].task] = MarkSucceeded(@, StoredRecord(c).stamp)]
  /\ Leave(c)
  /\ Unregister(c)
  /\ UNCHANGED <<up, scan, clock, crashes, claims>>

\* A late result: the row is no longer running, nothing is written.
DiscardResult(c) ==
  /\ call[c].pc = "record"
  /\ task[call[c].task].status # "running"
  /\ Leave(c)
  /\ Unregister(c)
  /\ UNCHANGED <<task, recs, up, scan, clock, crashes, claims>>

\* Mutated: nobody catches what the transaction throws.
WriteResultThrowsOn(c) ==
  /\ call[c].pc = "record"
  /\ Leave(c)
  /\ Unregister(c)
  /\ UNCHANGED <<task, recs, up, scan, clock, crashes, claims>>

\* The transaction threw and was rolled back.
WriteResultThrows(c) ==
  /\ call[c].pc = "record"
  /\ RereadToFail(c, "RESULT_WRITE_FAILED")
  /\ UNCHANGED <<task, recs, up, scan, clock, crashes, claims>>

\* The UPDATE of markRunningFailed: only WHERE status = 'running'.
WriteFailure(c) ==
  /\ call[c].pc = "failing"
  /\ task' = IF task[call[c].task].status = "running"
             THEN [task EXCEPT ![call[c].task] = call[c].seen]
             ELSE task
  /\ Leave(c)
  /\ Unregister(c)
  /\ UNCHANGED <<recs, up, scan, clock, crashes, claims>>

-----------------------------------------------------------------------------
(* Cancelling and retrying.                                                 *)

CancelRead(c, t) ==
  /\ CanCancel(task[t])
  /\ Enter(c, Server, t, "cancelling")
  /\ UNCHANGED <<task, recs, inflight, up, scan, clock, crashes, claims>>

\* The row is settled first; then, if it was running, the controller that this
\* process registered for the task is aborted.
CancelWins(c) ==
  /\ call[c].pc = "cancelling"
  /\ StatusMatches(call[c].task, call[c].seen)
  /\ task' = [task EXCEPT ![call[c].task] = CancelTask(call[c].seen)]
  /\ LET run == inflight[call[c].proc][call[c].task]
     IN call' = [d \in Calls |->
          IF d = c THEN Idle
          ELSE IF d = run /\ call[c].seen.status = "running"
               THEN [call[d] EXCEPT !.aborted = TRUE]
               ELSE call[d]]
  /\ loop' = [loop EXCEPT ![call[c].proc] = None]
  /\ UNCHANGED <<recs, inflight, up, scan, clock, crashes, claims>>

CancelLoses(c) ==
  /\ call[c].pc = "cancelling"
  /\ ~ StatusMatches(call[c].task, call[c].seen)
  /\ Leave(c)
  /\ UNCHANGED <<task, recs, inflight, up, scan, clock, crashes, claims>>

RetryRead(c, p, t) ==
  /\ CanRetry(task[t])
  /\ Enter(c, p, t, "retrying")
  /\ UNCHANGED <<task, recs, inflight, up, scan, clock, crashes, claims>>

\* A lost CAS is still a success when somebody else has queued the task.  The
\* server answers its request; the script goes on to run the task.
RetryCas(c) ==
  /\ call[c].pc = "retrying"
  /\ LET t == call[c].task
     IN /\ task' = IF AttemptMatches(t, call[c].seen)
                   THEN [task EXCEPT ![t] = ManualRetryTask(call[c].seen)]
                   ELSE task
        /\ IF call[c].proc \in Clis /\ task'[t].status = "queued"
           THEN call' = [call EXCEPT ![c] = [@ EXCEPT !.pc = "launch"]] /\ UNCHANGED loop
           ELSE Leave(c)
  /\ UNCHANGED <<recs, inflight, up, scan, clock, crashes, claims>>

-----------------------------------------------------------------------------
(* Crash, restart, and the recovery scan.                                   *)

\* Everything a process holds in memory is gone; the rows stay.
Crash(p) ==
  /\ up[p]
  /\ crashes < MaxCrashes
  /\ crashes' = crashes + 1
  /\ up' = [up EXCEPT ![p] = FALSE]
  /\ scan' = [scan EXCEPT ![p] = {}]
  /\ loop' = [loop EXCEPT ![p] = None]
  /\ inflight' = [inflight EXCEPT ![p] = [t \in Tasks |-> None]]
  /\ call' = [c \in Calls |->
       IF call[c] # Idle /\ call[c].proc = p THEN Idle ELSE call[c]]
  /\ UNCHANGED <<task, recs, clock, claims>>

\* The program as deployed: nothing looks at the rows that an earlier process left.
Start(p) ==
  /\ ~ up[p]
  /\ up' = [up EXCEPT ![p] = TRUE]
  /\ UNCHANGED <<task, recs, call, loop, inflight, scan, clock, crashes, claims>>

\* The running rows (listRecoverable); queued rows are only reported.
Recoverable ==
  {[task |-> t, seen |-> task[t]] : t \in {u \in Tasks : task[u].status = "running"}}

\* A start that calls recoverOnStartup, as the executor's tests do: the scan lists the
\* running rows first.
StartAndRecover(p) ==
  /\ p = Server /\ RecoveryWired
  /\ ~ up[p]
  /\ up' = [up EXCEPT ![p] = TRUE]
  /\ scan' = [scan EXCEPT ![p] = Recoverable]
  /\ UNCHANGED <<task, recs, call, loop, inflight, clock, crashes, claims>>

\* One iteration of the scan: CAS on the status, from the listed row.
RecoverOne(p) ==
  /\ up[p]
  /\ \E x \in scan[p] :
       /\ scan' = [scan EXCEPT ![p] = @ \ {x}]
       /\ task' = IF task[x.task].status = "running"
                  THEN [task EXCEPT ![x.task] =
                          MarkFailed(x.seen, "PROCESS_RESTART_INTERRUPTED")]
                  ELSE task
  /\ UNCHANGED <<recs, call, loop, inflight, up, clock, crashes, claims>>

-----------------------------------------------------------------------------
\* What a call in progress does next, and what the model answers.
Proceed(c) ==
  \/ LaunchRead(c) \/ ClaimWins(c) \/ ClaimLoses(c)
  \/ WriteResult(c) \/ DiscardResult(c) \/ WriteResultThrows(c)
  \/ WriteFailure(c)
  \/ CancelWins(c) \/ CancelLoses(c)
  \/ RetryCas(c)

ModelAnswers(c) ==
  \/ ResultReturned(c)
  \/ \E code \in ProviderErrors \cup {"CANCELLED_BY_USER"} : ErrorReturned(c, code)

Next ==
  \/ \E i \in Inputs : CreateTask(i)
  \/ \E c \in Calls, p \in Clis, i \in Inputs, g \in 0 .. MaxGeneration :
       CreateRecoveryTask(c, p, i, g)
  \/ \E c \in Calls, t \in Tasks : ClaimRead(c, t)
  \/ \E c \in Calls, t \in Tasks : CancelRead(c, t)
  \/ \E c \in Calls, p \in Procs, t \in Tasks : RetryRead(c, p, t)
  \/ \E c \in Calls : Proceed(c)
  \/ \E c \in Calls : ModelAnswers(c)
  \/ \E p \in Procs : Crash(p) \/ Start(p) \/ StartAndRecover(p) \/ RecoverOne(p)

Spec == Init /\ [][Next]_vars

\* A call that holds the event loop runs on, the model answers or times out,
\* and a process that went down is started again.  Nothing obliges a user to
\* run, cancel or retry anything.
FairSpec ==
  /\ Spec
  /\ \A c \in Calls : WF_vars(Proceed(c)) /\ WF_vars(ModelAnswers(c))
  /\ \A p \in Procs : WF_vars(Start(p)) /\ WF_vars(RecoverOne(p))
-----------------------------------------------------------------------------
(* Properties.                                                              *)

Settled(t) == task[t].status \in {"succeeded", "failed", "cancelled"}
RecordsOf(t) == {r \in recs : r.task = t}

\* A task has a record exactly when it succeeded, it is the only one of its
\* input hash, and result_record_id names it: the record and the success are
\* one write, and a cancelled or failed task never leaves a record behind.
RecordIffSucceeded ==
  \A t \in Tasks :
    /\ task[t].status = "succeeded" =>
         \E r \in recs : RecordsOf(t) = {r} /\ r.stamp = task[t].result
    /\ task[t].status # "succeeded" => RecordsOf(t) = {} /\ task[t].result = 0

\* attempt_count is the number of times the model was called for the task,
\* through every retry, cancellation and crash.
AttemptsAreClaims == \A t \in Tasks : task[t].attempt = claims[t]

\* The model is never called more than Ceiling times for one task, and a
\* queued task can always be started: no retry queues a task that startTask
\* would refuse.
BudgetKept ==
  \A t \in Tasks :
    /\ claims[t] <= Ceiling
    /\ task[t].status = "queued" => CanStart(task[t])

Live(c) == call[c].pc \in {"calling", "record"}
Owns(c, t) == Live(c) /\ call[c].task = t /\ call[c].seen.attempt = task[t].attempt

\* Whenever a call waits for the model on behalf of the running attempt, its
\* process's registry leads a cancellation to that call.
LiveRunIsCancellable ==
  \A c \in Calls : \A t \in Tasks :
    /\ call[c].pc = "calling"
    /\ task[t].status = "running"
    /\ Owns(c, t)
    => inflight[call[c].proc][t] = c

\* One attempt is executed by at most one call, over all processes.
OneRunPerAttempt ==
  \A t \in Tasks : \A c, d \in Calls :
    Live(c) /\ Live(d) /\ call[c].task = t /\ call[d].task = t
      /\ call[c].seen.attempt = call[d].seen.attempt => c = d

\* An aborted call is one whose task a user has cancelled, so no row fails with
\* the code of a cancellation.
AbortOnlyWhenCancelled ==
  /\ \A c \in Calls : call[c] # Idle /\ call[c].aborted
                        => task[call[c].task].status = "cancelled"
  /\ \A t \in Tasks : task[t].status = "failed"
                        => task[t].err # "CANCELLED_BY_USER"

\* supersedesAnalysisId links the candidate's records into one chain from the
\* newest to the oldest.
SupersedesIsAChain ==
  \A r \in recs :
    r.supersedes = IF \E s \in recs : s.stamp < r.stamp
                   THEN CHOOSE n \in {s.stamp : s \in recs} :
                          /\ n < r.stamp
                          /\ \A s \in recs : s.stamp < r.stamp => s.stamp <= n
                   ELSE 0

\* A running row is settled by the call that claimed its current attempt, by a
\* cancellation or by the recovery scan; never by a call left over from an
\* earlier attempt.
SettledByOwner ==
  [][\A t \in Tasks :
       /\ task[t].status = "running"
       /\ task'[t].status = "succeeded"
       => \E c \in Calls : Owns(c, t) /\ call'[c] = Idle]_vars

\* A cancelled or succeeded row never changes again, in any column, however
\* late the call that still works on it.
TerminalRowsStay ==
  [][\A t \in Tasks :
       task[t].status \in {"cancelled", "succeeded"} => task'[t] = task[t]]_vars

\* Documented, and not so with two processes: attempt_count never decreases (the
\* comment over transition(), which keeps an old executor from overwriting).
AttemptsNeverDrop ==
  [][\A t \in Tasks : task'[t].attempt >= task[t].attempt]_vars

\* Documented, and not so: the status update never writes max_attempts (the
\* comment over the repository class).
MaxAttemptsNeverWritten ==
  [][\A t \in Tasks : task[t] # Absent => task'[t].max = task[t].max]_vars

\* An attempt for which a call waits is settled in the end -- by its result, late or
\* not, by its failure, when the result cannot be stored either, or by a cancellation --
\* unless a process dies meanwhile (finishWithResult, finishWithError, markRunningFailed).
AttemptsSettle ==
  \A t \in Tasks, n \in 0 .. MaxCrashes :
    (/\ crashes = n
     /\ task[t].status = "running"
     /\ \E c \in Calls : call[c].pc = "calling" /\ Owns(c, t))
      ~> (task[t].status # "running" \/ crashes # n)

\* Documented, and not so, as nothing calls recoverOnStartup: every running task is
\* settled in the end, whatever crashes.
RunningSettles ==
  \A t \in Tasks : task[t].status = "running" ~> task[t].status # "running"

\* Whatever the calls, processes and crashes do, the rows they leave behind
\* follow the life cycle.
Lifecycle == INSTANCE TaskLifecycle WITH
  phase <- [t \in Tasks |-> task[t].status],
  published <- {r.task : r \in recs}

ImplementsLifecycle == Lifecycle!Spec

\* What a call knows about the row it is about to overwrite, its own reread
\* included: the strengthening under which RecordIffSucceeded is inductive.
Knows(x) ==
  /\ x.pc = "claim" => x.seen.status = "queued" /\ x.seen.result = 0
  /\ x.pc = "cancelling" => CanCancel(x.seen)
  /\ x.pc = "retrying" => x.seen.status = "failed"
  /\ x.pc = "failing" => x.seen.status = "failed" /\ x.seen.result = 0

CallsKnow == \A c \in Calls : Knows(call[c])

IInv == TypeOK /\ RecordIffSucceeded /\ CallsKnow

\* However calls and crashes interleave, the attempt count of a task is the number of
\* times it was claimed, whatever was retried meanwhile, and the records of the candidate
\* form one chain (claim, manualRetryTask, buildRecord).
HistoryIsWhole == AttemptsAreClaims /\ SupersedesIsAChain

\* One attempt is one call of the model, and no sequence of retries, by the server or the
\* script, goes past the ceiling (claim, manualRetryTask).
CallsAreBudgeted == OneRunPerAttempt /\ BudgetKept
=============================================================================
