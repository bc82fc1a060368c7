------------------------- MODULE AnalysisTasksProofs -------------------------
(***************************************************************************)
(* For every set of inputs, calls and script processes, any attempt budget, *)
(* any number of crashes, and with or without the recovery scan:            *)
(* a task has a formal record exactly when it succeeded                     *)
(* (RecordIffSucceeded), and the rows follow the life cycle of              *)
(* TaskLifecycle.  The inductive invariant is IInv of AnalysisTasks.        *)
(*                                                                          *)
(* Where no scanning server shares the file, an attempt is one call of the  *)
(* model, within the ceiling (CallsAreBudgeted), a live call is cancellable *)
(* (LiveRunIsCancellable) and only its own call settles an attempt          *)
(* (SettledByOwner).  The inductive invariant is IInv /\ RunInv.            *)
(* For one server alone, with or without the scan, HistoryIsWhole follows   *)
(* from HistoryInv on top of both.                                          *)
(***************************************************************************)
EXTENDS AnalysisTasks, TLAPS

-----------------------------------------------------------------------------
(* The row transitions stay within Row.                                     *)

LEMMA RowTransitions ==
  ASSUME NEW row \in Row, NEW code \in ErrorCodes, NEW id \in Nat
  PROVE  /\ CreateQueuedTask \in Row
         /\ StartTask(row) \in Row
         /\ MarkSucceeded(row, id) \in Row
         /\ MarkFailed(row, code) \in Row
         /\ CancelTask(row) \in Row
         /\ ManualRetryTask(row) \in Row
<1>1. CreateQueuedTask \in Row
  BY BudgetAssumption DEF Row, Statuses, ErrorCodes, CreateQueuedTask
<1>2. StartTask(row) \in Row
  <2>1. row.attempt + 1 \in Nat
    BY DEF Row
  <2>2. QED
    BY <2>1 DEF Row, Statuses, StartTask
<1>3. MarkSucceeded(row, id) \in Row
  BY DEF Row, Statuses, ErrorCodes, MarkSucceeded
<1>4. MarkFailed(row, code) \in Row
  BY DEF Row, Statuses, MarkFailed
<1>5. CancelTask(row) \in Row
  BY DEF Row, Statuses, ErrorCodes, CancelTask
<1>6. ManualRetryTask(row) \in Row
  <2>1. Larger(row.max, row.attempt + 1) \in Nat
    BY DEF Row, Larger
  <2>2. QED
    BY <2>1 DEF Row, Statuses, ErrorCodes, ManualRetryTask
<1>7. QED
  BY <1>1, <1>2, <1>3, <1>4, <1>5, <1>6

\* The newest record's stamp is a number, 0 when there is none.
LEMMA NewestIsNat ==
  ASSUME recs \subseteq Record
  PROVE  NewestRecord \in Nat
<1> DEFINE newest == {r \in recs : \A s \in recs : s.stamp <= r.stamp}
<1>1. newest # {} => (CHOOSE r \in newest : TRUE) \in newest
  OBVIOUS
<1>2. \A r \in newest : r.stamp \in Nat
  BY DEF Record
<1>3. QED
  BY <1>1, <1>2 DEF NewestRecord
-----------------------------------------------------------------------------
(* How one step may change one row, and what one call knows.                *)

\* A row that is not succeeded is replaced by another such row, and no record
\* is written.
LEMMA RowStep ==
  ASSUME TypeOK, RecordIffSucceeded, NEW t \in Tasks, NEW row \in Row,
         task[t].status # "succeeded", row.status # "succeeded", row.result = 0,
         task' = [task EXCEPT ![t] = row], recs' = recs
  PROVE  RecordIffSucceeded' /\ task' \in [Tasks -> Row]
BY DEF TypeOK, RecordIffSucceeded, RecordsOf

\* A step that touches neither table.
LEMMA NoWrite ==
  ASSUME TypeOK, RecordIffSucceeded, UNCHANGED <<task, recs>>
  PROVE  RecordIffSucceeded' /\ task' \in [Tasks -> Row]
BY DEF TypeOK, RecordIffSucceeded, RecordsOf

LEMMA CallStep ==
  ASSUME TypeOK, CallsKnow, NEW c \in Calls, NEW x \in {Idle} \cup Busy, Knows(x),
         call' = [call EXCEPT ![c] = x]
  PROVE  call' \in [Calls -> {Idle} \cup Busy] /\ CallsKnow'
BY DEF TypeOK, CallsKnow

LEMMA IdleKnows == Knows(Idle) /\ Idle \in {Idle} \cup Busy
BY DEF Knows, Idle

\* A call in one of the phases is a busy one.
LEMMA PhaseIsBusy ==
  ASSUME TypeOK, NEW c \in Calls, call[c].pc \in Phases
  PROVE  /\ call[c] \in Busy
         /\ call[c].task \in Tasks /\ call[c].proc \in Procs
         /\ call[c].seen \in Row /\ call[c].stamp \in Nat
         /\ call[c].supersedes \in Nat
<1>1. call[c] # Idle
  BY DEF Idle, Phases
<1>2. QED
  BY <1>1 DEF TypeOK, Busy

\* Moving a busy call to another phase, with another row in hand.
LEMMA BusyMoves ==
  ASSUME NEW x \in Busy, NEW pc \in Phases, NEW row \in Row,
         NEW n \in Nat, NEW m \in Nat
  PROVE  /\ [x EXCEPT !.pc = pc, !.seen = row] \in Busy
         /\ [x EXCEPT !.pc = pc] \in Busy
         /\ [x EXCEPT !.pc = pc, !.stamp = n, !.supersedes = m] \in Busy
         /\ [x EXCEPT !.aborted = TRUE] \in Busy
<1>1. [x EXCEPT !.pc = pc, !.seen = row] \in Busy
  BY DEF Busy
<1>2. [x EXCEPT !.pc = pc] \in Busy
  BY DEF Busy
<1>3. [x EXCEPT !.pc = pc, !.stamp = n, !.supersedes = m] \in Busy
  BY DEF Busy
<1>4. [x EXCEPT !.aborted = TRUE] \in Busy
  BY DEF Busy
<1>5. QED
  BY <1>1, <1>2, <1>3, <1>4

-----------------------------------------------------------------------------
(* One lemma for each kind of step.                                         *)

\* The variables the two tables and the calls do not hold.
RestOK ==
  /\ recs \subseteq Record
  /\ loop \in [Procs -> Calls \cup {None}]
  /\ inflight \in [Procs -> [Tasks -> Calls \cup {None}]]
  /\ up \in [Procs -> BOOLEAN]
  /\ scan \in [Procs -> SUBSET Scanned]
  /\ clock \in Nat
  /\ crashes \in Nat
  /\ claims \in [Tasks -> Nat]

LEMMA Assemble ==
  ASSUME task' \in [Tasks -> Row], call' \in [Calls -> {Idle} \cup Busy], RestOK',
         RecordIffSucceeded', CallsKnow'
  PROVE  IInv'
BY DEF IInv, TypeOK, RestOK

LEMMA RestOfIInv == IInv => RestOK /\ TypeOK /\ RecordIffSucceeded /\ CallsKnow
BY DEF IInv, TypeOK, RestOK

LEMMA CreateTaskStep ==
  ASSUME IInv, NEW i \in Inputs, CreateTask(i)
  PROVE  IInv'
<1> USE RestOfIInv
<1> DEFINE t == <<i, 0>>
<1>1. t \in Tasks
  BY BoundAssumption DEF Tasks
<1>2. RecordIffSucceeded' /\ task' \in [Tasks -> Row]
  <2>1. CreateQueuedTask \in Row
    BY BudgetAssumption DEF CreateQueuedTask, Row, Statuses, ErrorCodes
  <2>2. task[t].status # "succeeded"
    <3>1. task[t] = Absent
      BY DEF CreateTask
    <3>2. Absent.status = "absent"
      BY DEF Absent
    <3>3. QED
      BY <3>1, <3>2
  <2>3. CreateQueuedTask.status # "succeeded" /\ CreateQueuedTask.result = 0
    BY DEF CreateQueuedTask
  <2>4. task' = [task EXCEPT ![t] = CreateQueuedTask] /\ recs' = recs
    BY DEF CreateTask
  <2>5. QED
    BY <1>1, <2>1, <2>2, <2>3, <2>4, RowStep
<1>3. call' \in [Calls -> {Idle} \cup Busy] /\ CallsKnow'
  BY DEF CreateTask, TypeOK, CallsKnow
<1>4. RestOK'
  BY DEF CreateTask, RestOK
<1>5. QED
  BY <1>2, <1>3, <1>4, Assemble

\* A call that enters holds the row it has just read.
LEMMA EnterStep ==
  ASSUME IInv, NEW c \in Calls, NEW p \in Procs, NEW t \in Tasks,
         NEW phase \in Phases, Enter(c, p, t, phase),
         phase = "claim" => CanStart(task[t]),
         phase = "cancelling" => CanCancel(task[t]),
         phase = "retrying" => CanRetry(task[t]),
         phase # "failing"
  PROVE  /\ call' \in [Calls -> {Idle} \cup Busy]
         /\ CallsKnow'
         /\ loop' \in [Procs -> Calls \cup {None}]
<1> USE RestOfIInv
<1> DEFINE x == [pc |-> phase, proc |-> p, task |-> t, seen |-> task[t],
                 aborted |-> FALSE, stamp |-> 0, supersedes |-> 0]
<1>1. x \in Busy
  BY DEF TypeOK, Busy
<1>2. task[t].status = "queued" => task[t].result = 0
  BY DEF RecordIffSucceeded
<1>3. Knows(x)
  BY <1>2 DEF Knows, CanStart, CanRetry
<1>4. call' = [call EXCEPT ![c] = x]
  BY DEF Enter
<1>5. loop' \in [Procs -> Calls \cup {None}]
  BY DEF Enter, TypeOK
<1> HIDE DEF x
<1>6. QED
  BY <1>1, <1>3, <1>4, <1>5, CallStep

LEMMA LeaveStep ==
  ASSUME IInv, NEW c \in Calls, call[c].pc \in Phases, Leave(c)
  PROVE  /\ call' \in [Calls -> {Idle} \cup Busy]
         /\ CallsKnow'
         /\ loop' \in [Procs -> Calls \cup {None}]
<1> USE RestOfIInv
<1>1. call' \in [Calls -> {Idle} \cup Busy] /\ CallsKnow'
  BY IdleKnows, CallStep DEF Leave
<1>2. loop' \in [Procs -> Calls \cup {None}]
  BY DEF Leave, TypeOK
<1>3. QED
  BY <1>1, <1>2

\* The registry keeps its shape whether a call is registered or dropped.
LEMMA RegistryStep ==
  ASSUME TypeOK, NEW p \in Procs, NEW t \in Tasks, NEW c \in Calls \cup {None},
         inflight' = [inflight EXCEPT ![p][t] = c]
  PROVE  inflight' \in [Procs -> [Tasks -> Calls \cup {None}]]
BY DEF TypeOK

-----------------------------------------------------------------------------
(* The steps that only read: no row is written.                             *)

LEMMA CreateRecoveryTaskStep ==
  ASSUME IInv, NEW c \in Calls, NEW p \in Clis, NEW i \in Inputs,
         NEW g \in 0 .. MaxGeneration, CreateRecoveryTask(c, p, i, g)
  PROVE  IInv'
<1> USE RestOfIInv
<1> DEFINE t == <<i, g + 1>>
<1>1. t \in Tasks /\ p \in Procs
  BY BoundAssumption DEF Tasks, CreateRecoveryTask, Procs
<1>2. RecordIffSucceeded' /\ task' \in [Tasks -> Row]
  <2>1. CreateQueuedTask \in Row
    BY BudgetAssumption DEF CreateQueuedTask, Row, Statuses, ErrorCodes
  <2>2. CASE task[t] = Absent
    <3>1. Absent.status = "absent"
      BY DEF Absent
    <3>2. task[t].status # "succeeded"
      BY <2>2, <3>1
    <3>3. CreateQueuedTask.status # "succeeded" /\ CreateQueuedTask.result = 0
      BY DEF CreateQueuedTask
    <3>4. task' = [task EXCEPT ![t] = CreateQueuedTask] /\ recs' = recs
      BY <2>2 DEF CreateRecoveryTask
    <3>5. QED
      BY <1>1, <2>1, <3>2, <3>3, <3>4, RowStep
  <2>3. CASE task[t] # Absent
    BY <2>3, NoWrite DEF CreateRecoveryTask
  <2>4. QED
    BY <2>2, <2>3
<1>3. /\ call' \in [Calls -> {Idle} \cup Busy]
      /\ CallsKnow'
      /\ loop' \in [Procs -> Calls \cup {None}]
  <2>1. Enter(c, p, t, "launch")
    BY DEF CreateRecoveryTask
  <2>2. "launch" \in Phases
    BY DEF Phases
  <2>3. QED
    BY <1>1, <2>1, <2>2, EnterStep
<1>4. RestOK'
  BY <1>3 DEF CreateRecoveryTask, RestOK
<1>5. QED
  BY <1>2, <1>3, <1>4, Assemble

LEMMA ClaimReadStep ==
  ASSUME IInv, NEW c \in Calls, NEW t \in Tasks, ClaimRead(c, t)
  PROVE  IInv'
<1> USE RestOfIInv
<1>1. Server \in Procs /\ "claim" \in Phases
  BY DEF Procs, Phases
<1>2. RecordIffSucceeded' /\ task' \in [Tasks -> Row]
  BY NoWrite DEF ClaimRead
<1>3. /\ call' \in [Calls -> {Idle} \cup Busy]
      /\ CallsKnow'
      /\ loop' \in [Procs -> Calls \cup {None}]
  BY <1>1, EnterStep DEF ClaimRead
<1>4. inflight' \in [Procs -> [Tasks -> Calls \cup {None}]]
  BY <1>1, RegistryStep DEF ClaimRead
<1>5. RestOK'
  BY <1>3, <1>4 DEF ClaimRead, RestOK
<1>6. QED
  BY <1>2, <1>3, <1>5, Assemble

LEMMA CancelReadStep ==
  ASSUME IInv, NEW c \in Calls, NEW t \in Tasks, CancelRead(c, t)
  PROVE  IInv'
<1> USE RestOfIInv
<1>1. Server \in Procs /\ "cancelling" \in Phases
  BY DEF Procs, Phases
<1>2. RecordIffSucceeded' /\ task' \in [Tasks -> Row]
  BY NoWrite DEF CancelRead
<1>3. /\ call' \in [Calls -> {Idle} \cup Busy]
      /\ CallsKnow'
      /\ loop' \in [Procs -> Calls \cup {None}]
  BY <1>1, EnterStep DEF CancelRead
<1>4. RestOK'
  BY <1>3 DEF CancelRead, RestOK
<1>5. QED
  BY <1>2, <1>3, <1>4, Assemble

LEMMA RetryReadStep ==
  ASSUME IInv, NEW c \in Calls, NEW p \in Procs, NEW t \in Tasks, RetryRead(c, p, t)
  PROVE  IInv'
<1> USE RestOfIInv
<1>1. "retrying" \in Phases
  BY DEF Phases
<1>2. RecordIffSucceeded' /\ task' \in [Tasks -> Row]
  BY NoWrite DEF RetryRead
<1>3. /\ call' \in [Calls -> {Idle} \cup Busy]
      /\ CallsKnow'
      /\ loop' \in [Procs -> Calls \cup {None}]
  BY <1>1, EnterStep DEF RetryRead
<1>4. RestOK'
  BY <1>3 DEF RetryRead, RestOK
<1>5. QED
  BY <1>2, <1>3, <1>4, Assemble

LEMMA LaunchReadStep ==
  ASSUME IInv, NEW c \in Calls, LaunchRead(c)
  PROVE  IInv'
<1> USE RestOfIInv
<1>1. call[c].pc \in Phases /\ "claim" \in Phases
  BY DEF LaunchRead, Phases
<1>2. /\ call[c] \in Busy
      /\ call[c].task \in Tasks /\ call[c].proc \in Procs
  BY <1>1, PhaseIsBusy
<1>3. RecordIffSucceeded' /\ task' \in [Tasks -> Row]
  BY NoWrite DEF LaunchRead
<1> DEFINE t == call[c].task
<1>4. CASE CanStart(task[t])
  <2> DEFINE x == [call[c] EXCEPT !.pc = "claim", !.seen = task[t]]
  <2>1. task[t] \in Row
    BY <1>2 DEF TypeOK
  <2>2. x \in Busy
    BY <1>1, <1>2, <2>1, BusyMoves
  <2>3. task[t].status = "queued" /\ task[t].result = 0
    BY <1>2, <1>4 DEF RecordIffSucceeded, CanStart
  <2>4. x.pc = "claim" /\ x.seen = task[t]
    BY <1>2 DEF Busy
  <2>5. Knows(x)
    BY <2>3, <2>4 DEF Knows
  <2>6. call' = [call EXCEPT ![c] = x]
    BY <1>4 DEF LaunchRead
  <2>7. call' \in [Calls -> {Idle} \cup Busy] /\ CallsKnow'
    <3> HIDE DEF x
    <3>1. QED
      BY <2>2, <2>5, <2>6, CallStep
  <2>8. inflight' \in [Procs -> [Tasks -> Calls \cup {None}]]
    BY <1>2, <1>4, RegistryStep DEF LaunchRead
  <2>9. RestOK'
    BY <1>4, <2>8 DEF LaunchRead, RestOK
  <2>10. QED
    BY <1>3, <2>7, <2>9, Assemble
<1>5. CASE ~ CanStart(task[t])
  <2>1. Leave(c)
    BY <1>5 DEF LaunchRead
  <2>2. /\ call' \in [Calls -> {Idle} \cup Busy]
        /\ CallsKnow'
        /\ loop' \in [Procs -> Calls \cup {None}]
    BY <1>1, <2>1, LeaveStep
  <2>3. RestOK'
    BY <1>5, <2>2 DEF LaunchRead, RestOK
  <2>4. QED
    BY <1>3, <2>2, <2>3, Assemble
<1>6. QED
  BY <1>4, <1>5

-----------------------------------------------------------------------------
(* Claiming a task, and what the model answers.                             *)

LEMMA ClaimWinsStep ==
  ASSUME IInv, NEW c \in Calls, ClaimWins(c)
  PROVE  IInv'
<1> USE RestOfIInv
<1> DEFINE t == call[c].task
           seen == call[c].seen
           running == StartTask(seen)
           x == [call[c] EXCEPT !.pc = "calling", !.seen = running]
<1>1. call[c].pc \in Phases /\ "calling" \in Phases
  BY DEF ClaimWins, Phases
<1>2. /\ call[c] \in Busy
      /\ t \in Tasks /\ call[c].proc \in Procs /\ seen \in Row
  BY <1>1, PhaseIsBusy
<1>3. seen.status = "queued" /\ seen.result = 0
  BY DEF ClaimWins, CallsKnow, Knows
<1>4. running \in Row /\ running.status = "running" /\ running.result = 0
  <2>1. running \in Row
    <3>1. seen.attempt + 1 \in Nat
      BY <1>2 DEF Row
    <3>2. QED
      BY <1>2, <3>1 DEF StartTask, Row, Statuses
  <2>2. QED
    BY <2>1, <1>2, <1>3 DEF StartTask, Row
<1>5. RecordIffSucceeded' /\ task' \in [Tasks -> Row]
  <2>1. task[t].status # "succeeded"
    BY <1>3 DEF ClaimWins, AttemptMatches, StatusMatches
  <2>2. task' = [task EXCEPT ![t] = running] /\ recs' = recs
    BY DEF ClaimWins
  <2> HIDE DEF running, t
  <2>3. QED
    BY <1>2, <1>4, <2>1, <2>2, RowStep
<1>6. call' \in [Calls -> {Idle} \cup Busy] /\ CallsKnow'
  <2>1. x \in Busy
    BY <1>1, <1>2, <1>4, BusyMoves
  <2>2. Knows(x)
    BY <1>2 DEF Knows, Busy
  <2>3. call' = [call EXCEPT ![c] = x]
    BY DEF ClaimWins
  <2> HIDE DEF x
  <2>4. QED
    BY <2>1, <2>2, <2>3, CallStep
<1>7. RestOK'
  <2>1. loop' \in [Procs -> Calls \cup {None}]
    BY <1>2 DEF ClaimWins, TypeOK
  <2>2. claims' \in [Tasks -> Nat]
    BY <1>2 DEF ClaimWins, TypeOK
  <2>3. QED
    BY <2>1, <2>2 DEF ClaimWins, RestOK
<1>8. QED
  BY <1>5, <1>6, <1>7, Assemble

\* A call that ends and drops its registry entry.
LEMMA EndStep ==
  ASSUME IInv, NEW c \in Calls, call[c].pc \in Phases, Leave(c), Unregister(c),
         UNCHANGED <<up, scan, clock, crashes, claims>>, recs' \subseteq Record
  PROVE  call' \in [Calls -> {Idle} \cup Busy] /\ CallsKnow' /\ RestOK'
<1> USE RestOfIInv
<1>1. /\ call' \in [Calls -> {Idle} \cup Busy]
      /\ CallsKnow'
      /\ loop' \in [Procs -> Calls \cup {None}]
  BY LeaveStep
<1>2. call[c].task \in Tasks /\ call[c].proc \in Procs
  BY PhaseIsBusy
<1>3. inflight' \in [Procs -> [Tasks -> Calls \cup {None}]]
  BY <1>2, RegistryStep DEF Unregister
<1>4. QED
  BY <1>1, <1>3 DEF RestOK

LEMMA ClaimLosesStep ==
  ASSUME IInv, NEW c \in Calls, ClaimLoses(c)
  PROVE  IInv'
<1> USE RestOfIInv
<1>1. call[c].pc \in Phases
  BY DEF ClaimLoses, Phases
<1>2. RecordIffSucceeded' /\ task' \in [Tasks -> Row]
  BY NoWrite DEF ClaimLoses
<1>3. QED
  BY <1>1, <1>2, EndStep, Assemble DEF ClaimLoses, RestOK

LEMMA ResultReturnedStep ==
  ASSUME IInv, NEW c \in Calls, ResultReturned(c)
  PROVE  IInv'
<1> USE RestOfIInv
<1> DEFINE x == [call[c] EXCEPT !.pc = "record", !.stamp = clock + 1,
                                !.supersedes = NewestRecord]
<1>1. call[c].pc \in Phases /\ "record" \in Phases
  BY DEF ResultReturned, Phases
<1>2. /\ call[c] \in Busy
      /\ call[c].proc \in Procs /\ call[c].seen \in Row
  BY <1>1, PhaseIsBusy
<1>3. NewestRecord \in Nat /\ clock + 1 \in Nat
  BY NewestIsNat DEF RestOK
<1>4. call' \in [Calls -> {Idle} \cup Busy] /\ CallsKnow'
  <2>1. x \in Busy
    BY <1>1, <1>2, <1>3, BusyMoves
  <2>2. Knows(x)
    BY <1>2 DEF Knows, Busy
  <2>3. call' = [call EXCEPT ![c] = x]
    BY DEF ResultReturned
  <2> HIDE DEF x
  <2>4. QED
    BY <2>1, <2>2, <2>3, CallStep
<1>5. RestOK'
  <2>1. loop' \in [Procs -> Calls \cup {None}]
    BY <1>2 DEF ResultReturned, TypeOK
  <2>2. QED
    BY <1>3, <2>1 DEF ResultReturned, RestOK
<1>6. RecordIffSucceeded' /\ task' \in [Tasks -> Row]
  BY NoWrite DEF ResultReturned
<1>7. QED
  BY <1>4, <1>5, <1>6, Assemble

\* The failure path rereads the row and writes nothing yet.
LEMMA RereadStep ==
  ASSUME IInv, NEW c \in Calls, NEW code \in ErrorCodes, call[c].pc \in Phases,
         RereadToFail(c, code), UNCHANGED <<task, recs, up, scan, clock, crashes, claims>>
  PROVE  IInv'
<1> USE RestOfIInv
<1> DEFINE t == call[c].task
           failed == MarkFailed(task[t], code)
           x == [call[c] EXCEPT !.pc = "failing", !.seen = failed]
<1>1. /\ call[c] \in Busy
      /\ t \in Tasks /\ call[c].proc \in Procs
  BY PhaseIsBusy
<1>2. RecordIffSucceeded' /\ task' \in [Tasks -> Row]
  BY NoWrite
<1>3. CASE task[t].status = "running"
  <2>1. task[t] \in Row
    BY <1>1 DEF TypeOK
  <2>2. failed \in Row /\ failed.status = "failed" /\ failed.result = 0
    <3>1. failed \in Row
      BY <2>1 DEF MarkFailed, Row, Statuses
    <3>2. QED
      BY <3>1, <2>1 DEF MarkFailed, Row
  <2>3. x \in Busy
    <3>1. "failing" \in Phases
      BY DEF Phases
    <3>2. QED
      BY <1>1, <2>2, <3>1, BusyMoves
  <2>4. x.pc = "failing" /\ x.seen = failed
    BY <1>1 DEF Busy
  <2>5. Knows(x)
    BY <2>2, <2>4 DEF Knows
  <2>6. /\ call' = [call EXCEPT ![c] = x]
        /\ loop' = [loop EXCEPT ![call[c].proc] = c]
        /\ inflight' = inflight
    BY <1>3 DEF RereadToFail
  <2>7. call' \in [Calls -> {Idle} \cup Busy] /\ CallsKnow'
    <3> HIDE DEF x
    <3>1. QED
      BY <2>3, <2>5, <2>6, CallStep
  <2>8. RestOK'
    BY <1>1, <2>6 DEF RestOK
  <2>9. QED
    BY <1>2, <2>7, <2>8, Assemble
<1>4. CASE task[t].status # "running"
  <2>1. Leave(c) /\ Unregister(c)
    BY <1>4 DEF RereadToFail
  <2>2. recs' \subseteq Record
    BY DEF RestOK
  <2>3. QED
    BY <1>2, <2>1, <2>2, EndStep, Assemble
<1>5. QED
  BY <1>3, <1>4

LEMMA ErrorReturnedStep ==
  ASSUME IInv, NEW c \in Calls, NEW code \in ProviderErrors \cup {"CANCELLED_BY_USER"},
         ErrorReturned(c, code)
  PROVE  IInv'
<1>1. code \in ErrorCodes /\ call[c].pc \in Phases
  BY DEF ErrorCodes, ErrorReturned, Phases
<1>2. QED
  BY <1>1, RereadStep DEF ErrorReturned

LEMMA WriteResultThrowsStep ==
  ASSUME IInv, NEW c \in Calls, WriteResultThrows(c)
  PROVE  IInv'
<1>1. "RESULT_WRITE_FAILED" \in ErrorCodes /\ call[c].pc \in Phases
  BY DEF ErrorCodes, WriteResultThrows, Phases
<1>2. QED
  BY <1>1, RereadStep DEF WriteResultThrows

-----------------------------------------------------------------------------
(* The writes that end a run.                                               *)

LEMMA WriteResultStep ==
  ASSUME IInv, NEW c \in Calls, WriteResult(c)
  PROVE  IInv'
<1> USE RestOfIInv
<1> DEFINE t == call[c].task
           rec == [task |-> t, stamp |-> call[c].stamp,
                   supersedes |-> call[c].supersedes]
           row == MarkSucceeded(task[t], call[c].stamp)
<1>1. call[c].pc \in Phases
  BY DEF WriteResult, Phases
<1>2. /\ call[c] \in Busy
      /\ t \in Tasks /\ call[c].stamp \in Nat /\ call[c].supersedes \in Nat
  BY <1>1, PhaseIsBusy
<1>3. task[t] \in Row /\ task[t].status = "running"
  BY <1>2 DEF WriteResult, TypeOK
<1>4. RecordsOf(t) = {}
  BY <1>2, <1>3 DEF RecordIffSucceeded
<1>5. StoredRecord(c) = rec
  BY <1>4 DEF StoredRecord, RecordsOf
<1>6. rec \in Record /\ rec.task = t /\ rec.stamp = call[c].stamp
  BY <1>2 DEF Record
<1>7. recs' = recs \cup {rec} /\ task' = [task EXCEPT ![t] = row]
  <2>1. StoredRecord(c).stamp = call[c].stamp
    BY <1>5, <1>6
  <2>2. QED
    BY <1>5, <2>1 DEF WriteResult
<1>8. row \in Row /\ row.status = "succeeded" /\ row.result = call[c].stamp
  <2>1. row \in Row
    BY <1>2, <1>3 DEF MarkSucceeded, Row, Statuses, ErrorCodes
  <2>2. QED
    BY <2>1, <1>3 DEF MarkSucceeded, Row
<1>9. RecordIffSucceeded' /\ task' \in [Tasks -> Row]
  <2> HIDE DEF rec, row, t
  <2>1. task' \in [Tasks -> Row]
    BY <1>7, <1>8 DEF TypeOK
  <2>2. {r \in recs' : r.task = t} = {rec}
    BY <1>4, <1>6, <1>7 DEF RecordsOf
  <2>3. task'[t] = row
    BY <1>2, <1>7 DEF TypeOK
  <2>4. rec \in recs'
    BY <1>7
  <2>5. ASSUME NEW u \in Tasks, u # t
        PROVE  task'[u] = task[u] /\ {r \in recs' : r.task = u} = {r \in recs : r.task = u}
    BY <2>5, <1>6, <1>7 DEF TypeOK
  <2>6. ASSUME NEW u \in Tasks
        PROVE  /\ task'[u].status = "succeeded" =>
                    \E r \in recs' : {q \in recs' : q.task = u} = {r} /\ r.stamp = task'[u].result
               /\ task'[u].status # "succeeded" =>
                    {q \in recs' : q.task = u} = {} /\ task'[u].result = 0
    <3>1. CASE u = t
      BY <3>1, <2>2, <2>3, <2>4, <1>6, <1>8
    <3>2. CASE u # t
      BY <3>2, <2>5, <1>7 DEF RecordIffSucceeded, RecordsOf
    <3>3. QED
      BY <3>1, <3>2
  <2>7. QED
    BY <2>1, <2>6 DEF RecordIffSucceeded, RecordsOf
<1>10. recs' \subseteq Record
  BY <1>6, <1>7 DEF RestOK
<1>11. call' \in [Calls -> {Idle} \cup Busy] /\ CallsKnow' /\ RestOK'
  BY <1>1, <1>10, EndStep DEF WriteResult
<1>12. QED
  BY <1>9, <1>11, Assemble

LEMMA DiscardResultStep ==
  ASSUME IInv, NEW c \in Calls, DiscardResult(c)
  PROVE  IInv'
<1> USE RestOfIInv
<1>1. call[c].pc \in Phases
  BY DEF DiscardResult, Phases
<1>2. RecordIffSucceeded' /\ task' \in [Tasks -> Row]
  BY NoWrite DEF DiscardResult
<1>3. QED
  BY <1>1, <1>2, EndStep, Assemble DEF DiscardResult, RestOK

LEMMA WriteFailureStep ==
  ASSUME IInv, NEW c \in Calls, WriteFailure(c)
  PROVE  IInv'
<1> USE RestOfIInv
<1> DEFINE t == call[c].task
           seen == call[c].seen
<1>1. call[c].pc \in Phases
  BY DEF WriteFailure, Phases
<1>2. t \in Tasks /\ seen \in Row
  BY <1>1, PhaseIsBusy
<1>3. seen.status = "failed" /\ seen.result = 0
  BY DEF WriteFailure, CallsKnow, Knows
<1>4. RecordIffSucceeded' /\ task' \in [Tasks -> Row]
  <2>1. CASE task[t].status = "running"
    <3>1. task' = [task EXCEPT ![t] = seen] /\ recs' = recs
      BY <2>1 DEF WriteFailure
    <3>2. QED
      BY <1>2, <1>3, <2>1, <3>1, RowStep
  <2>2. CASE task[t].status # "running"
    BY <2>2, NoWrite DEF WriteFailure
  <2>3. QED
    BY <2>1, <2>2
<1>5. QED
  BY <1>1, <1>4, EndStep, Assemble DEF WriteFailure, RestOK

-----------------------------------------------------------------------------
(* Cancelling, retrying.                                                    *)

LEMMA CancelWinsStep ==
  ASSUME IInv, NEW c \in Calls, CancelWins(c)
  PROVE  IInv'
<1> USE RestOfIInv
<1> DEFINE t == call[c].task
           seen == call[c].seen
           row == CancelTask(seen)
<1>1. call[c].pc \in Phases
  BY DEF CancelWins, Phases
<1>2. t \in Tasks /\ seen \in Row /\ call[c].proc \in Procs
  BY <1>1, PhaseIsBusy
<1>3. seen.status \in {"queued", "running"}
  BY DEF CancelWins, CallsKnow, Knows, CanCancel
<1>4. row \in Row /\ row.status = "cancelled" /\ row.result = 0
  <2>1. row \in Row
    BY <1>2 DEF CancelTask, Row, Statuses, ErrorCodes
  <2>2. QED
    BY <2>1, <1>2 DEF CancelTask, Row
<1>5. RecordIffSucceeded' /\ task' \in [Tasks -> Row]
  <2>1. task[t].status # "succeeded"
    BY <1>3 DEF CancelWins, StatusMatches
  <2>2. task' = [task EXCEPT ![t] = row] /\ recs' = recs
    BY DEF CancelWins
  <2> HIDE DEF row, t
  <2>3. QED
    BY <1>2, <1>4, <2>1, <2>2, RowStep
<1> DEFINE run == inflight[call[c].proc][t]
           Next1(d) == IF d = c THEN Idle
                       ELSE IF d = run /\ seen.status = "running"
                            THEN [call[d] EXCEPT !.aborted = TRUE]
                            ELSE call[d]
<1>6. call' = [d \in Calls |-> Next1(d)]
  BY DEF CancelWins
\* The registered call waits for the model or holds the loop; an idle call
\* keeps its only field.
<1>7. ASSUME NEW d \in Calls
      PROVE  Next1(d) \in {Idle} \cup Busy /\ Knows(Next1(d))
  <2>1. CASE Next1(d) = Idle
    BY <2>1, IdleKnows
  <2>2. CASE Next1(d) = call[d]
    <3>1. call[d] \in {Idle} \cup Busy /\ Knows(call[d])
      BY DEF TypeOK, CallsKnow
    <3> HIDE DEF Next1
    <3>2. QED
      BY <2>2, <3>1
  <2>3. CASE Next1(d) = [call[d] EXCEPT !.aborted = TRUE]
    <3>1. call[d] \in {Idle} \cup Busy /\ Knows(call[d])
      BY DEF TypeOK, CallsKnow
    <3>2. CASE call[d] = Idle
      <4>1. [Idle EXCEPT !.aborted = TRUE] = Idle
        BY DEF Idle
      <4>2. QED
        BY <2>3, <3>2, <4>1, IdleKnows
    <3>3. CASE call[d] \in Busy
      <4>1. [call[d] EXCEPT !.aborted = TRUE] \in Busy
        BY <3>3 DEF Busy
      <4>2. /\ [call[d] EXCEPT !.aborted = TRUE].pc = call[d].pc
            /\ [call[d] EXCEPT !.aborted = TRUE].seen = call[d].seen
        BY <3>3 DEF Busy
      <4>3. Knows([call[d] EXCEPT !.aborted = TRUE])
        BY <3>1, <4>2 DEF Knows
      <4>4. QED
        BY <2>3, <4>1, <4>3
    <3>4. QED
      BY <3>1, <3>2, <3>3
  <2>4. QED
    BY <2>1, <2>2, <2>3
<1>8. call' \in [Calls -> {Idle} \cup Busy] /\ CallsKnow'
  <2> HIDE DEF Next1
  <2>1. QED
    BY <1>6, <1>7 DEF CallsKnow
<1>9. RestOK'
  BY <1>2 DEF CancelWins, RestOK
<1>10. QED
  BY <1>5, <1>8, <1>9, Assemble

LEMMA CancelLosesStep ==
  ASSUME IInv, NEW c \in Calls, CancelLoses(c)
  PROVE  IInv'
<1> USE RestOfIInv
<1>1. call[c].pc \in Phases
  BY DEF CancelLoses, Phases
<1>2. RecordIffSucceeded' /\ task' \in [Tasks -> Row]
  BY NoWrite DEF CancelLoses
<1>3. /\ call' \in [Calls -> {Idle} \cup Busy]
      /\ CallsKnow'
      /\ loop' \in [Procs -> Calls \cup {None}]
  BY <1>1, LeaveStep DEF CancelLoses
<1>4. RestOK'
  BY <1>3 DEF CancelLoses, RestOK
<1>5. QED
  BY <1>2, <1>3, <1>4, Assemble

LEMMA RetryCasStep ==
  ASSUME IInv, NEW c \in Calls, RetryCas(c)
  PROVE  IInv'
<1> USE RestOfIInv
<1> DEFINE t == call[c].task
           seen == call[c].seen
           row == ManualRetryTask(seen)
           x == [call[c] EXCEPT !.pc = "launch"]
<1>1. call[c].pc \in Phases /\ "launch" \in Phases
  BY DEF RetryCas, Phases
<1>2. /\ call[c] \in Busy
      /\ t \in Tasks /\ seen \in Row /\ call[c].proc \in Procs
  BY <1>1, PhaseIsBusy
<1>3. seen.status = "failed"
  BY DEF RetryCas, CallsKnow, Knows
<1>4. row \in Row /\ row.status = "queued" /\ row.result = 0
  <2>1. Larger(seen.max, seen.attempt + 1) \in Nat
    BY <1>2 DEF Row, Larger
  <2>2. row \in Row
    BY <1>2, <2>1 DEF ManualRetryTask, Row, Statuses, ErrorCodes
  <2>3. QED
    BY <2>2, <1>2 DEF ManualRetryTask, Row
<1>5. RecordIffSucceeded' /\ task' \in [Tasks -> Row]
  <2>1. CASE AttemptMatches(t, seen)
    <3>1. task[t].status # "succeeded"
      BY <1>3, <2>1 DEF AttemptMatches, StatusMatches
    <3>2. task' = [task EXCEPT ![t] = row] /\ recs' = recs
      BY <2>1 DEF RetryCas
    <3> HIDE DEF row, t
    <3>3. QED
      BY <1>2, <1>4, <3>1, <3>2, RowStep
  <2>2. CASE ~ AttemptMatches(t, seen)
    BY <2>2, NoWrite DEF RetryCas
  <2>3. QED
    BY <2>1, <2>2
<1>6. /\ call' \in [Calls -> {Idle} \cup Busy]
      /\ CallsKnow'
      /\ loop' \in [Procs -> Calls \cup {None}]
  <2>1. CASE call' = [call EXCEPT ![c] = x] /\ UNCHANGED loop
    <3>1. x \in Busy
      BY <1>1, <1>2, BusyMoves
    <3>2. Knows(x)
      BY <1>2 DEF Knows, Busy
    <3> HIDE DEF x
    <3>3. QED
      BY <2>1, <3>1, <3>2, CallStep DEF TypeOK
  <2>2. CASE Leave(c)
    BY <1>1, <2>2, LeaveStep
  <2>3. QED
    BY <2>1, <2>2 DEF RetryCas
<1>7. RestOK'
  BY <1>6 DEF RetryCas, RestOK
<1>8. QED
  BY <1>5, <1>6, <1>7, Assemble

-----------------------------------------------------------------------------
(* Crash, restart, recovery.                                                *)

LEMMA CrashStep ==
  ASSUME IInv, NEW p \in Procs, Crash(p)
  PROVE  IInv'
<1> USE RestOfIInv
<1>1. RecordIffSucceeded' /\ task' \in [Tasks -> Row]
  BY NoWrite DEF Crash
<1>2. call' \in [Calls -> {Idle} \cup Busy] /\ CallsKnow'
  <2>1. ASSUME NEW d \in Calls
        PROVE  call'[d] \in {Idle} \cup Busy /\ Knows(call'[d])
    <3>1. call'[d] = Idle \/ call'[d] = call[d]
      BY DEF Crash
    <3>2. call[d] \in {Idle} \cup Busy /\ Knows(call[d])
      BY DEF TypeOK, CallsKnow
    <3>3. QED
      BY <3>1, <3>2, IdleKnows
  <2>2. call' = [d \in Calls |-> call'[d]]
    BY DEF Crash
  <2>3. QED
    BY <2>1, <2>2 DEF CallsKnow
<1>3. RestOK'
  BY DEF Crash, RestOK
<1>4. QED
  BY <1>1, <1>2, <1>3, Assemble

LEMMA StartStep ==
  ASSUME IInv, NEW p \in Procs, Start(p) \/ StartAndRecover(p)
  PROVE  IInv'
<1> USE RestOfIInv
<1>1. RecordIffSucceeded' /\ task' \in [Tasks -> Row]
  BY NoWrite DEF Start, StartAndRecover
<1>2. call' \in [Calls -> {Idle} \cup Busy] /\ CallsKnow'
  BY DEF Start, StartAndRecover, TypeOK, CallsKnow
<1>3. Recoverable \subseteq Scanned
  BY DEF Recoverable, Scanned, TypeOK
<1>4. RestOK'
  BY <1>3 DEF Start, StartAndRecover, RestOK
<1>5. QED
  BY <1>1, <1>2, <1>4, Assemble

LEMMA RecoverOneStep ==
  ASSUME IInv, NEW p \in Procs, RecoverOne(p)
  PROVE  IInv'
<1> USE RestOfIInv
<1> DEFINE code == "PROCESS_RESTART_INTERRUPTED"
<1>1. PICK x \in scan[p] :
        /\ scan' = [scan EXCEPT ![p] = @ \ {x}]
        /\ task' = IF task[x.task].status = "running"
                   THEN [task EXCEPT ![x.task] = MarkFailed(x.seen, code)]
                   ELSE task
  BY DEF RecoverOne
<1>2. x.task \in Tasks /\ x.seen \in Row
  BY DEF TypeOK, Scanned
<1> DEFINE row == MarkFailed(x.seen, code)
<1>3. row \in Row /\ row.status = "failed" /\ row.result = 0
  <2>1. row \in Row
    BY <1>2 DEF MarkFailed, Row, Statuses, ErrorCodes
  <2>2. QED
    BY <2>1, <1>2 DEF MarkFailed, Row
<1>4. RecordIffSucceeded' /\ task' \in [Tasks -> Row]
  <2>1. CASE task[x.task].status = "running"
    <3>1. task' = [task EXCEPT ![x.task] = row] /\ recs' = recs
      BY <1>1, <2>1 DEF RecoverOne
    <3> HIDE DEF row
    <3>2. QED
      BY <1>2, <1>3, <2>1, <3>1, RowStep
  <2>2. CASE task[x.task].status # "running"
    BY <1>1, <2>2, NoWrite DEF RecoverOne
  <2>3. QED
    BY <2>1, <2>2
<1>5. call' \in [Calls -> {Idle} \cup Busy] /\ CallsKnow'
  BY DEF RecoverOne, TypeOK, CallsKnow
<1>6. RestOK'
  BY <1>1 DEF RecoverOne, RestOK
<1>7. QED
  BY <1>4, <1>5, <1>6, Assemble

-----------------------------------------------------------------------------
(* The theorems.                                                            *)

LEMMA InitIInv == Init => IInv
<1> SUFFICES ASSUME Init PROVE IInv
  OBVIOUS
<1>1. Absent \in Row /\ Absent.status = "absent" /\ Absent.result = 0
  BY DEF Absent, Row, Statuses, ErrorCodes
<1>2. task \in [Tasks -> Row] /\ \A t \in Tasks : task[t] = Absent
  BY <1>1 DEF Init
<1>3. RecordIffSucceeded
  BY <1>1, <1>2 DEF Init, RecordIffSucceeded, RecordsOf
<1>4. CallsKnow
  BY IdleKnows DEF Init, CallsKnow
<1>5. TypeOK
  BY <1>2 DEF Init, TypeOK
<1>6. QED
  BY <1>3, <1>4, <1>5 DEF IInv

LEMMA NextIInv == IInv /\ [Next]_vars => IInv'
<1> SUFFICES ASSUME IInv, [Next]_vars PROVE IInv'
  OBVIOUS
<1>1. ASSUME NEW i \in Inputs, CreateTask(i) PROVE IInv'
  BY <1>1, CreateTaskStep
<1>2. ASSUME NEW c \in Calls, NEW p \in Clis, NEW i \in Inputs,
             NEW g \in 0 .. MaxGeneration, CreateRecoveryTask(c, p, i, g)
      PROVE  IInv'
  BY <1>2, CreateRecoveryTaskStep
<1>3. ASSUME NEW c \in Calls, NEW t \in Tasks, ClaimRead(c, t) PROVE IInv'
  BY <1>3, ClaimReadStep
<1>4. ASSUME NEW c \in Calls, NEW t \in Tasks, CancelRead(c, t) PROVE IInv'
  BY <1>4, CancelReadStep
<1>5. ASSUME NEW c \in Calls, NEW p \in Procs, NEW t \in Tasks, RetryRead(c, p, t)
      PROVE  IInv'
  BY <1>5, RetryReadStep
<1>6. ASSUME NEW c \in Calls, Proceed(c) PROVE IInv'
  BY <1>6, LaunchReadStep, ClaimWinsStep, ClaimLosesStep, WriteResultStep,
     DiscardResultStep, WriteResultThrowsStep, WriteFailureStep, CancelWinsStep,
     CancelLosesStep, RetryCasStep DEF Proceed
<1>7. ASSUME NEW c \in Calls, ModelAnswers(c) PROVE IInv'
  BY <1>7, ResultReturnedStep, ErrorReturnedStep DEF ModelAnswers
<1>8. ASSUME NEW p \in Procs, Crash(p) \/ Start(p) \/ StartAndRecover(p) \/ RecoverOne(p) PROVE IInv'
  BY <1>8, CrashStep, StartStep, RecoverOneStep
<1>9. CASE UNCHANGED vars
  BY <1>9 DEF vars, IInv, TypeOK, RecordIffSucceeded, RecordsOf, CallsKnow
<1>10. QED
  BY <1>1, <1>2, <1>3, <1>4, <1>5, <1>6, <1>7, <1>8, <1>9 DEF Next

\* The inductive invariant of analysisTaskRepository, executor and service.
THEOREM InductiveInvariant == Spec => []IInv
BY InitIInv, NextIInv, PTL DEF Spec

\* A formal record exists exactly for the succeeded tasks, one per input hash,
\* and the task points to it: the write of finishWithResult is all or nothing,
\* whatever other calls, processes and crashes come between its steps.
THEOREM RecordsMatchTasks == Spec => []RecordIffSucceeded
<1>1. IInv => RecordIffSucceeded
  BY DEF IInv
<1>2. QED
  BY <1>1, InductiveInvariant, PTL

-----------------------------------------------------------------------------
(* Every step is one move of one task's life cycle, or none.                *)

Phase == [t \in Tasks |-> task[t].status]
Abstract == [Lifecycle!Next]_(Lifecycle!lifecycleVars)
TerminalStay ==
  \A t \in Tasks : task[t].status \in {"cancelled", "succeeded"} => task'[t] = task[t]

LEMMA OneRowMoves ==
  ASSUME TypeOK, NEW t \in Tasks, NEW row \in Row,
         task' = [task EXCEPT ![t] = row]
  PROVE  /\ Phase' = [Phase EXCEPT ![t] = row.status]
         /\ task'[t] = row
         /\ \A u \in Tasks : u # t => task'[u] = task[u]
BY DEF TypeOK, Phase

\* A move that leaves the records alone.
LEMMA RowMove ==
  ASSUME IInv, NEW t \in Tasks, NEW row \in Row,
         task' = [task EXCEPT ![t] = row], recs' = recs,
         \/ task[t].status = "absent" /\ row.status = "queued"
         \/ task[t].status = "queued" /\ row.status = "running"
         \/ task[t].status = "running" /\ row.status = "failed"
         \/ task[t].status \in {"queued", "running"} /\ row.status = "cancelled"
         \/ task[t].status = "failed" /\ row.status = "queued"
  PROVE  Abstract /\ TerminalStay
<1>1. Phase' = [Phase EXCEPT ![t] = row.status] /\ Phase[t] = task[t].status
  BY OneRowMoves, RestOfIInv DEF Phase
<1>2. {r.task : r \in recs'} = {r.task : r \in recs}
  OBVIOUS
<1>3. TerminalStay
  BY OneRowMoves, RestOfIInv DEF TerminalStay
<1>4. QED
  BY <1>1, <1>2, <1>3 DEF Abstract, Phase, Lifecycle!Next, Lifecycle!Move, Lifecycle!Create,
     Lifecycle!Begin, Lifecycle!Fail, Lifecycle!Cancel, Lifecycle!Retry

LEMMA NoMove ==
  ASSUME UNCHANGED <<task, recs>>
  PROVE  Abstract /\ TerminalStay
BY DEF Abstract, Lifecycle!lifecycleVars, TerminalStay

LEMMA QueuedRow ==
  /\ CreateQueuedTask \in Row /\ CreateQueuedTask.status = "queued"
  /\ Absent.status = "absent"
BY BudgetAssumption DEF CreateQueuedTask, Absent, Row, Statuses, ErrorCodes

LEMMA CreateTaskMoves ==
  ASSUME IInv, NEW i \in Inputs, CreateTask(i)
  PROVE  Abstract /\ TerminalStay
<1> DEFINE t == <<i, 0>>
<1>1. t \in Tasks
  BY BoundAssumption DEF Tasks
<1>2. task[t] = Absent /\ task' = [task EXCEPT ![t] = CreateQueuedTask] /\ recs' = recs
  BY DEF CreateTask
<1> HIDE DEF t
<1>3. task[t].status = "absent"
  BY <1>2, QueuedRow
<1>4. QED
  BY <1>1, <1>2, <1>3, QueuedRow, RowMove

LEMMA CreateRecoveryTaskMoves ==
  ASSUME IInv, NEW c \in Calls, NEW p \in Clis, NEW i \in Inputs,
         NEW g \in 0 .. MaxGeneration, CreateRecoveryTask(c, p, i, g)
  PROVE  Abstract /\ TerminalStay
<1> DEFINE t == <<i, g + 1>>
<1>1. t \in Tasks
  BY BoundAssumption DEF Tasks, CreateRecoveryTask
<1>2. CASE task[t] = Absent
  <2>1. task' = [task EXCEPT ![t] = CreateQueuedTask] /\ recs' = recs
    BY <1>2 DEF CreateRecoveryTask
  <2> HIDE DEF t
  <2>2. task[t].status = "absent"
    BY <1>2, QueuedRow
  <2>3. QED
    BY <1>1, <2>1, <2>2, QueuedRow, RowMove
<1>3. CASE task[t] # Absent
  BY <1>3, NoMove DEF CreateRecoveryTask
<1>4. QED
  BY <1>2, <1>3

LEMMA ClaimWinsMoves ==
  ASSUME IInv, NEW c \in Calls, ClaimWins(c)
  PROVE  Abstract /\ TerminalStay
<1> USE RestOfIInv
<1> DEFINE t == call[c].task
           seen == call[c].seen
           running == StartTask(seen)
<1>1. t \in Tasks /\ seen \in Row
  BY PhaseIsBusy DEF ClaimWins, Phases
<1>2. seen.attempt + 1 \in Nat
  BY <1>1 DEF Row
<1>3. running \in Row /\ running.status = "running"
  <2>1. running \in Row
    BY <1>1, <1>2 DEF StartTask, Row, Statuses
  <2>2. QED
    BY <2>1, <1>1 DEF StartTask, Row
<1>4. task[t].status = "queued"
  BY DEF ClaimWins, CallsKnow, Knows, AttemptMatches, StatusMatches
<1>5. task' = [task EXCEPT ![t] = running] /\ recs' = recs
  BY DEF ClaimWins
<1> HIDE DEF t, running
<1>6. QED
  BY <1>1, <1>3, <1>4, <1>5, RowMove

LEMMA WriteFailureMoves ==
  ASSUME IInv, NEW c \in Calls, WriteFailure(c)
  PROVE  Abstract /\ TerminalStay
<1> USE RestOfIInv
<1> DEFINE t == call[c].task
           seen == call[c].seen
<1>1. t \in Tasks /\ seen \in Row
  BY PhaseIsBusy DEF WriteFailure, Phases
<1>2. seen.status = "failed"
  BY DEF WriteFailure, CallsKnow, Knows
<1>3. CASE task[t].status = "running"
  <2>1. task' = [task EXCEPT ![t] = seen] /\ recs' = recs
    BY <1>3 DEF WriteFailure
  <2> HIDE DEF t, seen
  <2>2. QED
    BY <1>1, <1>2, <1>3, <2>1, RowMove
<1>4. CASE task[t].status # "running"
  BY <1>4, NoMove DEF WriteFailure
<1>5. QED
  BY <1>3, <1>4

LEMMA CancelWinsMoves ==
  ASSUME IInv, NEW c \in Calls, CancelWins(c)
  PROVE  Abstract /\ TerminalStay
<1> USE RestOfIInv
<1> DEFINE t == call[c].task
           seen == call[c].seen
           row == CancelTask(seen)
<1>1. t \in Tasks /\ seen \in Row
  BY PhaseIsBusy DEF CancelWins, Phases
<1>2. row \in Row /\ row.status = "cancelled"
  <2>1. row \in Row
    BY <1>1 DEF CancelTask, Row, Statuses, ErrorCodes
  <2>2. QED
    BY <2>1, <1>1 DEF CancelTask, Row
<1>3. task[t].status \in {"queued", "running"}
  BY DEF CancelWins, CallsKnow, Knows, CanCancel, StatusMatches
<1>4. task' = [task EXCEPT ![t] = row] /\ recs' = recs
  BY DEF CancelWins
<1> HIDE DEF t, row
<1>5. QED
  BY <1>1, <1>2, <1>3, <1>4, RowMove

LEMMA RetryCasMoves ==
  ASSUME IInv, NEW c \in Calls, RetryCas(c)
  PROVE  Abstract /\ TerminalStay
<1> USE RestOfIInv
<1> DEFINE t == call[c].task
           seen == call[c].seen
           row == ManualRetryTask(seen)
<1>1. t \in Tasks /\ seen \in Row
  BY PhaseIsBusy DEF RetryCas, Phases
<1>2. row \in Row /\ row.status = "queued"
  <2>1. Larger(seen.max, seen.attempt + 1) \in Nat
    BY <1>1 DEF Row, Larger
  <2>2. row \in Row
    BY <1>1, <2>1 DEF ManualRetryTask, Row, Statuses, ErrorCodes
  <2>3. QED
    BY <2>2, <1>1 DEF ManualRetryTask, Row
<1>3. CASE AttemptMatches(t, seen)
  <2>1. task[t].status = "failed"
    BY <1>3 DEF RetryCas, CallsKnow, Knows, AttemptMatches, StatusMatches
  <2>2. task' = [task EXCEPT ![t] = row] /\ recs' = recs
    BY <1>3 DEF RetryCas
  <2> HIDE DEF t, row
  <2>3. QED
    BY <1>1, <1>2, <2>1, <2>2, RowMove
<1>4. CASE ~ AttemptMatches(t, seen)
  BY <1>4, NoMove DEF RetryCas
<1>5. QED
  BY <1>3, <1>4

LEMMA RecoverOneMoves ==
  ASSUME IInv, NEW p \in Procs, RecoverOne(p)
  PROVE  Abstract /\ TerminalStay
<1> USE RestOfIInv
<1> DEFINE code == "PROCESS_RESTART_INTERRUPTED"
<1>1. PICK x \in scan[p] :
        task' = IF task[x.task].status = "running"
                THEN [task EXCEPT ![x.task] = MarkFailed(x.seen, code)]
                ELSE task
  BY DEF RecoverOne
<1>2. x.task \in Tasks /\ x.seen \in Row
  BY DEF TypeOK, Scanned
<1> DEFINE row == MarkFailed(x.seen, code)
<1>3. row \in Row /\ row.status = "failed"
  <2>1. row \in Row
    BY <1>2 DEF MarkFailed, Row, Statuses, ErrorCodes
  <2>2. QED
    BY <2>1, <1>2 DEF MarkFailed, Row
<1>4. CASE task[x.task].status = "running"
  <2>1. task' = [task EXCEPT ![x.task] = row] /\ recs' = recs
    BY <1>1, <1>4 DEF RecoverOne
  <2> HIDE DEF row
  <2>2. QED
    BY <1>2, <1>3, <1>4, <2>1, RowMove
<1>5. CASE task[x.task].status # "running"
  BY <1>1, <1>5, NoMove DEF RecoverOne
<1>6. QED
  BY <1>4, <1>5

\* The one step that publishes: the record and the success together.
LEMMA WriteResultMoves ==
  ASSUME IInv, NEW c \in Calls, WriteResult(c)
  PROVE  Abstract /\ TerminalStay
<1> USE RestOfIInv
<1> DEFINE t == call[c].task
           rec == [task |-> t, stamp |-> call[c].stamp,
                   supersedes |-> call[c].supersedes]
           row == MarkSucceeded(task[t], rec.stamp)
<1>1. t \in Tasks /\ call[c].stamp \in Nat
  BY PhaseIsBusy DEF WriteResult, Phases
<1>2. task[t] \in Row /\ task[t].status = "running"
  BY <1>1 DEF WriteResult, TypeOK
<1>3. StoredRecord(c) = rec
  BY <1>1, <1>2 DEF StoredRecord, RecordIffSucceeded, RecordsOf
<1>4. recs' = recs \cup {rec} /\ task' = [task EXCEPT ![t] = row]
  BY <1>3 DEF WriteResult
<1>5. row \in Row /\ row.status = "succeeded"
  <2>1. row \in Row
    BY <1>1, <1>2 DEF MarkSucceeded, Row, Statuses, ErrorCodes
  <2>2. QED
    BY <2>1, <1>2 DEF MarkSucceeded, Row
<1>6. rec.task = t
  OBVIOUS
<1> HIDE DEF t, rec, row
<1>7. Phase' = [Phase EXCEPT ![t] = "succeeded"] /\ Phase[t] = "running"
  BY <1>1, <1>2, <1>4, <1>5, OneRowMoves DEF Phase
<1>8. {r.task : r \in recs'} = {r.task : r \in recs} \cup {t}
  BY <1>4, <1>6
<1>9. TerminalStay
  BY <1>1, <1>2, <1>4, <1>5, OneRowMoves DEF TerminalStay
<1>10. QED
  BY <1>1, <1>7, <1>8, <1>9 DEF Abstract, Phase, Lifecycle!Next, Lifecycle!Succeed,
     Lifecycle!Move

LEMMA NextMoves == IInv /\ [Next]_vars => Abstract /\ TerminalStay
<1> SUFFICES ASSUME IInv, [Next]_vars PROVE Abstract /\ TerminalStay
  OBVIOUS
<1> DEFINE Good == Abstract /\ TerminalStay
<1>1. ASSUME NEW i \in Inputs, CreateTask(i) PROVE Good
  BY <1>1, CreateTaskMoves
<1>2. ASSUME NEW c \in Calls, NEW p \in Clis, NEW i \in Inputs,
             NEW g \in 0 .. MaxGeneration, CreateRecoveryTask(c, p, i, g)
      PROVE  Good
  BY <1>2, CreateRecoveryTaskMoves
<1>3. ASSUME NEW c \in Calls, NEW t \in Tasks, ClaimRead(c, t) PROVE Good
  BY <1>3, NoMove DEF ClaimRead
<1>4. ASSUME NEW c \in Calls, NEW t \in Tasks, CancelRead(c, t) PROVE Good
  BY <1>4, NoMove DEF CancelRead
<1>5. ASSUME NEW c \in Calls, NEW p \in Procs, NEW t \in Tasks, RetryRead(c, p, t)
      PROVE  Good
  BY <1>5, NoMove DEF RetryRead
<1>6. ASSUME NEW c \in Calls, Proceed(c) PROVE Good
  <2>1. CASE LaunchRead(c) \/ ClaimLoses(c) \/ DiscardResult(c) \/ WriteResultThrows(c)
             \/ CancelLoses(c)
    BY <2>1, NoMove DEF LaunchRead, ClaimLoses, DiscardResult, WriteResultThrows, CancelLoses
  <2>2. QED
    BY <1>6, <2>1, ClaimWinsMoves, WriteResultMoves, WriteFailureMoves,
       CancelWinsMoves, RetryCasMoves DEF Proceed
<1>7. ASSUME NEW c \in Calls, ModelAnswers(c) PROVE Good
  BY <1>7, NoMove DEF ModelAnswers, ResultReturned, ErrorReturned
<1>8. ASSUME NEW p \in Procs, Crash(p) \/ Start(p) \/ StartAndRecover(p) \/ RecoverOne(p) PROVE Good
  BY <1>8, NoMove, RecoverOneMoves DEF Crash, Start, StartAndRecover
<1>9. CASE UNCHANGED vars
  BY <1>9, NoMove DEF vars
<1>10. QED
  BY <1>1, <1>2, <1>3, <1>4, <1>5, <1>6, <1>7, <1>8, <1>9 DEF Next

LEMMA InitMaps == Init => Lifecycle!Init
<1> SUFFICES ASSUME Init PROVE Lifecycle!Init
  OBVIOUS
<1>1. \A t \in Tasks : task[t] = Absent
  BY DEF Init
<1>2. \A t \in Tasks : task[t].status = "absent"
  BY <1>1, QueuedRow
<1>3. {r.task : r \in recs} = {}
  BY DEF Init
<1>4. QED
  BY <1>2, <1>3 DEF Lifecycle!Init

\* The tables, as every other part of Radar reads them, follow TaskLifecycle:
\* each step of the service and executor is one move of one task, or none.
THEOREM LifecycleRefined == Spec => ImplementsLifecycle
<1>1. IInv /\ [Next]_vars => [Lifecycle!Next]_(Lifecycle!lifecycleVars)
  BY NextMoves DEF Abstract
<1>2. QED
  BY <1>1, InitMaps, InductiveInvariant, PTL DEF Spec, ImplementsLifecycle, Lifecycle!Spec

\* A late answer, a second cancellation or a recovery scan never touches a row
\* that is already cancelled or succeeded.
THEOREM TerminalRowsAreFinal == Spec => TerminalRowsStay
<1>1. IInv /\ [Next]_vars => [TerminalStay]_vars
  BY NextMoves
<1>2. QED
  BY <1>1, InductiveInvariant, PTL DEF Spec, TerminalRowsStay, TerminalStay

-----------------------------------------------------------------------------
(* The runs of the tasks.  A call that works for a task is alone with it and *)
(* knows the attempt it works for, so a claim is one call of the model.      *)

\* The recovery scan takes a running row from whoever works on it, so it is safe
\* only where no other process runs tasks: the server as deployed never
\* scans, and a scanning server must be alone.
OneRecoverer == RecoveryWired => Clis = {}

Working(c) == call[c].pc \in {"calling", "record", "failing"}
Holding(c) == call[c].pc = "claim" \/ Working(c)

\* A working call's row is still running its attempt, or is cancelled.
Current(c) ==
  Working(c) =>
    /\ task[call[c].task].status \in {"running", "cancelled"}
    /\ task[call[c].task].status = "running"
         => call[c].seen.attempt = task[call[c].task].attempt

\* The row a call carries respects the budget.
Funded(c) ==
  call[c].pc \in Phases =>
    /\ call[c].seen.max <= Ceiling
    /\ call[c].pc = "claim" => CanStart(call[c].seen)
    /\ call[c].pc = "retrying" => CanRetry(call[c].seen)

\* Except while it awaits the model, a call holds its event loop.
Seated(c) ==
  call[c].pc \in Phases =>
    /\ up[call[c].proc] /\ scan[call[c].proc] = {}
    /\ call[c].pc # "calling" => loop[call[c].proc] = c

Registered(c) == Holding(c) => inflight[call[c].proc][call[c].task] = c

Sound(c) == Current(c) /\ Funded(c) /\ Seated(c) /\ Registered(c)

Alone(c, d) ==
  Working(c) /\ Working(d) /\ call[c].task = call[d].task => c = d

Counted(row, n) ==
  /\ row.status # "cancelled" => row.attempt = n
  /\ n <= Ceiling /\ row.max <= Ceiling
  /\ row.status = "queued" => row.attempt < row.max

Listed(p) ==
  scan[p] # {} =>
    /\ p = Server /\ RecoveryWired
    /\ \A x \in scan[p] : task[x.task] = x.seen /\ x.seen.status = "running"

AllSound == \A c \in Calls : Sound(c)
AllAlone == \A c, d \in Calls : Alone(c, d)
AllCounted == \A t \in Tasks : Counted(task[t], claims[t])
AllListed == \A p \in Procs : Listed(p)
RunInv == AllSound /\ AllAlone /\ AllCounted /\ AllListed

\* What a step of call c leaves to the other calls.
Steady(c) ==
  \A d \in Calls : d # c =>
    /\ call'[d].pc = call[d].pc /\ call'[d].proc = call[d].proc
    /\ call'[d].task = call[d].task /\ call'[d].seen = call[d].seen
SeatGoes(c, p) ==
  /\ loop[p] \in {None, c}
  /\ \A q \in Procs : q # p => loop'[q] = loop[q]
RowsStand(c) ==
  \A d \in Calls : d # c /\ Working(d) =>
    \/ task'[call[d].task] = task[call[d].task]
    \/ task'[call[d].task].status = "cancelled"
RegistryStands(c) ==
  \A d \in Calls : d # c /\ Holding(d) =>
    inflight'[call[d].proc][call[d].task] = inflight[call[d].proc][call[d].task]

Quiet == \A p \in Procs : scan[p] = {}

LEMMA FreeIsQuiet ==
  ASSUME RunInv, OneRecoverer, NEW p \in Procs, scan[p] = {}
  PROVE  Quiet
<1> SUFFICES ASSUME NEW q \in Procs, scan[q] # {} PROVE FALSE
  BY DEF Quiet
<1>1. q = Server /\ RecoveryWired
  BY DEF RunInv, AllListed, Listed
<1>2. p = Server
  BY <1>1 DEF OneRecoverer, Procs
<1>3. QED
  BY <1>1, <1>2

LEMMA BusyIsQuiet ==
  ASSUME IInv, RunInv, OneRecoverer, NEW c \in Calls, call[c].pc \in Phases
  PROVE  Quiet
<1>1. call[c].proc \in Procs
  BY RestOfIInv, PhaseIsBusy
<1>2. scan[call[c].proc] = {}
  BY DEF RunInv, AllSound, Sound, Seated
<1>3. QED
  BY <1>1, <1>2, FreeIsQuiet

\* One call moves and the others stand: what is left to show is about that call.
LEMMA OneCallRuns ==
  ASSUME IInv, RunInv, NEW c \in Calls, NEW p \in Procs,
         Steady(c), SeatGoes(c, p), RowsStand(c), RegistryStands(c),
         up' = up, scan' = scan, Quiet, Sound(c)'
  PROVE  AllSound' /\ AllListed'
<1>1. AllListed'
  BY DEF Quiet, AllListed, Listed
<1>2. ASSUME NEW d \in Calls, d # c PROVE Sound(d)'
  <2>1. /\ call'[d].pc = call[d].pc /\ call'[d].proc = call[d].proc
        /\ call'[d].task = call[d].task /\ call'[d].seen = call[d].seen
    BY <1>2 DEF Steady
  <2>2. Sound(d)
    BY DEF RunInv, AllSound
  <2>3. Current(d)'
    <3>1. SUFFICES ASSUME Working(d) PROVE Current(d)'
      BY <2>1 DEF Current, Working
    <3>2. \/ task'[call[d].task] = task[call[d].task]
          \/ task'[call[d].task].status = "cancelled"
      BY <1>2, <3>1 DEF RowsStand
    <3>3. QED
      BY <2>1, <2>2, <3>1, <3>2 DEF Sound, Current
  <2>4. Funded(d)'
    BY <2>1, <2>2 DEF Sound, Funded, CanStart, CanRetry
  <2>5. Seated(d)'
    <3>1. SUFFICES ASSUME call[d].pc \in Phases PROVE Seated(d)'
      BY <2>1 DEF Seated
    <3>2. call[d].proc \in Procs
      BY <3>1, RestOfIInv, PhaseIsBusy
    <3>3. d # None
      BY NoneAssumption
    <3>4. call[d].pc # "calling" => loop'[call[d].proc] = loop[call[d].proc]
      BY <1>2, <2>2, <3>1, <3>2, <3>3 DEF SeatGoes, Sound, Seated
    <3>5. QED
      BY <2>1, <2>2, <3>1, <3>4 DEF Sound, Seated
  <2>6. Registered(d)'
    BY <1>2, <2>1, <2>2 DEF Sound, Registered, RegistryStands, Holding, Working
  <2>7. QED
    BY <2>3, <2>4, <2>5, <2>6 DEF Sound
<1>3. QED
  BY <1>1, <1>2 DEF AllSound

\* No call begins to work.
LEMMA NoneBegins ==
  ASSUME RunInv, NEW c \in Calls, Steady(c),
         Working(c)' => Working(c) /\ call'[c].task = call[c].task
  PROVE  AllAlone'
<1> SUFFICES ASSUME NEW d \in Calls, NEW e \in Calls PROVE Alone(d, e)'
  BY DEF AllAlone
<1>1. Alone(d, e)
  BY DEF RunInv, AllAlone
<1>2. Working(d)' => Working(d) /\ call'[d].task = call[d].task
  BY DEF Steady, Working
<1>3. Working(e)' => Working(e) /\ call'[e].task = call[e].task
  BY DEF Steady, Working
<1>4. QED
  BY <1>1, <1>2, <1>3 DEF Alone

LEMMA OneRowCounts ==
  ASSUME IInv, RunInv, NEW t \in Tasks, NEW row \in Row,
         task' = [task EXCEPT ![t] = row], claims' = claims, Counted(row, claims[t])
  PROVE  AllCounted'
BY RestOfIInv DEF AllCounted, RunInv, TypeOK

LEMMA NoRowCounts ==
  ASSUME RunInv, task' = task, claims' = claims
  PROVE  AllCounted'
BY DEF AllCounted, RunInv

\* A row is rewritten for which no other call works.
LEMMA OneRowStands ==
  ASSUME IInv, NEW c \in Calls, NEW t \in Tasks, NEW row \in Row,
         task' = [task EXCEPT ![t] = row],
         \A d \in Calls : d # c /\ Working(d) => call[d].task # t
  PROVE  RowsStand(c)
BY RestOfIInv DEF RowsStand, TypeOK

LEMMA NoRowStands ==
  ASSUME NEW c \in Calls, task' = task
  PROVE  RowsStand(c)
BY DEF RowsStand

LEMMA NoEntryStands ==
  ASSUME NEW c \in Calls, inflight' = inflight
  PROVE  RegistryStands(c)
BY DEF RegistryStands

\* The entry a holding call drops is its own.
LEMMA UnregisterStands ==
  ASSUME IInv, RunInv, NEW c \in Calls, Holding(c), Unregister(c)
  PROVE  RegistryStands(c)
<1> SUFFICES ASSUME NEW d \in Calls, d # c, Holding(d)
             PROVE  inflight'[call[d].proc][call[d].task]
                      = inflight[call[d].proc][call[d].task]
  BY DEF RegistryStands
<1>1. call[c].pc \in Phases /\ call[d].pc \in Phases
  BY DEF Holding, Working, Phases
<1>2. /\ call[c].proc \in Procs /\ call[c].task \in Tasks
      /\ call[d].proc \in Procs /\ call[d].task \in Tasks
  BY <1>1, RestOfIInv, PhaseIsBusy
<1>3. inflight[call[c].proc][call[c].task] = c /\ inflight[call[d].proc][call[d].task] = d
  BY DEF RunInv, AllSound, Sound, Registered
<1>4. QED
  BY <1>2, <1>3, RestOfIInv DEF Unregister, TypeOK

\* A running or settled row: whoever else might work on it.
LEMMA OnlyWorker ==
  ASSUME RunInv, NEW c \in Calls, Working(c), NEW d \in Calls, d # c, Working(d)
  PROVE  call[d].task # call[c].task
BY DEF RunInv, AllAlone, Alone

LEMMA NoWorker ==
  ASSUME RunInv, NEW t \in Tasks, task[t].status \notin {"running", "cancelled"},
         NEW d \in Calls, Working(d)
  PROVE  call[d].task # t
BY DEF RunInv, AllSound, Sound, Current

-----------------------------------------------------------------------------
(* The steps that create rows and the calls that enter.                     *)

LEMMA FreshRow ==
  ASSUME RunInv, IInv, NEW t \in Tasks, task[t] = Absent
  PROVE  /\ CreateQueuedTask \in Row /\ Counted(CreateQueuedTask, claims[t])
         /\ \A d \in Calls : Working(d) => call[d].task # t
<1>1. Counted(Absent, claims[t])
  BY DEF RunInv, AllCounted
<1>2. claims[t] = 0
  BY <1>1 DEF Counted, Absent
<1>3. Counted(CreateQueuedTask, claims[t])
  BY <1>2, BudgetAssumption DEF Counted, CreateQueuedTask
<1>4. task[t].status \notin {"running", "cancelled"}
  BY QueuedRow
<1>5. QED
  BY <1>3, <1>4, QueuedRow, NoWorker

LEMMA CreateTaskRuns ==
  ASSUME IInv, RunInv, NEW i \in Inputs, CreateTask(i)
  PROVE  RunInv'
<1> DEFINE t == <<i, 0>>
<1>1. t \in Tasks
  BY BoundAssumption DEF Tasks
<1>2. task[t] = Absent /\ task' = [task EXCEPT ![t] = CreateQueuedTask]
  BY DEF CreateTask
<1>3. UNCHANGED <<recs, call, loop, inflight, up, scan, clock, crashes, claims>>
  BY DEF CreateTask
<1> HIDE DEF t
<1>4. /\ CreateQueuedTask \in Row /\ Counted(CreateQueuedTask, claims[t])
      /\ \A d \in Calls : Working(d) => call[d].task # t
  BY <1>1, <1>2, FreshRow
<1>5. AllCounted'
  BY <1>1, <1>2, <1>3, <1>4, OneRowCounts
<1>6. \A u \in Tasks : u # t => task'[u] = task[u]
  BY <1>1, <1>2, <1>4, OneRowMoves, RestOfIInv
<1>7. AllSound'
  <2> SUFFICES ASSUME NEW d \in Calls PROVE Sound(d)'
    BY DEF AllSound
  <2>1. Sound(d)
    BY DEF RunInv, AllSound
  <2>2. Current(d)'
    <3>1. SUFFICES ASSUME Working(d) PROVE Current(d)'
      BY <1>3 DEF Current, Working
    <3>2. call[d].pc \in Phases
      BY <3>1 DEF Working, Phases
    <3>3. task'[call[d].task] = task[call[d].task]
      BY <1>4, <1>6, <3>1, <3>2, RestOfIInv, PhaseIsBusy
    <3>4. QED
      BY <1>3, <2>1, <3>1, <3>3 DEF Sound, Current
  <2>3. QED
    BY <1>3, <2>1, <2>2 DEF Sound, Funded, Seated, Registered, Holding, Working
<1>8. AllAlone'
  BY <1>3 DEF RunInv, AllAlone, Alone, Working
<1>9. AllListed'
  <2> SUFFICES ASSUME NEW p \in Procs PROVE Listed(p)'
    BY DEF AllListed
  <2>1. Listed(p)
    BY DEF RunInv, AllListed
  <2>2. p = Server => scan[p] = {}
    BY DEF CreateTask, Free
  <2>3. scan[p] = {}
    BY <2>1, <2>2 DEF Listed
  <2>4. QED
    BY <1>3, <2>3 DEF Listed
<1>10. QED
  BY <1>5, <1>7, <1>8, <1>9 DEF RunInv

\* A call that enters holds the event loop and the row it has read.
LEMMA EnterRuns ==
  ASSUME IInv, RunInv, OneRecoverer, NEW c \in Calls, NEW p \in Procs, NEW t \in Tasks,
         NEW phase \in {"launch", "claim", "cancelling", "retrying"},
         Enter(c, p, t, phase),
         phase = "claim" => CanStart(task[t]) /\ inflight' = [inflight EXCEPT ![p][t] = c],
         phase = "retrying" => CanRetry(task[t]),
         RowsStand(c), RegistryStands(c), up' = up, scan' = scan
  PROVE  AllSound' /\ AllListed' /\ AllAlone'
<1>1. call[c] = Idle /\ up[p] /\ scan[p] = {} /\ loop[p] = None
  BY DEF Enter, Available, Free
<1>2. Quiet
  BY <1>1, FreeIsQuiet
<1>3. /\ call'[c].pc = phase /\ call'[c].proc = p /\ call'[c].task = t
      /\ call'[c].seen = task[t]
  BY RestOfIInv DEF Enter, TypeOK
<1>4. Steady(c)
  BY RestOfIInv DEF Enter, TypeOK, Steady
<1>5. SeatGoes(c, p) /\ loop'[p] = c
  BY <1>1, RestOfIInv DEF Enter, TypeOK, SeatGoes
<1>6. ~ Working(c)'
  BY <1>3 DEF Working
<1>7. Sound(c)'
  <2>1. Current(c)'
    BY <1>6 DEF Current
  <2>2. Funded(c)'
    <3>1. task[t].max <= Ceiling
      BY DEF RunInv, AllCounted, Counted
    <3>2. QED
      BY <1>3, <3>1 DEF Funded
  <2>3. Seated(c)'
    BY <1>1, <1>3, <1>5 DEF Seated
  <2>4. Registered(c)'
    BY <1>3, <1>6, RestOfIInv DEF Registered, Holding, TypeOK
  <2>5. QED
    BY <2>1, <2>2, <2>3, <2>4 DEF Sound
<1>8. AllAlone'
  BY <1>4, <1>6, NoneBegins
<1>9. QED
  BY <1>2, <1>4, <1>5, <1>7, <1>8, OneCallRuns

LEMMA CreateRecoveryTaskRuns ==
  ASSUME IInv, RunInv, OneRecoverer, NEW c \in Calls, NEW p \in Clis, NEW i \in Inputs,
         NEW g \in 0 .. MaxGeneration, CreateRecoveryTask(c, p, i, g)
  PROVE  RunInv'
<1> DEFINE t == <<i, g + 1>>
<1>1. t \in Tasks /\ p \in Procs
  BY BoundAssumption DEF Tasks, CreateRecoveryTask, Procs
<1>2. /\ Enter(c, p, t, "launch")
      /\ task' = IF task[t] = Absent
                 THEN [task EXCEPT ![t] = CreateQueuedTask] ELSE task
      /\ UNCHANGED <<recs, inflight, up, scan, clock, crashes, claims>>
  BY DEF CreateRecoveryTask
<1> HIDE DEF t
<1>3. AllCounted' /\ RowsStand(c)
  <2>1. CASE task[t] = Absent
    <3>1. /\ CreateQueuedTask \in Row /\ Counted(CreateQueuedTask, claims[t])
          /\ \A d \in Calls : Working(d) => call[d].task # t
      BY <1>1, <2>1, FreshRow
    <3>2. QED
      BY <1>1, <1>2, <2>1, <3>1, OneRowCounts, OneRowStands
  <2>2. CASE task[t] # Absent
    BY <1>2, <2>2, NoRowCounts, NoRowStands
  <2>3. QED
    BY <2>1, <2>2
<1>4. AllSound' /\ AllListed' /\ AllAlone'
  BY <1>1, <1>2, <1>3, NoEntryStands, EnterRuns
<1>5. QED
  BY <1>3, <1>4 DEF RunInv

\* Registering for a queued task displaces nobody's entry.
LEMMA RegisterStands ==
  ASSUME IInv, RunInv, NEW c \in Calls, NEW p \in Procs, NEW t \in Tasks,
         loop[p] \in {None, c}, CanStart(task[t]),
         inflight' = [inflight EXCEPT ![p][t] = c]
  PROVE  RegistryStands(c)
<1> SUFFICES ASSUME NEW d \in Calls, d # c, Holding(d)
             PROVE  inflight'[call[d].proc][call[d].task]
                      = inflight[call[d].proc][call[d].task]
  BY DEF RegistryStands
<1>1. call[d].pc \in Phases
  BY DEF Holding, Working, Phases
<1>2. call[d].proc \in Procs /\ call[d].task \in Tasks
  BY <1>1, RestOfIInv, PhaseIsBusy
<1>3. CASE Working(d)
  <2>1. call[d].task # t
    BY <1>3, NoWorker DEF CanStart
  <2>2. QED
    BY <1>2, <2>1, RestOfIInv DEF TypeOK
<1>4. CASE call[d].pc = "claim"
  <2>1. loop[call[d].proc] = d
    BY <1>1, <1>4 DEF RunInv, AllSound, Sound, Seated
  <2>2. call[d].proc # p
    BY <2>1, NoneAssumption
  <2>3. QED
    BY <1>2, <2>2, RestOfIInv DEF TypeOK
<1>5. QED
  BY <1>3, <1>4 DEF Holding

LEMMA ClaimReadRuns ==
  ASSUME IInv, RunInv, OneRecoverer, NEW c \in Calls, NEW t \in Tasks, ClaimRead(c, t)
  PROVE  RunInv'
<1>1. /\ CanStart(task[t]) /\ Enter(c, Server, t, "claim") /\ Server \in Procs
      /\ inflight' = [inflight EXCEPT ![Server][t] = c] /\ loop[Server] = None
      /\ UNCHANGED <<task, recs, up, scan, clock, crashes, claims>>
  BY DEF ClaimRead, Procs, Enter, Available, Free
<1>2. RegistryStands(c)
  BY <1>1, RegisterStands
<1>3. AllSound' /\ AllListed' /\ AllAlone'
  BY <1>1, <1>2, NoRowStands, EnterRuns
<1>4. QED
  BY <1>1, <1>3, NoRowCounts DEF RunInv

LEMMA CancelReadRuns ==
  ASSUME IInv, RunInv, OneRecoverer, NEW c \in Calls, NEW t \in Tasks, CancelRead(c, t)
  PROVE  RunInv'
<1>1. /\ Enter(c, Server, t, "cancelling") /\ Server \in Procs
      /\ UNCHANGED <<task, recs, inflight, up, scan, clock, crashes, claims>>
  BY DEF CancelRead, Procs
<1>2. AllSound' /\ AllListed' /\ AllAlone'
  BY <1>1, NoRowStands, NoEntryStands, EnterRuns
<1>3. QED
  BY <1>1, <1>2, NoRowCounts DEF RunInv

LEMMA RetryReadRuns ==
  ASSUME IInv, RunInv, OneRecoverer, NEW c \in Calls, NEW p \in Procs, NEW t \in Tasks,
         RetryRead(c, p, t)
  PROVE  RunInv'
<1>1. /\ Enter(c, p, t, "retrying") /\ CanRetry(task[t])
      /\ UNCHANGED <<task, recs, inflight, up, scan, clock, crashes, claims>>
  BY DEF RetryRead
<1>2. AllSound' /\ AllListed' /\ AllAlone'
  BY <1>1, NoRowStands, NoEntryStands, EnterRuns
<1>3. QED
  BY <1>1, <1>2, NoRowCounts DEF RunInv

-----------------------------------------------------------------------------
(* The steps of a call in progress.                                         *)

\* A call that ends leaves its seat, if it holds it.
LEMMA EndRuns ==
  ASSUME IInv, RunInv, OneRecoverer, NEW c \in Calls, call[c].pc \in Phases,
         loop[call[c].proc] \in {None, c}, Leave(c),
         RowsStand(c), RegistryStands(c), up' = up, scan' = scan
  PROVE  AllSound' /\ AllListed' /\ AllAlone'
<1>1. call[c].proc \in Procs
  BY RestOfIInv, PhaseIsBusy
<1>2. Quiet
  BY BusyIsQuiet
<1>3. Steady(c) /\ call'[c] = Idle
  BY RestOfIInv DEF Leave, TypeOK, Steady
<1>4. SeatGoes(c, call[c].proc)
  BY <1>1, RestOfIInv DEF Leave, TypeOK, SeatGoes
<1>5. call'[c].pc \notin Phases /\ call'[c].pc # "claim" /\ ~ Working(c)'
  BY <1>3 DEF Idle, Phases, Working
<1>6. Sound(c)'
  BY <1>5 DEF Sound, Current, Funded, Seated, Registered, Holding
<1>7. AllAlone'
  BY <1>3, <1>5, NoneBegins
<1>8. QED
  BY <1>1, <1>2, <1>3, <1>4, <1>6, <1>7, OneCallRuns

\* A call that goes on keeps its process and its task.
LEMMA GoOnRuns ==
  ASSUME IInv, RunInv, OneRecoverer, NEW c \in Calls, call[c].pc \in Phases,
         loop[call[c].proc] \in {None, c},
         NEW x \in Busy, call' = [call EXCEPT ![c] = x],
         x.proc = call[c].proc, x.task = call[c].task,
         NEW holder \in {None, c}, loop' = [loop EXCEPT ![call[c].proc] = holder],
         x.pc # "calling" => holder = c,
         Current(c)', Funded(c)', Registered(c)',
         RowsStand(c), RegistryStands(c), up' = up, scan' = scan
  PROVE  AllSound' /\ AllListed' /\ Steady(c)
<1>1. call[c].proc \in Procs
  BY RestOfIInv, PhaseIsBusy
<1>2. Quiet
  BY BusyIsQuiet
<1>3. Steady(c) /\ call'[c] = x
  BY RestOfIInv DEF TypeOK, Steady
<1>4. SeatGoes(c, call[c].proc) /\ loop'[call[c].proc] = holder
  BY <1>1, RestOfIInv DEF TypeOK, SeatGoes
<1>5. Seated(c)'
  <2>1. up[call[c].proc] /\ scan[call[c].proc] = {}
    BY DEF RunInv, AllSound, Sound, Seated
  <2>2. QED
    BY <1>3, <1>4, <2>1 DEF Seated
<1>6. Sound(c)'
  BY <1>5 DEF Sound
<1>7. QED
  BY <1>1, <1>2, <1>3, <1>4, <1>6, OneCallRuns

LEMMA LaunchReadRuns ==
  ASSUME IInv, RunInv, OneRecoverer, NEW c \in Calls, LaunchRead(c)
  PROVE  RunInv'
<1> DEFINE t == call[c].task
           p == call[c].proc
<1>1. /\ call[c].pc = "launch" /\ call[c].pc \in Phases /\ "claim" \in Phases
      /\ UNCHANGED <<task, recs, up, scan, clock, crashes, claims>>
  BY DEF LaunchRead, Phases
<1>2. call[c] \in Busy /\ t \in Tasks /\ p \in Procs
  BY <1>1, RestOfIInv, PhaseIsBusy
<1>3. loop[p] = c
  BY <1>1 DEF RunInv, AllSound, Sound, Seated
<1>4. AllCounted' /\ RowsStand(c)
  BY <1>1, NoRowCounts, NoRowStands
<1>5. CASE CanStart(task[t])
  <2> DEFINE x == [call[c] EXCEPT !.pc = "claim", !.seen = task[t]]
  <2>1. /\ call' = [call EXCEPT ![c] = x] /\ inflight' = [inflight EXCEPT ![p][t] = c]
        /\ loop' = loop
    BY <1>5 DEF LaunchRead
  <2>2. task[t] \in Row
    BY <1>2, RestOfIInv DEF TypeOK
  <2>3. x \in Busy
    BY <1>1, <1>2, <2>2, BusyMoves
  <2>4. x.pc = "claim" /\ x.proc = p /\ x.task = t /\ x.seen = task[t]
    BY <1>2 DEF Busy
  <2> HIDE DEF x
  <2>5. call'[c] = x
    BY <2>1, RestOfIInv DEF TypeOK
  <2>6. Current(c)' /\ ~ Working(c)'
    BY <2>4, <2>5 DEF Current, Working
  <2>7. Funded(c)'
    <3>1. task[t].max <= Ceiling
      BY <1>2 DEF RunInv, AllCounted, Counted
    <3>2. QED
      BY <1>5, <2>4, <2>5, <3>1 DEF Funded
  <2>8. Registered(c)'
    BY <1>2, <2>1, <2>4, <2>5, RestOfIInv DEF Registered, TypeOK
  <2>9. RegistryStands(c)
    BY <1>2, <1>3, <1>5, <2>1, RegisterStands
  <2>10. loop' = [loop EXCEPT ![p] = c]
    BY <1>2, <1>3, <2>1, RestOfIInv DEF TypeOK
  <2>11. AllSound' /\ AllListed' /\ Steady(c)
    BY <1>1, <1>3, <1>4, <2>1, <2>3, <2>4, <2>6, <2>7, <2>8, <2>9, <2>10, GoOnRuns
  <2>12. AllAlone'
    BY <2>6, <2>11, NoneBegins
  <2>13. QED
    BY <1>4, <2>11, <2>12 DEF RunInv
<1>6. CASE ~ CanStart(task[t])
  <2>1. Leave(c) /\ inflight' = inflight
    BY <1>6 DEF LaunchRead
  <2>2. QED
    BY <1>1, <1>3, <1>4, <2>1, NoEntryStands, EndRuns DEF RunInv
<1>7. QED
  BY <1>5, <1>6

\* The claim: a queued row has no worker, so the caller will be the only one.
LEMMA ClaimWinsRuns ==
  ASSUME IInv, RunInv, OneRecoverer, NEW c \in Calls, ClaimWins(c)
  PROVE  RunInv'
<1> DEFINE t == call[c].task
           p == call[c].proc
           seen == call[c].seen
           running == StartTask(seen)
           x == [call[c] EXCEPT !.pc = "calling", !.seen = running]
<1>1. /\ call[c].pc = "claim" /\ call[c].pc \in Phases /\ "calling" \in Phases
      /\ AttemptMatches(t, seen)
      /\ task' = [task EXCEPT ![t] = running]
      /\ claims' = [claims EXCEPT ![t] = @ + 1]
      /\ call' = [call EXCEPT ![c] = x]
      /\ loop' = [loop EXCEPT ![p] = None]
      /\ UNCHANGED <<recs, inflight, up, scan, clock, crashes>>
  BY DEF ClaimWins, Phases
<1>2. call[c] \in Busy /\ t \in Tasks /\ p \in Procs /\ seen \in Row
  BY <1>1, RestOfIInv, PhaseIsBusy
<1>3. /\ loop[p] = c /\ inflight[p][t] = c /\ CanStart(seen) /\ seen.max <= Ceiling
  BY <1>1 DEF RunInv, AllSound, Sound, Seated, Registered, Holding, Funded
<1>4. task[t].status = "queued" /\ task[t].attempt = seen.attempt
  BY <1>1, <1>3 DEF CanStart, AttemptMatches, StatusMatches
<1>5. /\ running \in Row /\ running.status = "running"
      /\ running.attempt = seen.attempt + 1 /\ running.max = seen.max
  <2>1. seen.attempt + 1 \in Nat
    BY <1>2 DEF Row
  <2>2. QED
    BY <1>2, <2>1 DEF StartTask, Row, Statuses
<1>6. x \in Busy
  BY <1>1, <1>2, <1>5, BusyMoves
<1>7. x.pc = "calling" /\ x.proc = p /\ x.task = t /\ x.seen = running
  BY <1>2 DEF Busy
<1> HIDE DEF x, running
<1>8. call'[c] = x
  BY <1>1, RestOfIInv DEF TypeOK
<1>9. \A d \in Calls : Working(d) => call[d].task # t
  BY <1>2, <1>4, NoWorker
<1>10. RowsStand(c)
  BY <1>1, <1>2, <1>5, <1>9, OneRowStands
<1>11. task'[t] = running /\ \A u \in Tasks : u # t => task'[u] = task[u]
  BY <1>1, <1>2, <1>5, OneRowMoves, RestOfIInv
<1>12. Current(c)' /\ Funded(c)' /\ Registered(c)'
  <2>1. Current(c)'
    BY <1>5, <1>7, <1>8, <1>11 DEF Current
  <2>2. Funded(c)'
    BY <1>3, <1>5, <1>7, <1>8 DEF Funded
  <2>3. Registered(c)'
    BY <1>1, <1>3, <1>7, <1>8 DEF Registered
  <2>4. QED
    BY <2>1, <2>2, <2>3
<1>13. AllSound' /\ AllListed' /\ Steady(c)
  BY <1>1, <1>3, <1>6, <1>7, <1>10, <1>12, NoEntryStands, GoOnRuns
<1>14. AllAlone'
  <2> SUFFICES ASSUME NEW d \in Calls, NEW e \in Calls PROVE Alone(d, e)'
    BY DEF AllAlone
  <2>1. Alone(d, e)
    BY DEF RunInv, AllAlone
  <2>2. d # c /\ Working(d)' => Working(d) /\ call'[d].task = call[d].task /\ call[d].task # t
    BY <1>9, <1>13 DEF Steady, Working
  <2>3. e # c /\ Working(e)' => Working(e) /\ call'[e].task = call[e].task /\ call[e].task # t
    BY <1>9, <1>13 DEF Steady, Working
  <2>4. call'[c].task = t
    BY <1>7, <1>8
  <2>5. QED
    BY <2>1, <2>2, <2>3, <2>4 DEF Alone
<1>15. AllCounted'
  <2> SUFFICES ASSUME NEW u \in Tasks PROVE Counted(task[u], claims[u])'
    BY DEF AllCounted
  <2>1. Counted(task[u], claims[u])
    BY DEF RunInv, AllCounted
  <2>2. CASE u # t
    <3>1. task'[u] = task[u] /\ claims'[u] = claims[u]
      BY <1>1, <1>2, <1>11, <2>2, RestOfIInv DEF TypeOK
    <3>2. QED
      BY <2>1, <3>1 DEF Counted
  <2>3. CASE u = t
    <3>1. claims'[u] = claims[u] + 1 /\ claims[u] \in Nat /\ seen.attempt \in Nat /\ seen.max \in Nat
      BY <1>1, <1>2, <2>3, RestOfIInv DEF TypeOK, Row
    <3>2. claims[u] = seen.attempt
      BY <1>4, <2>1, <2>3 DEF Counted
    <3>3. seen.attempt < seen.max /\ Ceiling \in Nat
      BY <1>3, BudgetAssumption DEF CanStart
    <3>4. QED
      BY <1>3, <1>5, <1>11, <2>3, <3>1, <3>2, <3>3 DEF Counted
  <2>4. QED
    BY <2>2, <2>3
<1>16. QED
  BY <1>13, <1>14, <1>15 DEF RunInv

LEMMA ClaimLosesRuns ==
  ASSUME IInv, RunInv, OneRecoverer, NEW c \in Calls, ClaimLoses(c)
  PROVE  RunInv'
<1>1. /\ call[c].pc = "claim" /\ call[c].pc \in Phases /\ Holding(c)
      /\ Leave(c) /\ Unregister(c)
      /\ UNCHANGED <<task, recs, up, scan, clock, crashes, claims>>
  BY DEF ClaimLoses, Phases, Holding
<1>2. loop[call[c].proc] = c
  BY <1>1 DEF RunInv, AllSound, Sound, Seated
<1>3. AllSound' /\ AllListed' /\ AllAlone'
  BY <1>1, <1>2, NoRowStands, UnregisterStands, EndRuns
<1>4. QED
  BY <1>1, <1>3, NoRowCounts DEF RunInv

LEMMA ResultReturnedRuns ==
  ASSUME IInv, RunInv, OneRecoverer, NEW c \in Calls, ResultReturned(c)
  PROVE  RunInv'
<1> DEFINE p == call[c].proc
           x == [call[c] EXCEPT !.pc = "record", !.stamp = clock + 1,
                                !.supersedes = NewestRecord]
<1>1. /\ call[c].pc = "calling" /\ call[c].pc \in Phases /\ "record" \in Phases
      /\ loop[p] = None /\ loop' = [loop EXCEPT ![p] = c]
      /\ call' = [call EXCEPT ![c] = x]
      /\ UNCHANGED <<task, recs, inflight, up, scan, crashes, claims>>
  BY DEF ResultReturned, Free, Phases
<1>2. call[c] \in Busy /\ call[c].seen \in Row
  BY <1>1, RestOfIInv, PhaseIsBusy
<1>3. NewestRecord \in Nat /\ clock + 1 \in Nat
  BY NewestIsNat, RestOfIInv DEF RestOK
<1>4. x \in Busy
  BY <1>1, <1>2, <1>3, BusyMoves
<1>5. /\ x.pc = "record" /\ x.proc = p /\ x.task = call[c].task /\ x.seen = call[c].seen
  BY <1>2 DEF Busy
<1> HIDE DEF x
<1>6. call'[c] = x
  BY <1>1, RestOfIInv DEF TypeOK
<1>7. Working(c) /\ Sound(c)
  BY <1>1 DEF Working, RunInv, AllSound
<1>8. Current(c)' /\ Funded(c)' /\ Registered(c)'
  <2>1. Current(c)'
    BY <1>1, <1>5, <1>6, <1>7 DEF Sound, Current
  <2>2. Funded(c)'
    BY <1>1, <1>5, <1>6, <1>7 DEF Sound, Funded
  <2>3. Registered(c)'
    BY <1>1, <1>5, <1>6, <1>7 DEF Sound, Registered, Holding
  <2>4. QED
    BY <2>1, <2>2, <2>3
<1>9. AllSound' /\ AllListed' /\ Steady(c)
  BY <1>1, <1>4, <1>5, <1>8, NoRowStands, NoEntryStands, GoOnRuns
<1>10. AllAlone'
  BY <1>5, <1>6, <1>7, <1>9, NoneBegins
<1>11. QED
  BY <1>1, <1>9, <1>10, NoRowCounts DEF RunInv

\* The failure path: the reread row carries the attempt the call works for.
LEMMA RereadRuns ==
  ASSUME IInv, RunInv, OneRecoverer, NEW c \in Calls, NEW code \in ErrorCodes,
         Working(c), loop[call[c].proc] \in {None, c},
         RereadToFail(c, code), UNCHANGED <<task, recs, up, scan, clock, crashes, claims>>
  PROVE  RunInv'
<1> DEFINE t == call[c].task
           p == call[c].proc
           failed == MarkFailed(task[t], code)
           x == [call[c] EXCEPT !.pc = "failing", !.seen = failed]
<1>1. call[c].pc \in Phases /\ "failing" \in Phases /\ Holding(c)
  BY DEF Working, Phases, Holding
<1>2. call[c] \in Busy /\ t \in Tasks /\ p \in Procs /\ task[t] \in Row
  BY <1>1, RestOfIInv, PhaseIsBusy DEF TypeOK
<1>3. AllCounted' /\ RowsStand(c)
  BY NoRowCounts, NoRowStands
<1>4. CASE task[t].status = "running"
  <2>1. /\ call' = [call EXCEPT ![c] = x] /\ loop' = [loop EXCEPT ![p] = c]
        /\ inflight' = inflight
    BY <1>4 DEF RereadToFail
  <2>2. /\ failed \in Row /\ failed.attempt = task[t].attempt /\ failed.max = task[t].max
    BY <1>2 DEF MarkFailed, Row, Statuses
  <2>3. x \in Busy
    BY <1>1, <1>2, <2>2, BusyMoves
  <2>4. x.pc = "failing" /\ x.proc = p /\ x.task = t /\ x.seen = failed
    BY <1>2 DEF Busy
  <2> HIDE DEF x, failed
  <2>5. call'[c] = x
    BY <2>1, RestOfIInv DEF TypeOK
  <2>6. Current(c)' /\ Funded(c)' /\ Registered(c)'
    <3>1. Current(c)'
      BY <1>4, <2>2, <2>4, <2>5 DEF Current
    <3>2. Funded(c)'
      <4>1. task[t].max <= Ceiling
        BY <1>2 DEF RunInv, AllCounted, Counted
      <4>2. QED
        BY <2>2, <2>4, <2>5, <4>1 DEF Funded
    <3>3. Registered(c)'
      BY <1>1, <2>1, <2>4, <2>5 DEF RunInv, AllSound, Sound, Registered
    <3>4. QED
      BY <3>1, <3>2, <3>3
  <2>7. AllSound' /\ AllListed' /\ Steady(c)
    BY <1>1, <1>3, <2>1, <2>3, <2>4, <2>6, NoEntryStands, GoOnRuns
  <2>8. AllAlone'
    BY <2>4, <2>5, <2>7, NoneBegins
  <2>9. QED
    BY <1>3, <2>7, <2>8 DEF RunInv
<1>5. CASE task[t].status # "running"
  <2>1. Leave(c) /\ Unregister(c)
    BY <1>5 DEF RereadToFail
  <2>2. QED
    BY <1>1, <1>3, <2>1, UnregisterStands, EndRuns DEF RunInv
<1>6. QED
  BY <1>4, <1>5

LEMMA ErrorReturnedRuns ==
  ASSUME IInv, RunInv, OneRecoverer, NEW c \in Calls,
         NEW code \in ProviderErrors \cup {"CANCELLED_BY_USER"}, ErrorReturned(c, code)
  PROVE  RunInv'
<1>1. code \in ErrorCodes /\ Working(c) /\ loop[call[c].proc] = None
  BY DEF ErrorCodes, ErrorReturned, Working, Free
<1>2. QED
  BY <1>1, RereadRuns DEF ErrorReturned

LEMMA WriteResultThrowsRuns ==
  ASSUME IInv, RunInv, OneRecoverer, NEW c \in Calls, WriteResultThrows(c)
  PROVE  RunInv'
<1>1. "RESULT_WRITE_FAILED" \in ErrorCodes /\ Working(c) /\ call[c].pc = "record"
  BY DEF ErrorCodes, WriteResultThrows, Working
<1>2. loop[call[c].proc] = c
  BY <1>1 DEF RunInv, AllSound, Sound, Seated, Phases
<1>3. QED
  BY <1>1, <1>2, RereadRuns DEF WriteResultThrows

-----------------------------------------------------------------------------
(* The writes.                                                              *)

\* A working call settles its row, or leaves it alone, and ends.
LEMMA SettleRuns ==
  ASSUME IInv, RunInv, OneRecoverer, NEW c \in Calls, Working(c),
         call[c].pc # "calling", Leave(c), Unregister(c),
         NEW row \in Row, Counted(row, claims[call[c].task]),
         task' = [task EXCEPT ![call[c].task] = row],
         up' = up, scan' = scan, claims' = claims
  PROVE  RunInv'
<1>1. call[c].pc \in Phases /\ Holding(c)
  BY DEF Working, Phases, Holding
<1>2. call[c].task \in Tasks
  BY <1>1, RestOfIInv, PhaseIsBusy
<1>3. loop[call[c].proc] = c
  BY <1>1 DEF RunInv, AllSound, Sound, Seated
<1>4. RowsStand(c)
  <2>1. \A d \in Calls : d # c /\ Working(d) => call[d].task # call[c].task
    BY OnlyWorker
  <2>2. QED
    BY <1>2, <2>1, OneRowStands
<1>5. AllSound' /\ AllListed' /\ AllAlone'
  BY <1>1, <1>3, <1>4, UnregisterStands, EndRuns
<1>6. AllCounted'
  BY <1>2, OneRowCounts
<1>7. QED
  BY <1>5, <1>6 DEF RunInv

\* A call that gives up.
LEMMA GiveUpRuns ==
  ASSUME IInv, RunInv, OneRecoverer, NEW c \in Calls, Working(c),
         call[c].pc # "calling", Leave(c), Unregister(c),
         UNCHANGED <<task, up, scan, claims>>
  PROVE  RunInv'
<1>1. call[c].pc \in Phases /\ Holding(c)
  BY DEF Working, Phases, Holding
<1>2. loop[call[c].proc] = c
  BY <1>1 DEF RunInv, AllSound, Sound, Seated
<1>3. AllSound' /\ AllListed' /\ AllAlone'
  BY <1>1, <1>2, NoRowStands, UnregisterStands, EndRuns
<1>4. QED
  BY <1>3, NoRowCounts DEF RunInv

LEMMA WriteResultRuns ==
  ASSUME IInv, RunInv, OneRecoverer, NEW c \in Calls, WriteResult(c)
  PROVE  RunInv'
<1> DEFINE t == call[c].task
           rec == [task |-> t, stamp |-> call[c].stamp,
                   supersedes |-> call[c].supersedes]
           row == MarkSucceeded(task[t], rec.stamp)
<1>1. Working(c) /\ call[c].pc = "record" /\ call[c].pc \in Phases
  BY DEF WriteResult, Working, Phases
<1>2. t \in Tasks /\ call[c].stamp \in Nat
  BY <1>1, RestOfIInv, PhaseIsBusy
<1>3. task[t] \in Row /\ task[t].status = "running"
  BY <1>2, RestOfIInv DEF WriteResult, TypeOK
<1>4. StoredRecord(c) = rec
  BY <1>2, <1>3, RestOfIInv DEF StoredRecord, RecordIffSucceeded, RecordsOf
<1>5. task' = [task EXCEPT ![t] = row]
  BY <1>4 DEF WriteResult
<1>6. /\ row \in Row /\ row.status = "succeeded"
      /\ row.attempt = task[t].attempt /\ row.max = task[t].max
  <2>1. rec.stamp = call[c].stamp
    OBVIOUS
  <2>2. QED
    BY <1>2, <1>3, <2>1 DEF MarkSucceeded, Row, Statuses, ErrorCodes
<1>7. Counted(row, claims[t])
  <2>1. Counted(task[t], claims[t])
    BY <1>2 DEF RunInv, AllCounted
  <2>2. QED
    BY <1>3, <1>6, <2>1 DEF Counted
<1>8. Leave(c) /\ Unregister(c) /\ UNCHANGED <<up, scan, claims>>
  BY DEF WriteResult
<1> HIDE DEF row, rec
<1>9. QED
  BY <1>1, <1>5, <1>6, <1>7, <1>8, SettleRuns

LEMMA DiscardResultRuns ==
  ASSUME IInv, RunInv, OneRecoverer, NEW c \in Calls, DiscardResult(c)
  PROVE  RunInv'
BY GiveUpRuns DEF DiscardResult, Working

LEMMA WriteFailureRuns ==
  ASSUME IInv, RunInv, OneRecoverer, NEW c \in Calls, WriteFailure(c)
  PROVE  RunInv'
<1> DEFINE t == call[c].task
           seen == call[c].seen
<1>1. Working(c) /\ call[c].pc = "failing" /\ call[c].pc \in Phases
  BY DEF WriteFailure, Working, Phases
<1>2. t \in Tasks /\ seen \in Row /\ seen.status = "failed"
  BY <1>1, RestOfIInv, PhaseIsBusy DEF CallsKnow, Knows
<1>3. Leave(c) /\ Unregister(c) /\ UNCHANGED <<up, scan, claims>>
  BY DEF WriteFailure
<1>4. CASE task[t].status = "running"
  <2>1. task' = [task EXCEPT ![t] = seen]
    BY <1>4 DEF WriteFailure
  <2>2. seen.attempt = task[t].attempt /\ seen.max <= Ceiling
    BY <1>1, <1>4 DEF RunInv, AllSound, Sound, Current, Funded
  <2>3. Counted(task[t], claims[t])
    BY <1>2 DEF RunInv, AllCounted
  <2>4. Counted(seen, claims[t])
    BY <1>2, <1>4, <2>2, <2>3 DEF Counted
  <2>5. QED
    BY <1>1, <1>2, <1>3, <2>1, <2>4, SettleRuns
<1>5. CASE task[t].status # "running"
  BY <1>1, <1>3, <1>5, GiveUpRuns DEF WriteFailure
<1>6. QED
  BY <1>4, <1>5

\* A cancellation may settle a row under a working call, which stays alone.
LEMMA CancelWinsRuns ==
  ASSUME IInv, RunInv, OneRecoverer, NEW c \in Calls, CancelWins(c)
  PROVE  RunInv'
<1> DEFINE t == call[c].task
           p == call[c].proc
           seen == call[c].seen
           row == CancelTask(seen)
<1>1. /\ call[c].pc = "cancelling" /\ call[c].pc \in Phases
      /\ task' = [task EXCEPT ![t] = row] /\ loop' = [loop EXCEPT ![p] = None]
      /\ UNCHANGED <<recs, inflight, up, scan, clock, crashes, claims>>
  BY DEF CancelWins, Phases
<1>2. call[c] \in Busy /\ t \in Tasks /\ p \in Procs /\ seen \in Row
  BY <1>1, RestOfIInv, PhaseIsBusy
<1>3. row \in Row /\ row.status = "cancelled" /\ row.max = seen.max
  BY <1>2 DEF CancelTask, Row, Statuses, ErrorCodes
<1> HIDE DEF row
<1>4. loop[p] = c /\ seen.max <= Ceiling
  BY <1>1 DEF RunInv, AllSound, Sound, Seated, Funded
<1>5. Quiet
  BY <1>1, BusyIsQuiet
<1>6. call'[c] = Idle
  BY DEF CancelWins
<1>7. Steady(c)
  <2> SUFFICES ASSUME NEW d \in Calls, d # c
               PROVE  /\ call'[d].pc = call[d].pc /\ call'[d].proc = call[d].proc
                      /\ call'[d].task = call[d].task /\ call'[d].seen = call[d].seen
    BY DEF Steady
  <2>1. call'[d] = call[d] \/ call'[d] = [call[d] EXCEPT !.aborted = TRUE]
    BY DEF CancelWins
  <2>2. call[d] = Idle \/ call[d] \in Busy
    BY RestOfIInv DEF TypeOK
  <2>3. CASE call[d] \in Busy
    BY <2>1, <2>3 DEF Busy
  <2>4. CASE call[d] = Idle
    <3>1. [Idle EXCEPT !.aborted = TRUE] = Idle
      BY DEF Idle
    <3>2. QED
      BY <2>1, <2>4, <3>1
  <2>5. QED
    BY <2>2, <2>3, <2>4
<1>8. SeatGoes(c, p)
  BY <1>1, <1>2, <1>4, RestOfIInv DEF SeatGoes, TypeOK
<1>9. task'[t] = row /\ \A u \in Tasks : u # t => task'[u] = task[u]
  BY <1>1, <1>2, <1>3, OneRowMoves, RestOfIInv
<1>10. RowsStand(c)
  <2> SUFFICES ASSUME NEW d \in Calls, d # c, Working(d)
               PROVE  \/ task'[call[d].task] = task[call[d].task]
                      \/ task'[call[d].task].status = "cancelled"
    BY DEF RowsStand
  <2>1. call[d].pc \in Phases
    BY DEF Working, Phases
  <2>2. call[d].task \in Tasks
    BY <2>1, RestOfIInv, PhaseIsBusy
  <2>3. QED
    BY <1>3, <1>9, <2>2
<1>11. call'[c].pc \notin Phases /\ call'[c].pc # "claim" /\ ~ Working(c)'
  BY <1>6 DEF Idle, Phases, Working
<1>12. Sound(c)'
  BY <1>11 DEF Sound, Current, Funded, Seated, Registered, Holding
<1>13. AllSound' /\ AllListed'
  BY <1>1, <1>2, <1>5, <1>7, <1>8, <1>10, <1>12, NoEntryStands, OneCallRuns
<1>14. AllAlone'
  BY <1>7, <1>11, NoneBegins
<1>15. AllCounted'
  <2>1. Counted(task[t], claims[t])
    BY <1>2 DEF RunInv, AllCounted
  <2>2. Counted(row, claims[t])
    BY <1>3, <1>4, <2>1 DEF Counted
  <2>3. QED
    BY <1>1, <1>2, <1>3, <2>2, OneRowCounts
<1>16. QED
  BY <1>13, <1>14, <1>15 DEF RunInv

LEMMA CancelLosesRuns ==
  ASSUME IInv, RunInv, OneRecoverer, NEW c \in Calls, CancelLoses(c)
  PROVE  RunInv'
<1>1. /\ call[c].pc = "cancelling" /\ call[c].pc \in Phases /\ Leave(c)
      /\ UNCHANGED <<task, recs, inflight, up, scan, clock, crashes, claims>>
  BY DEF CancelLoses, Phases
<1>2. loop[call[c].proc] = c
  BY <1>1 DEF RunInv, AllSound, Sound, Seated
<1>3. AllSound' /\ AllListed' /\ AllAlone'
  BY <1>1, <1>2, NoRowStands, NoEntryStands, EndRuns
<1>4. QED
  BY <1>1, <1>3, NoRowCounts DEF RunInv

\* The retry raises the limit by what one more attempt needs, under the ceiling.
LEMMA RetryCasRuns ==
  ASSUME IInv, RunInv, OneRecoverer, NEW c \in Calls, RetryCas(c)
  PROVE  RunInv'
<1> DEFINE t == call[c].task
           p == call[c].proc
           seen == call[c].seen
           row == ManualRetryTask(seen)
<1>1. /\ call[c].pc = "retrying" /\ call[c].pc \in Phases /\ "launch" \in Phases
      /\ UNCHANGED <<recs, inflight, up, scan, clock, crashes, claims>>
  BY DEF RetryCas, Phases
<1>2. call[c] \in Busy /\ t \in Tasks /\ p \in Procs /\ seen \in Row
  BY <1>1, RestOfIInv, PhaseIsBusy
<1>3. /\ loop[p] = c /\ CanRetry(seen) /\ seen.max <= Ceiling
  BY <1>1 DEF RunInv, AllSound, Sound, Seated, Funded
<1>4. AllCounted' /\ RowsStand(c)
  <2>1. CASE AttemptMatches(t, seen)
    <3>1. task' = [task EXCEPT ![t] = row]
      BY <2>1 DEF RetryCas
    <3>2. seen.attempt \in Nat /\ seen.max \in Nat /\ Ceiling \in Nat
      BY <1>2, BudgetAssumption DEF Row
    <3>3. /\ Larger(seen.max, seen.attempt + 1) \in Nat
          /\ Larger(seen.max, seen.attempt + 1) <= Ceiling
          /\ seen.attempt < Larger(seen.max, seen.attempt + 1)
      BY <1>3, <3>2 DEF Larger, CanRetry
    <3>4. /\ row \in Row /\ row.status = "queued" /\ row.attempt = seen.attempt
          /\ row.max = Larger(seen.max, seen.attempt + 1)
      BY <1>2, <3>3 DEF ManualRetryTask, Row, Statuses, ErrorCodes
    <3> HIDE DEF row
    <3>5. task[t].status = "failed" /\ task[t].attempt = seen.attempt
      BY <1>3, <2>1 DEF AttemptMatches, StatusMatches, CanRetry
    <3>6. Counted(task[t], claims[t])
      BY <1>2 DEF RunInv, AllCounted
    <3>7. Counted(row, claims[t])
      BY <3>3, <3>4, <3>5, <3>6 DEF Counted
    <3>8. \A d \in Calls : Working(d) => call[d].task # t
      BY <1>2, <3>5, NoWorker
    <3>9. QED
      BY <1>1, <1>2, <3>1, <3>4, <3>7, <3>8, OneRowCounts, OneRowStands
  <2>2. CASE ~ AttemptMatches(t, seen)
    <3>1. task' = task
      BY <2>2 DEF RetryCas
    <3>2. QED
      BY <1>1, <3>1, NoRowCounts, NoRowStands
  <2>3. QED
    BY <2>1, <2>2
<1>5. CASE p \in Clis /\ task'[t].status = "queued"
  <2> DEFINE x == [call[c] EXCEPT !.pc = "launch"]
  <2>1. call' = [call EXCEPT ![c] = x] /\ loop' = loop
    BY <1>5 DEF RetryCas
  <2>2. x \in Busy
    BY <1>1, <1>2 DEF Busy
  <2>3. x.pc = "launch" /\ x.proc = p /\ x.task = t /\ x.seen = seen
    BY <1>2 DEF Busy
  <2> HIDE DEF x
  <2>4. call'[c] = x
    BY <2>1, RestOfIInv DEF TypeOK
  <2>5. Current(c)' /\ Funded(c)' /\ Registered(c)' /\ ~ Working(c)'
    BY <1>3, <2>3, <2>4 DEF Current, Funded, Registered, Holding, Working
  <2>6. loop' = [loop EXCEPT ![p] = c]
    BY <1>2, <1>3, <2>1, RestOfIInv DEF TypeOK
  <2>7. AllSound' /\ AllListed' /\ Steady(c)
    BY <1>1, <1>3, <1>4, <2>1, <2>2, <2>3, <2>5, <2>6, NoEntryStands, GoOnRuns
  <2>8. AllAlone'
    BY <2>5, <2>7, NoneBegins
  <2>9. QED
    BY <1>4, <2>7, <2>8 DEF RunInv
<1>6. CASE ~ (p \in Clis /\ task'[t].status = "queued")
  <2>1. Leave(c)
    BY <1>6 DEF RetryCas
  <2>2. QED
    BY <1>1, <1>3, <1>4, <2>1, NoEntryStands, EndRuns DEF RunInv
<1>7. QED
  BY <1>5, <1>6

-----------------------------------------------------------------------------
(* Crash, restart and the scan.                                             *)

LEMMA CrashRuns ==
  ASSUME IInv, RunInv, OneRecoverer, NEW p \in Procs, Crash(p)
  PROVE  RunInv'
<1>1. UNCHANGED <<task, claims>>
  BY DEF Crash
<1>2. ASSUME NEW d \in Calls
      PROVE  \/ call'[d] = Idle
             \/ call'[d] = call[d] /\ (call[d].pc \in Phases => call[d].proc # p)
  BY DEF Crash, Phases, Idle
<1>3. Idle.pc \notin Phases /\ Idle.pc # "claim"
      /\ Idle.pc \notin {"calling", "record", "failing"}
  BY DEF Idle, Phases
<1>4. ASSUME NEW d \in Calls PROVE Sound(d)'
  <2>1. CASE call'[d] = Idle
    BY <1>3, <2>1 DEF Sound, Current, Funded, Seated, Registered, Holding, Working
  <2>2. CASE call'[d] = call[d] /\ (call[d].pc \in Phases => call[d].proc # p)
    <3>1. Sound(d)
      BY DEF RunInv, AllSound
    <3>2. ASSUME call[d].pc \in Phases
          PROVE  /\ loop'[call[d].proc] = loop[call[d].proc]
                 /\ inflight'[call[d].proc] = inflight[call[d].proc]
                 /\ up'[call[d].proc] = up[call[d].proc]
                 /\ scan'[call[d].proc] = scan[call[d].proc]
      <4>1. call[d].proc \in Procs /\ call[d].proc # p
        BY <2>2, <3>2, RestOfIInv, PhaseIsBusy
      <4>2. QED
        BY <4>1, RestOfIInv DEF Crash, TypeOK
    <3>3. Holding(d) => call[d].pc \in Phases
      BY DEF Holding, Working, Phases
    <3>4. Current(d)'
      BY <1>1, <2>2, <3>1 DEF Sound, Current, Working
    <3>5. Funded(d)'
      BY <2>2, <3>1 DEF Sound, Funded
    <3>6. Seated(d)'
      BY <2>2, <3>1, <3>2 DEF Sound, Seated
    <3>7. Registered(d)'
      BY <2>2, <3>1, <3>2, <3>3 DEF Sound, Registered, Holding, Working
    <3>8. QED
      BY <3>4, <3>5, <3>6, <3>7 DEF Sound
  <2>3. QED
    BY <1>2, <2>1, <2>2
<1>5. AllAlone'
  <2> SUFFICES ASSUME NEW d \in Calls, NEW e \in Calls PROVE Alone(d, e)'
    BY DEF AllAlone
  <2>1. Alone(d, e)
    BY DEF RunInv, AllAlone
  <2>2. QED
    BY <1>2, <1>3, <2>1 DEF Alone, Working
<1>6. AllListed'
  <2> SUFFICES ASSUME NEW q \in Procs PROVE Listed(q)'
    BY DEF AllListed
  <2>1. scan'[q] = scan[q] \/ scan'[q] = {}
    BY RestOfIInv DEF Crash, TypeOK
  <2>2. Listed(q)
    BY DEF RunInv, AllListed
  <2>3. QED
    BY <1>1, <2>1, <2>2 DEF Listed
<1>7. QED
  BY <1>1, <1>4, <1>5, <1>6, NoRowCounts DEF RunInv, AllSound

LEMMA StartRuns ==
  ASSUME IInv, RunInv, OneRecoverer, NEW p \in Procs, Start(p) \/ StartAndRecover(p)
  PROVE  RunInv'
<1>1. /\ ~ up[p] /\ up' = [up EXCEPT ![p] = TRUE]
      /\ \/ scan' = scan
         \/ p = Server /\ RecoveryWired /\ scan' = [scan EXCEPT ![p] = Recoverable]
      /\ UNCHANGED <<task, recs, call, loop, inflight, clock, crashes, claims>>
  BY DEF Start, StartAndRecover
<1>2. ASSUME NEW d \in Calls PROVE Sound(d)'
  <2>1. Sound(d)
    BY DEF RunInv, AllSound
  <2>2. Seated(d)'
    <3> SUFFICES ASSUME call[d].pc \in Phases PROVE Seated(d)'
      BY <1>1 DEF Seated
    <3>1. call[d].proc \in Procs
      BY RestOfIInv, PhaseIsBusy
    <3>2. call[d].proc # p
      BY <1>1, <2>1 DEF Sound, Seated
    <3>3. QED
      BY <1>1, <2>1, <3>1, <3>2, RestOfIInv DEF Sound, Seated, TypeOK
  <2>3. QED
    BY <1>1, <2>1, <2>2 DEF Sound, Current, Funded, Registered, Holding, Working
<1>3. AllAlone'
  BY <1>1 DEF RunInv, AllAlone, Alone, Working
<1>4. AllListed'
  <2> SUFFICES ASSUME NEW q \in Procs PROVE Listed(q)'
    BY DEF AllListed
  <2>1. CASE q = p /\ scan' # scan
    BY <1>1, <2>1, RestOfIInv DEF Listed, Recoverable, TypeOK
  <2>2. CASE q # p \/ scan' = scan
    BY <1>1, <2>2, RestOfIInv DEF Listed, RunInv, AllListed, TypeOK
  <2>3. QED
    BY <2>1, <2>2
<1>5. QED
  BY <1>1, <1>2, <1>3, <1>4, NoRowCounts DEF RunInv, AllSound

\* While the only process of the file scans, no call is in progress.
LEMMA RecoverOneRuns ==
  ASSUME IInv, RunInv, OneRecoverer, NEW p \in Procs, RecoverOne(p)
  PROVE  RunInv'
<1> DEFINE code == "PROCESS_RESTART_INTERRUPTED"
<1>1. PICK x \in scan[p] :
        /\ scan' = [scan EXCEPT ![p] = @ \ {x}]
        /\ task' = IF task[x.task].status = "running"
                   THEN [task EXCEPT ![x.task] = MarkFailed(x.seen, code)]
                   ELSE task
  BY DEF RecoverOne
<1>2. x \in Scanned /\ x.task \in Tasks /\ x.seen \in Row
  BY RestOfIInv DEF TypeOK, Scanned
<1>3. /\ p = Server /\ RecoveryWired
      /\ \A y \in scan[p] : task[y.task] = y.seen /\ y.seen.status = "running"
  BY DEF RunInv, AllListed, Listed
<1>4. ASSUME NEW d \in Calls PROVE call[d].pc \notin Phases
  <2> SUFFICES ASSUME call[d].pc \in Phases PROVE FALSE
    OBVIOUS
  <2>1. scan[p] = {}
    BY BusyIsQuiet DEF Quiet
  <2>2. QED
    BY <2>1
<1> DEFINE row == MarkFailed(x.seen, code)
<1>5. /\ row \in Row /\ row.status = "failed" /\ row.attempt = x.seen.attempt
      /\ row.max = x.seen.max
  BY <1>2 DEF MarkFailed, Row, Statuses, ErrorCodes
<1>6. task' = [task EXCEPT ![x.task] = row]
  BY <1>1, <1>3
<1> HIDE DEF row
<1>7. UNCHANGED <<recs, call, loop, inflight, up, clock, crashes, claims>>
  BY DEF RecoverOne
<1>8. AllSound' /\ AllAlone'
  <2>1. \A d \in Calls : call'[d].pc \notin Phases
    BY <1>4, <1>7
  <2>2. \A d \in Calls : ~ Working(d)' /\ ~ Holding(d)'
    BY <2>1 DEF Working, Holding, Phases
  <2>3. QED
    BY <2>1, <2>2 DEF AllSound, Sound, Current, Funded, Seated, Registered, AllAlone, Alone
<1>9. AllCounted'
  <2>1. Counted(task[x.task], claims[x.task])
    BY <1>2 DEF RunInv, AllCounted
  <2>2. Counted(row, claims[x.task])
    BY <1>3, <1>5, <2>1 DEF Counted
  <2>3. QED
    BY <1>2, <1>5, <1>6, <1>7, <2>2, OneRowCounts
<1>10. AllListed'
  <2> SUFFICES ASSUME NEW q \in Procs PROVE Listed(q)'
    BY DEF AllListed
  <2>1. CASE q # p
    <3>1. scan'[q] = scan[q]
      BY <1>1, <2>1, RestOfIInv DEF TypeOK
    <3>2. scan[q] = {}
      BY <1>3, <2>1 DEF RunInv, AllListed, Listed
    <3>3. QED
      BY <3>1, <3>2 DEF Listed
  <2>2. CASE q = p
    <3>1. scan'[p] = scan[p] \ {x}
      BY <1>1, RestOfIInv DEF TypeOK
    <3>2. ASSUME NEW y \in scan[p] \ {x}
          PROVE  task'[y.task] = y.seen /\ y.seen.status = "running"
      <4>1. y \in Scanned /\ y.task \in Tasks
        BY RestOfIInv DEF TypeOK, Scanned
      <4>2. y.task # x.task
        <5>1. y.task = x.task => y.seen = x.seen
          BY <1>3
        <5>2. y.task = x.task /\ y.seen = x.seen => y = x
          BY <1>2, <4>1 DEF Scanned
        <5>3. QED
          BY <5>1, <5>2
      <4>3. task'[y.task] = task[y.task]
        BY <1>2, <1>5, <1>6, <4>1, <4>2, OneRowMoves, RestOfIInv
      <4>4. QED
        BY <1>3, <4>3
    <3>3. QED
      BY <1>3, <2>2, <3>1, <3>2 DEF Listed
  <2>3. QED
    BY <2>1, <2>2
<1>11. QED
  BY <1>8, <1>9, <1>10 DEF RunInv

-----------------------------------------------------------------------------
(* The theorems about runs.                                                 *)

LEMMA InitRuns == Init => RunInv
<1> SUFFICES ASSUME Init PROVE RunInv
  OBVIOUS
<1>1. \A c \in Calls : call[c].pc = "idle"
  BY DEF Init, Idle
<1>2. AllSound
  BY <1>1 DEF AllSound, Sound, Current, Funded, Seated, Registered, Holding, Working, Phases
<1>3. AllAlone
  BY <1>1 DEF AllAlone, Alone, Working
<1>4. AllCounted
  <2> SUFFICES ASSUME NEW t \in Tasks PROVE Counted(task[t], claims[t])
    BY DEF AllCounted
  <2>1. task[t] = Absent /\ claims[t] = 0
    BY DEF Init
  <2>2. /\ Absent.status = "absent" /\ Absent.attempt = 0 /\ Absent.max = 0
        /\ 0 <= Ceiling
    BY BudgetAssumption DEF Absent
  <2>3. QED
    BY <2>1, <2>2 DEF Counted
<1>5. AllListed
  BY DEF Init, AllListed, Listed
<1>6. QED
  BY <1>2, <1>3, <1>4, <1>5 DEF RunInv

LEMMA NextRuns ==
  ASSUME OneRecoverer, IInv, RunInv, [Next]_vars
  PROVE  RunInv'
<1>1. ASSUME NEW i \in Inputs, CreateTask(i) PROVE RunInv'
  BY <1>1, CreateTaskRuns
<1>2. ASSUME NEW c \in Calls, NEW p \in Clis, NEW i \in Inputs,
             NEW g \in 0 .. MaxGeneration, CreateRecoveryTask(c, p, i, g)
      PROVE  RunInv'
  BY <1>2, CreateRecoveryTaskRuns
<1>3. ASSUME NEW c \in Calls, NEW t \in Tasks, ClaimRead(c, t) PROVE RunInv'
  BY <1>3, ClaimReadRuns
<1>4. ASSUME NEW c \in Calls, NEW t \in Tasks, CancelRead(c, t) PROVE RunInv'
  BY <1>4, CancelReadRuns
<1>5. ASSUME NEW c \in Calls, NEW p \in Procs, NEW t \in Tasks, RetryRead(c, p, t)
      PROVE  RunInv'
  BY <1>5, RetryReadRuns
<1>6. ASSUME NEW c \in Calls, Proceed(c) PROVE RunInv'
  BY <1>6, LaunchReadRuns, ClaimWinsRuns, ClaimLosesRuns, WriteResultRuns,
     DiscardResultRuns, WriteResultThrowsRuns, WriteFailureRuns, CancelWinsRuns,
     CancelLosesRuns, RetryCasRuns DEF Proceed
<1>7. ASSUME NEW c \in Calls, ModelAnswers(c) PROVE RunInv'
  BY <1>7, ResultReturnedRuns, ErrorReturnedRuns DEF ModelAnswers
<1>8. ASSUME NEW p \in Procs, Crash(p) \/ Start(p) \/ StartAndRecover(p) \/ RecoverOne(p) PROVE RunInv'
  BY <1>8, CrashRuns, StartRuns, RecoverOneRuns
<1>9. CASE UNCHANGED vars
  BY <1>9 DEF vars, RunInv, AllSound, Sound, Current, Funded, Seated, Registered,
     Holding, Working, AllAlone, Alone, AllCounted, AllListed, Listed
<1>10. QED
  BY <1>1, <1>2, <1>3, <1>4, <1>5, <1>6, <1>7, <1>8, <1>9 DEF Next

LEMMA RunsInvariant ==
  ASSUME OneRecoverer
  PROVE  Spec => [](IInv /\ RunInv)
<1>1. IInv /\ RunInv /\ [Next]_vars => RunInv'
  BY NextRuns
<1>2. QED
  BY <1>1, InitRuns, InitIInv, NextIInv, PTL DEF Spec

\* With the wiring of today's server and any number of retry scripts, or with a
\* scanning server alone: one attempt is at most one call of the model, no task
\* costs more calls than MANUAL_RETRY_ATTEMPT_CEILING, and a queued task can be
\* started, whatever the claims, retries, cancellations and crashes in between.
THEOREM AttemptsAreBudgeted ==
  ASSUME OneRecoverer
  PROVE  Spec => []CallsAreBudgeted
<1>1. IInv /\ RunInv => CallsAreBudgeted
  <2> SUFFICES ASSUME IInv, RunInv PROVE CallsAreBudgeted
    OBVIOUS
  <2>1. OneRunPerAttempt
    BY DEF OneRunPerAttempt, Live, RunInv, AllAlone, Alone, Working
  <2>2. BudgetKept
    BY DEF BudgetKept, CanStart, RunInv, AllCounted, Counted
  <2>3. QED
    BY <2>1, <2>2 DEF CallsAreBudgeted
<1>2. QED
  BY <1>1, RunsInvariant, PTL

\* A call that waits for the model on behalf of the running attempt is the one its
\* process's registry names, so cancelTask aborts the call it means.
THEOREM RunsStayCancellable ==
  ASSUME OneRecoverer
  PROVE  Spec => []LiveRunIsCancellable
<1>1. RunInv => LiveRunIsCancellable
  BY DEF LiveRunIsCancellable, Owns, Live, RunInv, AllSound, Sound, Registered,
     Holding, Working
<1>2. QED
  BY <1>1, RunsInvariant, PTL

OwnerSettles ==
  \A t \in Tasks :
    /\ task[t].status = "running"
    /\ task'[t].status = "succeeded"
    => \E c \in Calls : Owns(c, t) /\ call'[c] = Idle

\* Only finishWithResult writes a record.
LEMMA OnlyWriteResultPublishes ==
  ASSUME Next
  PROVE  recs' = recs \/ \E c \in Calls : WriteResult(c)
<1>1. ASSUME NEW c \in Calls, Proceed(c)
      PROVE  recs' = recs \/ WriteResult(c)
  BY <1>1 DEF Proceed, LaunchRead, ClaimWins, ClaimLoses, DiscardResult,
     WriteResultThrows, WriteFailure, CancelWins, CancelLoses, RetryCas
<1>2. ASSUME NEW c \in Calls, ModelAnswers(c) PROVE recs' = recs
  BY <1>2 DEF ModelAnswers, ResultReturned, ErrorReturned
<1>3. ASSUME NEW p \in Procs, Crash(p) \/ Start(p) \/ StartAndRecover(p) \/ RecoverOne(p) PROVE recs' = recs
  BY <1>3 DEF Crash, Start, StartAndRecover, RecoverOne
<1>4. QED
  BY <1>1, <1>2, <1>3
     DEF Next, CreateTask, CreateRecoveryTask, ClaimRead, CancelRead, RetryRead

LEMMA NextSettles ==
  ASSUME OneRecoverer, IInv, RunInv, IInv', [Next]_vars
  PROVE  OwnerSettles
<1> SUFFICES ASSUME NEW t \in Tasks, task[t].status = "running",
                    task'[t].status = "succeeded"
             PROVE  \E c \in Calls : Owns(c, t) /\ call'[c] = Idle
  BY DEF OwnerSettles
<1>1. recs' # recs
  <2>1. \E r \in recs' : r.task = t
    BY DEF IInv, RecordIffSucceeded, RecordsOf
  <2>2. ~ \E r \in recs : r.task = t
    BY DEF IInv, RecordIffSucceeded, RecordsOf
  <2>3. QED
    BY <2>1, <2>2
<1>2. PICK c \in Calls : WriteResult(c)
  BY <1>1, OnlyWriteResultPublishes DEF vars
<1>3. call[c].pc = "record" /\ Leave(c) /\ call[c].pc \in Phases
  BY <1>2 DEF WriteResult, Phases
<1>4. call'[c] = Idle
  BY <1>3, RestOfIInv DEF Leave, TypeOK
<1>5. call[c].task = t
  <2>1. \A u \in Tasks : u # call[c].task => task'[u] = task[u]
    BY <1>2, RestOfIInv DEF WriteResult, TypeOK
  <2>2. QED
    BY <2>1
<1>6. call[c].seen.attempt = task[t].attempt
  BY <1>3, <1>5 DEF RunInv, AllSound, Sound, Current, Working
<1>7. QED
  BY <1>3, <1>4, <1>5, <1>6 DEF Owns, Live

\* A row is settled as succeeded by the call that claimed the attempt it is
\* running, never by one left over from an earlier attempt (finishWithResult
\* checks the status and not the attempt).
THEOREM OwnersSettle ==
  ASSUME OneRecoverer
  PROVE  Spec => SettledByOwner
<1>1. IInv /\ RunInv /\ IInv' /\ [Next]_vars => [OwnerSettles]_vars
  BY NextSettles
<1>2. QED
  BY <1>1, RunsInvariant, PTL DEF Spec, SettledByOwner, OwnerSettles

-----------------------------------------------------------------------------
(* One server alone: its event loop makes each read-then-write one step, as  *)
(* far as its own rows are concerned, and the history of a task is whole.    *)

ServerAlone == Clis = {}

\* What a call that will write without awaiting has read is still so.
Fresh(c) ==
  /\ call[c].pc = "cancelling" => call[c].seen = task[call[c].task]
  /\ call[c].pc = "record" =>
       /\ \A r \in recs : r.stamp < call[c].stamp
       /\ call[c].stamp <= clock
       /\ call[c].supersedes = NewestRecord
Pending(c) == call[c].pc \in {"cancelling", "record"}

\* The chain of records, and the end of it, named by their witnesses.
Linked(r) ==
  IF \E s \in recs : s.stamp < r.stamp
  THEN \E n \in recs :
         /\ n.stamp = r.supersedes /\ n.stamp < r.stamp
         /\ \A s \in recs : s.stamp < r.stamp => s.stamp <= n.stamp
  ELSE r.supersedes = 0
AllLinked == \A r \in recs : Linked(r) /\ r.stamp <= clock
HasNewest == recs # {} => \E n \in recs : \A s \in recs : s.stamp <= n.stamp

AllFresh == \A c \in Calls : Fresh(c)
HistoryInv == AttemptsAreClaims /\ AllFresh /\ AllLinked /\ HasNewest

LEMMA NobodyElse ==
  ASSUME IInv, RunInv, ServerAlone, NEW c \in Calls \cup {None},
         loop[Server] \in {None, c}, NEW d \in Calls, d # c
  PROVE  ~ Pending(d)
<1> SUFFICES ASSUME Pending(d) PROVE FALSE
  OBVIOUS
<1>1. call[d].pc \in Phases /\ call[d].pc # "calling"
  BY DEF Pending, Phases
<1>2. call[d].proc = Server
  BY <1>1, RestOfIInv, PhaseIsBusy DEF ServerAlone, Procs
<1>3. loop[Server] = d
  BY <1>1, <1>2 DEF RunInv, AllSound, Sound, Seated
<1>4. QED
  BY <1>3, NoneAssumption

\* The seat of a call in progress is the server's.
LEMMA SeatOf ==
  ASSUME IInv, RunInv, ServerAlone, NEW c \in Calls, call[c].pc \in Phases
  PROVE  call[c].proc = Server /\ (call[c].pc # "calling" => loop[Server] = c)
<1>1. call[c].proc = Server
  BY RestOfIInv, PhaseIsBusy DEF ServerAlone, Procs
<1>2. QED
  BY <1>1 DEF RunInv, AllSound, Sound, Seated

\* After a step of c nobody else is pending.
LEMMA FreshStep ==
  ASSUME IInv, RunInv, ServerAlone, NEW c \in Calls \cup {None},
         loop[Server] \in {None, c},
         \A d \in Calls : d # c => call'[d].pc = call[d].pc,
         c \in Calls => Fresh(c)'
  PROVE  AllFresh'
<1> SUFFICES ASSUME NEW d \in Calls, d # c PROVE Fresh(d)'
  BY DEF AllFresh
<1>1. ~ Pending(d)
  BY NobodyElse
<1>2. QED
  BY <1>1 DEF Pending, Fresh

LEMMA NotPendingIsFresh ==
  ASSUME NEW c \in Calls, call[c].pc \notin {"cancelling", "record"}
  PROVE  Fresh(c)
BY DEF Fresh

LEMMA RecordsKept ==
  ASSUME HistoryInv, IInv, recs' = recs, clock' = clock \/ clock' = clock + 1
  PROVE  AllLinked' /\ HasNewest'
<1>1. \A r \in recs : r.stamp <= clock => r.stamp <= clock'
  BY RestOfIInv DEF RestOK, Record
<1>2. QED
  BY <1>1 DEF HistoryInv, AllLinked, HasNewest, Linked

\* A row is rewritten with the count it had.
LEMMA CountKept ==
  ASSUME HistoryInv, IInv, NEW t \in Tasks, NEW row \in Row,
         row.attempt = task[t].attempt,
         task' = [task EXCEPT ![t] = row], claims' = claims
  PROVE  AttemptsAreClaims'
BY RestOfIInv DEF HistoryInv, AttemptsAreClaims, TypeOK

LEMMA CountStays ==
  ASSUME HistoryInv, task' = task, claims' = claims
  PROVE  AttemptsAreClaims'
BY DEF HistoryInv, AttemptsAreClaims

LEMMA EnterHistory ==
  ASSUME IInv, RunInv, ServerAlone, HistoryInv, NEW c \in Calls, NEW p \in Procs,
         NEW t \in Tasks, NEW phase \in {"claim", "cancelling", "retrying"},
         Enter(c, p, t, phase), UNCHANGED <<task, recs, clock, claims>>
  PROVE  HistoryInv'
<1>1. loop[Server] = None
  BY DEF Enter, Available, Free, ServerAlone, Procs
<1>2. call'[c].pc = phase /\ call'[c].task = t /\ call'[c].seen = task[t]
  BY RestOfIInv DEF Enter, TypeOK
<1>3. \A d \in Calls : d # c => call'[d].pc = call[d].pc
  BY RestOfIInv DEF Enter, TypeOK
<1>4. Fresh(c)'
  BY <1>2 DEF Fresh
<1>5. AllFresh'
  BY <1>1, <1>3, <1>4, FreshStep
<1>6. QED
  BY <1>5, RecordsKept, CountStays DEF HistoryInv

LEMMA CreateTaskHistory ==
  ASSUME IInv, RunInv, ServerAlone, HistoryInv, NEW i \in Inputs, CreateTask(i)
  PROVE  HistoryInv'
<1> DEFINE t == <<i, 0>>
<1>1. t \in Tasks
  BY BoundAssumption DEF Tasks
<1>2. /\ task[t] = Absent /\ task' = [task EXCEPT ![t] = CreateQueuedTask]
      /\ loop[Server] = None
      /\ UNCHANGED <<recs, call, loop, inflight, up, scan, clock, crashes, claims>>
  BY DEF CreateTask, Free
<1> HIDE DEF t
<1>3. CreateQueuedTask \in Row /\ CreateQueuedTask.attempt = Absent.attempt
  BY QueuedRow DEF CreateQueuedTask, Absent
<1>4. AttemptsAreClaims'
  BY <1>1, <1>2, <1>3, CountKept
<1>5. AllFresh'
  <2>1. \A d \in Calls : d # None => call'[d].pc = call[d].pc
    BY <1>2
  <2>2. QED
    BY <1>2, <2>1, NoneAssumption, FreshStep
<1>6. QED
  BY <1>2, <1>4, <1>5, RecordsKept DEF HistoryInv

LEMMA IdleIsFresh ==
  ASSUME NEW c \in Calls, call'[c] = Idle
  PROVE  Fresh(c)'
BY DEF Fresh, Idle

LEMMA LeaveChangesOne ==
  ASSUME IInv, NEW c \in Calls, Leave(c)
  PROVE  call'[c] = Idle /\ \A d \in Calls : d # c => call'[d].pc = call[d].pc
BY RestOfIInv DEF Leave, TypeOK

\* A call in a seat ends; no record is written.
LEMMA LeaveHistory ==
  ASSUME IInv, RunInv, ServerAlone, HistoryInv, NEW c \in Calls,
         loop[Server] \in {None, c}, Leave(c), recs' = recs, clock' = clock,
         AttemptsAreClaims'
  PROVE  HistoryInv'
<1>1. AllFresh'
  BY LeaveChangesOne, IdleIsFresh, FreshStep
<1>2. QED
  BY <1>1, RecordsKept DEF HistoryInv

\* A call in a seat goes on to a phase in which nothing need be fresh.
LEMMA PhaseHistory ==
  ASSUME IInv, RunInv, ServerAlone, HistoryInv, NEW c \in Calls,
         loop[Server] \in {None, c}, NEW x,
         call' = [call EXCEPT ![c] = x], x.pc \notin {"cancelling", "record"},
         recs' = recs, clock' = clock, AttemptsAreClaims'
  PROVE  HistoryInv'
<1>1. call'[c] = x /\ \A d \in Calls : d # c => call'[d].pc = call[d].pc
  BY RestOfIInv DEF TypeOK
<1>2. Fresh(c)'
  BY <1>1 DEF Fresh
<1>3. AllFresh'
  BY <1>1, <1>2, FreshStep
<1>4. QED
  BY <1>3, RecordsKept DEF HistoryInv

LEMMA LaunchReadHistory ==
  ASSUME IInv, RunInv, ServerAlone, HistoryInv, NEW c \in Calls, LaunchRead(c)
  PROVE  HistoryInv'
<1>1. /\ call[c].pc = "launch" /\ call[c].pc \in Phases
      /\ UNCHANGED <<task, recs, up, scan, clock, crashes, claims>>
  BY DEF LaunchRead, Phases
<1>2. loop[Server] = c /\ call[c] \in Busy
  BY <1>1, SeatOf, RestOfIInv, PhaseIsBusy
<1>3. AttemptsAreClaims'
  BY <1>1, CountStays
<1> DEFINE x == [call[c] EXCEPT !.pc = "claim", !.seen = task[call[c].task]]
<1>4. x.pc = "claim"
  BY <1>2 DEF Busy
<1>5. call' = [call EXCEPT ![c] = x] \/ Leave(c)
  BY DEF LaunchRead
<1> HIDE DEF x
<1>6. CASE call' = [call EXCEPT ![c] = x]
  BY <1>1, <1>2, <1>3, <1>4, <1>6, PhaseHistory
<1>7. CASE Leave(c)
  BY <1>1, <1>2, <1>3, <1>7, LeaveHistory
<1>8. QED
  BY <1>5, <1>6, <1>7

LEMMA ClaimWinsHistory ==
  ASSUME IInv, RunInv, ServerAlone, HistoryInv, NEW c \in Calls, ClaimWins(c)
  PROVE  HistoryInv'
<1> DEFINE t == call[c].task
           seen == call[c].seen
           running == StartTask(seen)
           x == [call[c] EXCEPT !.pc = "calling", !.seen = running]
<1>1. /\ call[c].pc = "claim" /\ call[c].pc \in Phases /\ AttemptMatches(t, seen)
      /\ task' = [task EXCEPT ![t] = running]
      /\ claims' = [claims EXCEPT ![t] = @ + 1]
      /\ call' = [call EXCEPT ![c] = x]
      /\ UNCHANGED <<recs, inflight, up, scan, clock, crashes>>
  BY DEF ClaimWins, Phases
<1>2. loop[Server] = c /\ call[c] \in Busy /\ t \in Tasks /\ seen \in Row
  BY <1>1, SeatOf, RestOfIInv, PhaseIsBusy
<1>3. running.attempt = seen.attempt + 1
  BY <1>2 DEF StartTask, Row
<1>4. x.pc = "calling"
  BY <1>2 DEF Busy
<1> HIDE DEF x, running
<1>5. AttemptsAreClaims'
  <2>1. task[t].attempt = seen.attempt /\ task[t].attempt = claims[t]
    BY <1>1, <1>2 DEF AttemptMatches, HistoryInv, AttemptsAreClaims
  <2>2. QED
    BY <1>1, <1>2, <1>3, <2>1, RestOfIInv DEF HistoryInv, AttemptsAreClaims, TypeOK
<1>6. QED
  BY <1>1, <1>2, <1>4, <1>5, PhaseHistory

LEMMA ClaimLosesHistory ==
  ASSUME IInv, RunInv, ServerAlone, HistoryInv, NEW c \in Calls, ClaimLoses(c)
  PROVE  HistoryInv'
<1>1. call[c].pc = "claim" /\ call[c].pc \in Phases /\ Leave(c)
      /\ UNCHANGED <<task, recs, clock, claims>>
  BY DEF ClaimLoses, Phases
<1>2. QED
  BY <1>1, SeatOf, CountStays, LeaveHistory

\* The answer: its record will come after all others and names the last of them.
LEMMA ResultReturnedHistory ==
  ASSUME IInv, RunInv, ServerAlone, HistoryInv, NEW c \in Calls, ResultReturned(c)
  PROVE  HistoryInv'
<1> DEFINE x == [call[c] EXCEPT !.pc = "record", !.stamp = clock + 1,
                                !.supersedes = NewestRecord]
<1>1. /\ call[c].pc = "calling" /\ call[c].pc \in Phases
      /\ loop[call[c].proc] = None /\ clock' = clock + 1
      /\ call' = [call EXCEPT ![c] = x]
      /\ UNCHANGED <<task, recs, inflight, up, scan, crashes, claims>>
  BY DEF ResultReturned, Free, Phases
<1>2. loop[Server] = None /\ call[c] \in Busy
  BY <1>1, SeatOf, RestOfIInv, PhaseIsBusy
<1>3. x.pc = "record" /\ x.stamp = clock + 1 /\ x.supersedes = NewestRecord
  BY <1>2 DEF Busy
<1> HIDE DEF x
<1>4. call'[c] = x /\ \A d \in Calls : d # c => call'[d].pc = call[d].pc
  BY <1>1, RestOfIInv DEF TypeOK
<1>5. NewestRecord' = NewestRecord
  BY <1>1 DEF NewestRecord
<1>6. /\ clock \in Nat /\ \A r \in recs : r.stamp \in Nat /\ r.stamp <= clock
  BY RestOfIInv DEF RestOK, Record, HistoryInv, AllLinked
<1>7. Fresh(c)'
  BY <1>1, <1>3, <1>4, <1>5, <1>6 DEF Fresh
<1>8. AllFresh'
  BY <1>2, <1>4, <1>7, FreshStep
<1>9. QED
  BY <1>1, <1>8, RecordsKept, CountStays DEF HistoryInv

LEMMA RereadHistory ==
  ASSUME IInv, RunInv, ServerAlone, HistoryInv, NEW c \in Calls, NEW code \in ErrorCodes,
         call[c].pc \in Phases, loop[Server] \in {None, c}, RereadToFail(c, code),
         UNCHANGED <<task, recs, up, scan, clock, crashes, claims>>
  PROVE  HistoryInv'
<1>1. call[c] \in Busy
  BY RestOfIInv, PhaseIsBusy
<1>2. AttemptsAreClaims'
  BY CountStays
<1> DEFINE x == [call[c] EXCEPT !.pc = "failing",
                                !.seen = MarkFailed(task[call[c].task], code)]
<1>3. x.pc = "failing"
  BY <1>1 DEF Busy
<1>4. call' = [call EXCEPT ![c] = x] \/ Leave(c)
  BY DEF RereadToFail
<1> HIDE DEF x
<1>5. CASE call' = [call EXCEPT ![c] = x]
  BY <1>2, <1>3, <1>5, PhaseHistory
<1>6. CASE Leave(c)
  BY <1>2, <1>6, LeaveHistory
<1>7. QED
  BY <1>4, <1>5, <1>6

LEMMA ErrorReturnedHistory ==
  ASSUME IInv, RunInv, ServerAlone, HistoryInv, NEW c \in Calls,
         NEW code \in ProviderErrors \cup {"CANCELLED_BY_USER"}, ErrorReturned(c, code)
  PROVE  HistoryInv'
<1>1. /\ code \in ErrorCodes /\ call[c].pc \in Phases /\ loop[call[c].proc] = None
  BY DEF ErrorCodes, ErrorReturned, Phases, Free
<1>2. loop[Server] = None
  BY <1>1, SeatOf
<1>3. QED
  BY <1>1, <1>2, RereadHistory DEF ErrorReturned

LEMMA WriteResultThrowsHistory ==
  ASSUME IInv, RunInv, ServerAlone, HistoryInv, NEW c \in Calls, WriteResultThrows(c)
  PROVE  HistoryInv'
<1>1. /\ "RESULT_WRITE_FAILED" \in ErrorCodes /\ call[c].pc = "record"
      /\ call[c].pc \in Phases
  BY DEF ErrorCodes, WriteResultThrows, Phases
<1>2. loop[Server] = c
  BY <1>1, SeatOf
<1>3. QED
  BY <1>1, <1>2, RereadHistory DEF WriteResultThrows

\* What NewestRecord returns.
LEMMA NewestIsLast ==
  ASSUME IInv, HasNewest
  PROVE  /\ recs = {} => NewestRecord = 0
         /\ recs # {} => \E n \in recs : /\ n.stamp = NewestRecord
                                         /\ \A s \in recs : s.stamp <= n.stamp
<1> DEFINE newest == {r \in recs : \A s \in recs : s.stamp <= r.stamp}
<1>1. CASE recs = {}
  <2>1. newest = {}
    BY <1>1
  <2>2. QED
    BY <1>1, <2>1 DEF NewestRecord
<1>2. CASE recs # {}
  <2>1. newest # {}
    BY <1>2 DEF HasNewest
  <2>2. (CHOOSE r \in newest : TRUE) \in newest
    BY <2>1
  <2>3. NewestRecord = (CHOOSE r \in newest : TRUE).stamp
    BY <2>1 DEF NewestRecord
  <2>4. QED
    BY <1>2, <2>2, <2>3
<1>3. QED
  BY <1>1, <1>2

LEMMA WriteResultHistory ==
  ASSUME IInv, RunInv, ServerAlone, HistoryInv, NEW c \in Calls, WriteResult(c)
  PROVE  HistoryInv'
<1> DEFINE t == call[c].task
           rec == [task |-> t, stamp |-> call[c].stamp,
                   supersedes |-> call[c].supersedes]
           row == MarkSucceeded(task[t], rec.stamp)
<1>1. /\ call[c].pc = "record" /\ call[c].pc \in Phases /\ Leave(c)
      /\ task[t].status = "running" /\ clock' = clock /\ claims' = claims
  BY DEF WriteResult, Phases
<1>2. /\ t \in Tasks /\ call[c].stamp \in Nat /\ call[c].supersedes \in Nat
      /\ task[t] \in Row
  BY <1>1, RestOfIInv, PhaseIsBusy DEF TypeOK
<1>3. StoredRecord(c) = rec
  BY <1>1, <1>2, RestOfIInv DEF StoredRecord, RecordIffSucceeded, RecordsOf
<1>4. task' = [task EXCEPT ![t] = row] /\ recs' = recs \cup {rec}
  BY <1>3 DEF WriteResult
<1>5. row \in Row /\ row.attempt = task[t].attempt
  <2>1. rec.stamp = call[c].stamp
    OBVIOUS
  <2>2. QED
    BY <1>2, <2>1 DEF MarkSucceeded, Row, Statuses, ErrorCodes
<1>6. rec.stamp = call[c].stamp /\ rec.supersedes = call[c].supersedes
  OBVIOUS
<1> HIDE DEF row, rec
<1>7. AttemptsAreClaims'
  BY <1>1, <1>2, <1>4, <1>5, CountKept
<1>8. AllFresh'
  BY <1>1, SeatOf, LeaveChangesOne, IdleIsFresh, FreshStep
<1>9. PICK new \in {rec} : TRUE
  OBVIOUS
<1>10. /\ recs' = recs \cup {new} /\ new.stamp = call[c].stamp
       /\ new.supersedes = call[c].supersedes
  BY <1>4, <1>6
<1>11. /\ \A r \in recs : r.stamp < new.stamp
      /\ new.stamp <= clock /\ new.supersedes = NewestRecord
  BY <1>1, <1>10 DEF HistoryInv, AllFresh, Fresh
<1>12. \A r \in recs : r.stamp \in Nat
  BY RestOfIInv DEF RestOK, Record
<1>13. new.stamp \in Nat
  BY <1>2, <1>10
<1>14. HasNewest'
  BY <1>10, <1>11, <1>12, <1>13 DEF HasNewest
<1>15. AllLinked'
  <2>1. ASSUME NEW r \in recs PROVE Linked(r)' /\ r.stamp <= clock'
    <3>1. Linked(r) /\ r.stamp <= clock
      BY DEF HistoryInv, AllLinked
    <3>2. ~ (new.stamp < r.stamp)
      BY <1>11, <1>12, <1>13
    <3>3. Linked(r)'
      BY <1>10, <3>1, <3>2 DEF Linked
    <3>4. QED
      BY <1>1, <3>1, <3>3
  <2>2. Linked(new)'
    <3>1. ~ (new.stamp < new.stamp)
      BY <1>13
    <3>2. CASE recs = {}
      BY <1>10, <1>11, <3>1, <3>2, NewestIsLast DEF Linked, HistoryInv
    <3>3. CASE recs # {}
      <4>1. PICK n \in recs : /\ n.stamp = NewestRecord
                              /\ \A s \in recs : s.stamp <= n.stamp
        BY <3>3, NewestIsLast DEF HistoryInv
      <4>2. QED
        BY <1>10, <1>11, <3>1, <4>1 DEF Linked
    <3>4. QED
      BY <3>2, <3>3
  <2>3. QED
    BY <1>1, <1>10, <1>11, <2>1, <2>2 DEF AllLinked
<1>16. QED
  BY <1>7, <1>8, <1>14, <1>15 DEF HistoryInv

LEMMA DiscardResultHistory ==
  ASSUME IInv, RunInv, ServerAlone, HistoryInv, NEW c \in Calls, DiscardResult(c)
  PROVE  HistoryInv'
<1>1. call[c].pc = "record" /\ call[c].pc \in Phases /\ Leave(c)
      /\ UNCHANGED <<task, recs, clock, claims>>
  BY DEF DiscardResult, Phases
<1>2. QED
  BY <1>1, SeatOf, CountStays, LeaveHistory

LEMMA WriteFailureHistory ==
  ASSUME IInv, RunInv, ServerAlone, HistoryInv, NEW c \in Calls, WriteFailure(c)
  PROVE  HistoryInv'
<1> DEFINE t == call[c].task
           seen == call[c].seen
<1>1. /\ call[c].pc = "failing" /\ call[c].pc \in Phases /\ Leave(c)
      /\ task' = IF task[t].status = "running" THEN [task EXCEPT ![t] = seen] ELSE task
      /\ UNCHANGED <<recs, clock, claims>>
  BY DEF WriteFailure, Phases
<1>2. t \in Tasks /\ seen \in Row /\ loop[Server] = c
  BY <1>1, SeatOf, RestOfIInv, PhaseIsBusy
<1>3. task[t].status = "running" => seen.attempt = task[t].attempt
  BY <1>1 DEF RunInv, AllSound, Sound, Current, Working
<1>4. AttemptsAreClaims'
  <2>1. CASE task[t].status = "running"
    BY <1>1, <1>2, <1>3, <2>1, CountKept
  <2>2. CASE task[t].status # "running"
    BY <1>1, <2>2, CountStays
  <2>3. QED
    BY <2>1, <2>2
<1>5. QED
  BY <1>1, <1>2, <1>4, LeaveHistory

LEMMA CancelWinsHistory ==
  ASSUME IInv, RunInv, ServerAlone, HistoryInv, NEW c \in Calls, CancelWins(c)
  PROVE  HistoryInv'
<1> DEFINE t == call[c].task
           seen == call[c].seen
           row == CancelTask(seen)
<1>1. /\ call[c].pc = "cancelling" /\ call[c].pc \in Phases
      /\ task' = [task EXCEPT ![t] = row] /\ call'[c] = Idle
      /\ UNCHANGED <<recs, inflight, up, scan, clock, crashes, claims>>
  BY DEF CancelWins, Phases
<1>2. t \in Tasks /\ seen \in Row /\ loop[Server] = c
  BY <1>1, SeatOf, RestOfIInv, PhaseIsBusy
<1>3. seen = task[t]
  BY <1>1 DEF HistoryInv, AllFresh, Fresh
<1>4. row \in Row /\ row.attempt = task[t].attempt
  BY <1>2, <1>3 DEF CancelTask, Row, Statuses, ErrorCodes
<1> HIDE DEF row
<1>5. \A d \in Calls : d # c => call'[d].pc = call[d].pc
  <2> SUFFICES ASSUME NEW d \in Calls, d # c PROVE call'[d].pc = call[d].pc
    OBVIOUS
  <2>1. call'[d] = call[d] \/ call'[d] = [call[d] EXCEPT !.aborted = TRUE]
    BY DEF CancelWins
  <2>2. call[d] = Idle \/ call[d] \in Busy
    BY RestOfIInv DEF TypeOK
  <2>3. QED
    BY <2>1, <2>2 DEF Busy, Idle
<1>6. AttemptsAreClaims'
  BY <1>1, <1>2, <1>4, CountKept
<1>7. AllFresh'
  BY <1>1, <1>2, <1>5, IdleIsFresh, FreshStep
<1>8. QED
  BY <1>1, <1>6, <1>7, RecordsKept DEF HistoryInv

LEMMA CancelLosesHistory ==
  ASSUME IInv, RunInv, ServerAlone, HistoryInv, NEW c \in Calls, CancelLoses(c)
  PROVE  HistoryInv'
<1>1. call[c].pc = "cancelling" /\ call[c].pc \in Phases /\ Leave(c)
      /\ UNCHANGED <<task, recs, clock, claims>>
  BY DEF CancelLoses, Phases
<1>2. QED
  BY <1>1, SeatOf, CountStays, LeaveHistory

LEMMA RetryCasHistory ==
  ASSUME IInv, RunInv, ServerAlone, HistoryInv, NEW c \in Calls, RetryCas(c)
  PROVE  HistoryInv'
<1> DEFINE t == call[c].task
           seen == call[c].seen
           row == ManualRetryTask(seen)
<1>1. /\ call[c].pc = "retrying" /\ call[c].pc \in Phases
      /\ task' = IF AttemptMatches(t, seen) THEN [task EXCEPT ![t] = row] ELSE task
      /\ UNCHANGED <<recs, inflight, up, scan, clock, crashes, claims>>
  BY DEF RetryCas, Phases
<1>2. t \in Tasks /\ seen \in Row /\ loop[Server] = c
  BY <1>1, SeatOf, RestOfIInv, PhaseIsBusy
<1>3. Leave(c)
  BY DEF RetryCas, ServerAlone
<1>4. row \in Row /\ row.attempt = seen.attempt
  <2>1. Larger(seen.max, seen.attempt + 1) \in Nat
    BY <1>2 DEF Row, Larger
  <2>2. QED
    BY <1>2, <2>1 DEF ManualRetryTask, Row, Statuses, ErrorCodes
<1> HIDE DEF row
<1>5. AttemptsAreClaims'
  <2>1. CASE AttemptMatches(t, seen)
    BY <1>1, <1>2, <1>4, <2>1, CountKept DEF AttemptMatches
  <2>2. CASE ~ AttemptMatches(t, seen)
    BY <1>1, <2>2, CountStays
  <2>3. QED
    BY <2>1, <2>2
<1>6. QED
  BY <1>1, <1>2, <1>3, <1>5, LeaveHistory

LEMMA CrashHistory ==
  ASSUME IInv, RunInv, ServerAlone, HistoryInv, NEW p \in Procs, Crash(p)
  PROVE  HistoryInv'
<1>1. UNCHANGED <<task, recs, clock, claims>>
  BY DEF Crash
<1>2. ASSUME NEW d \in Calls PROVE Fresh(d)'
  <2>1. call'[d] = Idle \/ call'[d] = call[d]
    BY DEF Crash
  <2>2. NewestRecord' = NewestRecord
    BY <1>1 DEF NewestRecord
  <2>3. Fresh(d)
    BY DEF HistoryInv, AllFresh
  <2>4. QED
    BY <1>1, <2>1, <2>2, <2>3, IdleIsFresh DEF Fresh
<1>3. QED
  BY <1>1, <1>2, RecordsKept, CountStays DEF HistoryInv, AllFresh

LEMMA RecoverOneHistory ==
  ASSUME IInv, RunInv, ServerAlone, HistoryInv, NEW p \in Procs, RecoverOne(p)
  PROVE  HistoryInv'
<1> DEFINE code == "PROCESS_RESTART_INTERRUPTED"
<1>1. PICK x \in scan[p] :
        task' = IF task[x.task].status = "running"
                THEN [task EXCEPT ![x.task] = MarkFailed(x.seen, code)]
                ELSE task
  BY DEF RecoverOne
<1>2. x.task \in Tasks /\ x.seen \in Row
  BY RestOfIInv DEF TypeOK, Scanned
<1>3. task[x.task] = x.seen /\ x.seen.status = "running"
  BY DEF RunInv, AllListed, Listed
<1> DEFINE row == MarkFailed(x.seen, code)
<1>4. row \in Row /\ row.attempt = task[x.task].attempt
  BY <1>2, <1>3 DEF MarkFailed, Row, Statuses, ErrorCodes
<1>5. task' = [task EXCEPT ![x.task] = row]
  BY <1>1, <1>3
<1> HIDE DEF row
<1>6. UNCHANGED <<recs, call, loop, inflight, up, clock, crashes, claims>>
  BY DEF RecoverOne
<1>7. AttemptsAreClaims'
  BY <1>2, <1>4, <1>5, <1>6, CountKept
<1>8. ASSUME NEW d \in Calls PROVE Fresh(d)'
  <2>1. OneRecoverer
    BY DEF OneRecoverer, ServerAlone
  <2>2. call[d].pc \notin Phases
    <3> SUFFICES ASSUME call[d].pc \in Phases PROVE FALSE
      OBVIOUS
    <3>1. scan[p] = {}
      BY <2>1, BusyIsQuiet DEF Quiet
    <3>2. QED
      BY <3>1
  <2>3. QED
    BY <1>6, <2>2 DEF Fresh, Phases
<1>9. QED
  BY <1>6, <1>7, <1>8, RecordsKept DEF HistoryInv, AllFresh

LEMMA SameHistory ==
  ASSUME HistoryInv, UNCHANGED <<task, recs, call, clock, claims>>
  PROVE  HistoryInv'
BY DEF HistoryInv, AttemptsAreClaims, AllFresh, Fresh, NewestRecord, AllLinked, Linked,
   HasNewest

LEMMA NextHistory ==
  ASSUME ServerAlone, IInv, RunInv, HistoryInv, [Next]_vars
  PROVE  HistoryInv'
<1>1. ASSUME NEW i \in Inputs, CreateTask(i) PROVE HistoryInv'
  BY <1>1, CreateTaskHistory
<1>2. ASSUME NEW c \in Calls, NEW p \in Clis PROVE FALSE
  BY <1>2 DEF ServerAlone
<1>3. ASSUME NEW c \in Calls, NEW t \in Tasks, ClaimRead(c, t) PROVE HistoryInv'
  BY <1>3, EnterHistory DEF ClaimRead, Procs
<1>4. ASSUME NEW c \in Calls, NEW t \in Tasks, CancelRead(c, t) PROVE HistoryInv'
  BY <1>4, EnterHistory DEF CancelRead, Procs
<1>5. ASSUME NEW c \in Calls, NEW p \in Procs, NEW t \in Tasks, RetryRead(c, p, t)
      PROVE  HistoryInv'
  BY <1>5, EnterHistory DEF RetryRead
<1>6. ASSUME NEW c \in Calls, Proceed(c) PROVE HistoryInv'
  BY <1>6, LaunchReadHistory, ClaimWinsHistory, ClaimLosesHistory, WriteResultHistory,
     DiscardResultHistory, WriteResultThrowsHistory, WriteFailureHistory,
     CancelWinsHistory, CancelLosesHistory, RetryCasHistory DEF Proceed
<1>7. ASSUME NEW c \in Calls, ModelAnswers(c) PROVE HistoryInv'
  BY <1>7, ResultReturnedHistory, ErrorReturnedHistory DEF ModelAnswers
<1>8. ASSUME NEW p \in Procs, Crash(p) \/ Start(p) \/ StartAndRecover(p) \/ RecoverOne(p) PROVE HistoryInv'
  <2>1. Start(p) \/ StartAndRecover(p) => HistoryInv'
    BY SameHistory DEF Start, StartAndRecover
  <2>2. QED
    BY <1>8, <2>1, CrashHistory, RecoverOneHistory
<1>9. CASE UNCHANGED vars
  BY <1>9, SameHistory DEF vars
<1>10. QED
  BY <1>1, <1>2, <1>3, <1>4, <1>5, <1>6, <1>7, <1>8, <1>9 DEF Next

LEMMA InitHistory == Init => HistoryInv
<1> SUFFICES ASSUME Init PROVE HistoryInv
  OBVIOUS
<1>1. AttemptsAreClaims
  <2>1. \A t \in Tasks : task[t] = Absent /\ claims[t] = 0
    BY DEF Init
  <2>2. Absent.attempt = 0
    BY DEF Absent
  <2>3. QED
    BY <2>1, <2>2 DEF AttemptsAreClaims
<1>2. QED
  BY <1>1 DEF Init, Idle, HistoryInv, AllFresh, Fresh, AllLinked, HasNewest

\* With one server on the file (scanning or not): attempt_count is the number of
\* calls of the model, and the records of the candidate form one chain through
\* supersedesAnalysisId, through every cancellation, retry and crash.
THEOREM OneServerKeepsHistory ==
  ASSUME ServerAlone
  PROVE  Spec => []HistoryIsWhole
<1>1. OneRecoverer
  BY DEF OneRecoverer, ServerAlone
<1>2. Spec => [](IInv /\ RunInv)
  BY <1>1, RunsInvariant
<1>3. IInv /\ RunInv /\ HistoryInv /\ [Next]_vars => HistoryInv'
  BY NextHistory
<1>4. IInv /\ HistoryInv => HistoryIsWhole
  <2> SUFFICES ASSUME IInv, HistoryInv PROVE HistoryIsWhole
    OBVIOUS
  <2>1. SupersedesIsAChain
    <3> SUFFICES ASSUME NEW r \in recs
                 PROVE  r.supersedes =
                          IF \E s \in recs : s.stamp < r.stamp
                          THEN CHOOSE n \in {s.stamp : s \in recs} :
                                 /\ n < r.stamp
                                 /\ \A s \in recs : s.stamp < r.stamp => s.stamp <= n
                          ELSE 0
      BY DEF SupersedesIsAChain
    <3>1. Linked(r)
      BY DEF HistoryInv, AllLinked
    <3>2. CASE ~ \E s \in recs : s.stamp < r.stamp
      BY <3>1, <3>2 DEF Linked
    <3>3. CASE \E s \in recs : s.stamp < r.stamp
      <4> DEFINE Before(n) == /\ n < r.stamp
                              /\ \A s \in recs : s.stamp < r.stamp => s.stamp <= n
                 stamps == {s.stamp : s \in recs}
      <4>1. r.supersedes \in stamps /\ Before(r.supersedes)
        BY <3>1, <3>3 DEF Linked
      <4>2. (CHOOSE n \in stamps : Before(n)) \in stamps
            /\ Before(CHOOSE n \in stamps : Before(n))
        BY <4>1
      <4>3. \A n, m \in stamps : Before(n) /\ Before(m) => n = m
        <5>1. \A s \in recs : s.stamp \in Nat
          BY RestOfIInv DEF RestOK, Record
        <5>2. QED
          BY <5>1
      <4>4. r.supersedes = CHOOSE n \in stamps : Before(n)
        <5> HIDE DEF Before, stamps
        <5>1. QED
          BY <4>1, <4>2, <4>3
      <4>5. QED
        BY <3>3, <4>4
    <3>4. QED
      BY <3>2, <3>3
  <2>2. QED
    BY <2>1 DEF HistoryIsWhole, HistoryInv
<1>5. QED
  BY <1>2, <1>3, <1>4, InitHistory, PTL DEF Spec

=============================================================================
