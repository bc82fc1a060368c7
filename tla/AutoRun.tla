-------------------------------- MODULE AutoRun --------------------------------
(***************************************************************************)
(* cc-auto: a task is implemented by paid model calls (orchestrator.ts,    *)
(* executor.ts, deepseekToolLoop.ts, preflight.ts, cli.ts).  Each          *)
(* invocation of the command line is a process of its own that starts a    *)
(* run, resumes one or makes a preflight; it drives the run's state        *)
(* machine, saving the record of the run at every phase, and may crash at  *)
(* any step.  Routed runs hold the lease of the repository and call        *)
(* providers through the executor; the others call the Claude command and  *)
(* hold no lease.                                                          *)
(***************************************************************************)
EXTENDS RunLease, RunLedger, FiniteSets

CONSTANTS Limits,     \* what a behaviour may do, chosen at the start
          ResumeLive  \* TRUE when a run may be resumed while a command drives it

CONSTANTS MaxRepairCycles, MaxOpusCalls  \* config.limits

ASSUME AutoRunAssumption ==
  /\ Commands \subseteq Nat /\ Calls \subseteq Nat
  /\ MaxRepairCycles \in Nat /\ MaxOpusCalls \in Nat
  /\ None \notin Attempt \cup RunState
  \* A preflight is made for a routed configuration.
  /\ \A l \in Limits : l.runs \subseteq Runs /\ l.tasks \subseteq Tasks /\ (l.preflight => l.routed)

VARIABLES pc,         \* what each command does next
          run,        \* the run it drives
          mem,        \* its copy of the record of that run
          work,       \* its tool loop
          disk,       \* the record of each run, or None
          dispatched, \* calls the executor has sent to a provider
          spent,      \* calls made through the Claude command
          orphaned,   \* calls under way when their command crashed
          limit

vars == <<lock, pc, run, mem, work, disk, dispatched, spent, orphaned, limit>>

\* `turns' and `tries' count within a loop, `id' is the call under way, `out' how the loop
\* ended, `failed' whether this command has seen a verification fail.
Work == [kind : {"discovery", "writer"}, id : Calls \cup {0}, turns : Nat, tries : Nat,
         out : {"open", "final", "halted", "fatal"}, failed : BOOLEAN, strong : BOOLEAN]
FirstLoop == [kind |-> "writer", id |-> 0, turns |-> 0, tries |-> 0, out |-> "open",
              failed |-> FALSE, strong |-> FALSE]

Ended == {"new", "gone", "crashed"}
Alive == {p \in Commands : pc[p] \notin Ended}
NextCall == Cardinality(dispatched \cup spent) + 1
InFlight(p) == IF pc[p] \in {"sent", "reply"} THEN {work[p].id} ELSE {}
\* The calls only the command knows of.
Unsaved(p) ==
  IF disk[run[p]] = None THEN {} ELSE InFlight(p) \cup (CallIds(mem[p]) \ CallIds(disk[run[p]]))

Goto(p, label) == pc' = [pc EXCEPT ![p] = label]

\* The command changes its copy and keeps the file as it is.
Remember(p, s, label) ==
  /\ mem' = [mem EXCEPT ![p] = s]
  /\ Goto(p, label)
  /\ UNCHANGED <<lock, run, work, disk, dispatched, spent, orphaned, limit>>

\* saveRunState: the whole copy replaces the file.
SaveRunState(p, s, label) ==
  /\ mem' = [mem EXCEPT ![p] = s]
  /\ disk' = [disk EXCEPT ![run[p]] = s]
  /\ Goto(p, label)
  /\ UNCHANGED <<lock, run, dispatched, spent, orphaned, limit>>

Save(p, s, label) == SaveRunState(p, s, label) /\ UNCHANGED work

Stop(p) == Remember(p, Stopped(mem[p]), "finish")

Init ==
  /\ lock = Free
  /\ pc = [p \in Commands |-> "new"]
  /\ run = [p \in Commands |-> None]
  /\ mem = [p \in Commands |-> None]
  /\ work = [p \in Commands |-> FirstLoop]
  /\ disk = [r \in Runs |-> None]
  /\ dispatched = {}
  /\ spent = {}
  /\ orphaned = {}
  /\ limit \in Limits

\* Commands are numbered in the order they are typed.
Typed(p) ==
  /\ pc[p] = "new"
  /\ p <= limit.commands
  /\ \A q \in Commands : q < p => pc[q] # "new"

Open(p, r, s, label) ==
  /\ run' = [run EXCEPT ![p] = r]
  /\ mem' = [mem EXCEPT ![p] = s]
  /\ disk' = [disk EXCEPT ![r] = s]
  /\ Goto(p, label)
  /\ UNCHANGED <<lock, work, dispatched, spent, orphaned, limit>>

RunTask(p, r, t) ==
  /\ Typed(p)
  /\ disk[r] = None
  /\ \A q \in Alive : run[q] # r
  /\ t \in limit.tasks
  /\ Open(p, r, CreateRunState(t), "classify")

\* A run that has ended is only reported.
ResumeTask(p, r) ==
  /\ Typed(p)
  /\ disk[r] # None
  /\ ~disk[r].done
  /\ ResumeLive \/ \A q \in Alive : run[q] # r
  /\ Open(p, r, disk[r], "classify")

\* The preflight gets a run number at once and writes its record under the lease.
RunPreflight(p, r) ==
  /\ limit.preflight
  /\ Typed(p)
  /\ disk[r] = None
  /\ \A q \in Alive : run[q] # r
  /\ run' = [run EXCEPT ![p] = r]
  /\ \E t \in limit.tasks : mem' = [mem EXCEPT ![p] = CreateRunState(t)]
  /\ Goto(p, "check")
  /\ UNCHANGED <<lock, work, disk, dispatched, spent, orphaned, limit>>

RecordPreflight(p) ==
  /\ pc[p] = "record"
  /\ disk' = [disk EXCEPT ![run[p]] = mem[p]]
  /\ Goto(p, "release")
  /\ UNCHANGED <<lock, run, mem, work, dispatched, spent, orphaned, limit>>

\* Without a price for every model, or without the Claude command, a run that is not
\* routed stops here.
Classify(p) ==
  /\ pc[p] = "classify"
  /\ LET s == mem[p]
         phase == IF s.phase # "INTAKE" THEN s.phase
                  ELSE IF s.task.simple THEN "IMPLEMENT" ELSE "SCOUT"
     IN  \/ Save(p, [s EXCEPT !.phase = phase], IF limit.routed THEN "check" ELSE "drive")
         \/ ~limit.routed /\ Stop(p)

\* A preflight that is refused the lease has written nothing and ends; a run is stopped.
Refused(p) == IF disk[run[p]] = None THEN Remember(p, mem[p], "refused") ELSE Stop(p)

FindLease(p) ==
  /\ pc[p] = "check"
  /\ IF lock = Free THEN Remember(p, mem[p], "create") ELSE Refused(p)

CreateOrLose(p) ==
  /\ pc[p] = "create"
  /\ \/ /\ CreateLease
        /\ Goto(p, "fill")
        /\ UNCHANGED <<run, mem, work, disk, dispatched, spent, orphaned, limit>>
     \/ /\ lock # Free
        /\ Refused(p)

WriteLease(p) ==
  /\ pc[p] = "fill"
  /\ FillLease(run[p], p)
  /\ Goto(p, IF disk[run[p]] = None THEN "record" ELSE "baseline")
  /\ UNCHANGED <<run, mem, work, disk, dispatched, spent, orphaned, limit>>

CaptureBaseline(p) ==
  /\ pc[p] = "baseline"
  /\ Stop(p) \/ Remember(p, mem[p], "drive")

Implementing == {"IMPLEMENT", "REPAIR_1", "REPAIR_2"}

\* An attempt starts without the permission to write: the lease is rewritten, which
\* takes two steps, unless it is not the command's.
BeginAttempt(p) ==
  /\ pc[p] = "drive"
  /\ limit.routed
  /\ mem[p].phase \in Implementing
  /\ IF Owns(run[p], p)
     THEN /\ TearLease(run[p], p)
          /\ Goto(p, "clear")
          /\ UNCHANGED <<run, mem, work, disk, dispatched, spent, orphaned, limit>>
     ELSE Remember(p, mem[p], "route")

ClearWriter(p) ==
  /\ pc[p] = "clear"
  /\ SetWriter(run[p], p, FALSE)
  /\ Goto(p, "route")
  /\ UNCHANGED <<run, mem, work, disk, dispatched, spent, orphaned, limit>>

\* The model is chosen and the decision saved to the file under its number; the copy in
\* memory gets the decision too, and forgets a request for the strong model it has used.
\* No qualified writer, or an estimate that cannot be shown, stops the run.  Files the
\* task names are approved without a discovery unless all of them are denied.
RouteAttempt(p) ==
  LET s == mem[p]
      chosen == [s EXCEPT !.decisions = @ + 1, !.next = @ /\ s.phase = "IMPLEMENT"]
  IN  /\ pc[p] = "route"
      /\ disk' = [disk EXCEPT ![run[p]].decisions =
                     IF @ < chosen.decisions THEN @ + 1 ELSE @]
      /\ \E kind \in {"discovery"} \cup (IF s.task.explicit THEN {"writer"} ELSE {}) :
           work' = [work EXCEPT ![p] = [FirstLoop EXCEPT !.kind = kind, !.failed = work[p].failed,
                       !.strong = s.task.hard \/ (s.next /\ s.phase # "IMPLEMENT")]]
      /\ \/ /\ mem' = [mem EXCEPT ![p] = Stopped(chosen)]
            /\ Goto(p, "finish")
         \/ /\ mem' = [mem EXCEPT ![p] = chosen]
            /\ Goto(p, IF work'[p].kind = "writer" THEN "grant" ELSE "call")
      /\ UNCHANGED <<lock, run, dispatched, spent, orphaned, limit>>

\* The last check before the first paid call of the writer, then the permission to write.
GrantWriter(p) ==
  /\ pc[p] = "grant"
  /\ \/ Stop(p)
     \/ IF Owns(run[p], p)
        THEN /\ TearLease(run[p], p)
             /\ Goto(p, "assign")
             /\ UNCHANGED <<run, mem, work, disk, dispatched, spent, orphaned, limit>>
        ELSE Remember(p, mem[p], "call")

AssignWriter(p) ==
  /\ pc[p] = "assign"
  /\ SetWriter(run[p], p, TRUE)
  /\ Goto(p, "call")
  /\ UNCHANGED <<run, mem, work, disk, dispatched, spent, orphaned, limit>>

\* executeProviderCall, before the request: the call is in the file before it is paid for.
PrepareCall(p) ==
  /\ pc[p] = "call"
  /\ NextCall \in Calls
  /\ disk' = [disk EXCEPT ![run[p]] = PersistPendingCall(@, NextCall, "PREPARED")]
  /\ Goto(p, "dispatch")
  /\ UNCHANGED <<lock, run, mem, work, dispatched, spent, orphaned, limit>>

DispatchCall(p) ==
  /\ pc[p] = "dispatch"
  /\ disk' = [disk EXCEPT ![run[p]] = PersistPendingCall(@, NextCall, "DISPATCHED")]
  /\ dispatched' = dispatched \cup {NextCall}
  /\ work' = [work EXCEPT ![p].id = NextCall]
  /\ Goto(p, "sent")
  /\ UNCHANGED <<lock, run, mem, spent, orphaned, limit>>

\* What the loop does after a call: the next turn, the same turn again after a transient
\* error, or its end.
Continue(p, out) ==
  \/ /\ out = "turn"
     /\ work[p].turns + 1 < limit.turns
     /\ work' = [work EXCEPT ![p].turns = @ + 1, ![p].tries = 0]
     /\ Goto(p, "call")
  \/ /\ out = "transient"
     /\ work[p].tries < limit.retries
     /\ work' = [work EXCEPT ![p].tries = @ + 1]
     /\ Goto(p, "call")
  \/ /\ out = "turn" => work[p].turns + 1 >= limit.turns
     /\ out = "transient" => work[p].tries >= limit.retries
     /\ work' = [work EXCEPT ![p].out = CASE out = "turn" -> "halted"
                                           [] out = "transient" ->
                                                IF work[p].tries > 0 THEN "halted" ELSE "fatal"
                                           [] OTHER -> out]
     /\ Goto(p, "settle")

\* An answer, an error the provider reports, or a model that is not the one asked for:
\* the call has a known end.  Tools of a turn may fail and end the loop.
CallAnswered(p) ==
  /\ pc[p] = "sent"
  /\ disk' = [disk EXCEPT ![run[p]] = CompleteKnownCall(@)]
  /\ \E out \in {"turn", "transient", "final", "halted", "fatal"} : Continue(p, out)
  /\ UNCHANGED <<lock, run, mem, dispatched, spent, orphaned, limit>>

\* A timeout or a broken connection.
CallLost(p) ==
  /\ pc[p] = "sent"
  /\ disk' = [disk EXCEPT ![run[p]] = MarkPendingCallUnknown(@, work[p].id)]
  /\ \E out \in {"transient", "fatal"} : Continue(p, out)
  /\ UNCHANGED <<lock, run, mem, dispatched, spent, orphaned, limit>>

\* The result of a loop goes to the file and, with the ledger of the file, to the copy.
Noted(s) == [s EXCEPT !.seen = @ + 1]
Observed(p) == Noted(Reload(mem[p], disk[run[p]]))

\* The file gets the observation at once and the rest of the copy when that is saved.
Settle(p, s, saved, label) ==
  /\ mem' = [mem EXCEPT ![p] = s]
  /\ disk' = [disk EXCEPT ![run[p]] = IF saved THEN s ELSE Noted(@)]
  /\ Goto(p, label)
  /\ UNCHANGED <<lock, run, dispatched, spent, orphaned, limit>>

\* Nothing to write to: the strong model tries once more; its own failure, or a
\* configuration that forbids it, ends the run.
StageGate(p, s) ==
  IF work[p].strong THEN Settle(p, Stopped(s), FALSE, "finish")
  ELSE IF ~limit.escalate THEN Settle(p, [s EXCEPT !.flash = TRUE, !.done = TRUE], FALSE, "finish")
  ELSE Settle(p, [s EXCEPT !.flash = TRUE, !.next = TRUE, !.cycles = @ + 1, !.phase = "REPAIR_1"],
              TRUE, "drive")

\* The read-only loop has found files to approve, files that are denied, or nothing.  A
\* task that names files gets its writer even so.
SettleDiscovery(p) ==
  /\ pc[p] = "settle"
  /\ work[p].kind = "discovery"
  /\ LET s == Observed(p)
         found == work[p].out = "final"
     IN  \/ /\ found \/ s.task.explicit
            /\ Settle(p, s, FALSE, "grant")
            /\ work' = [work EXCEPT ![p] = [FirstLoop EXCEPT !.failed = work[p].failed,
                                                            !.strong = work[p].strong]]
         \/ found /\ Settle(p, Stopped(s), FALSE, "finish") /\ UNCHANGED work
         \/ ~s.task.explicit /\ StageGate(p, s) /\ UNCHANGED work

\* The writer's loop: an error of the provider ends the run; changed files, whether the
\* loop ended well or not, go to verification; no change ends the run.
SettleWriter(p) ==
  /\ pc[p] = "settle"
  /\ work[p].kind = "writer"
  /\ \E dirty \in {mem[p].changed, TRUE} :
       LET s == [Observed(p) EXCEPT !.changed = dirty]
       IN  IF work[p].out = "fatal" THEN Settle(p, Stopped(s), FALSE, "finish")
           ELSE IF dirty THEN Settle(p, [s EXCEPT !.phase = "VERIFY"], TRUE, "drive")
           ELSE Settle(p, Stopped(s), TRUE, "finish")
  /\ UNCHANGED work

\* A routed run has no scout: its discovery is part of an attempt.
SkipScout(p) ==
  /\ pc[p] = "drive"
  /\ limit.routed
  /\ mem[p].phase = "SCOUT"
  /\ Save(p, [mem[p] EXCEPT !.phase = "IMPLEMENT"], "drive")

\* Which phases call the Claude command; the arbiter's own quota is checked first.
Guarded(p) ==
  \/ mem[p].phase = "ARBITRATE" /\ mem[p].opus < MaxOpusCalls
  \/ ~limit.routed /\ mem[p].phase \in Implementing \cup {"SCOUT"}

\* guardedCall and what precedes it: a budget that is used up, or files that cannot be
\* read for a single edit, stop the run before anything is paid.
GuardedCall(p) ==
  /\ pc[p] = "drive"
  /\ Guarded(p)
  /\ \/ Stop(p)
     \/ /\ NextCall \in Calls
        /\ spent' = spent \cup {NextCall}
        /\ work' = [work EXCEPT ![p].id = NextCall]
        /\ Goto(p, "reply")
        /\ UNCHANGED <<lock, run, mem, disk, dispatched, orphaned, limit>>

\* The call is charged to the copy in memory, priced or not.
Charged(p) ==
  [mem[p] EXCEPT !.calls = Append(@, work[p].id),
                 !.opus = IF mem[p].phase = "ARBITRATE" THEN @ + 1 ELSE @]

\* A model without a price, an answer without structure, too many files or an edit that
\* does not apply stop the run; a scout's answer needs no structure.
GuardedReply(p) ==
  /\ pc[p] = "reply"
  /\ LET s == Charged(p)
         single == s.phase = "IMPLEMENT" /\ s.task.direct
     IN  \/ Remember(p, Stopped(s), "finish")
         \/ /\ s.phase = "SCOUT"
            /\ Save(p, [s EXCEPT !.phase = "IMPLEMENT"], "drive")
         \/ /\ single
            /\ Save(p, [s EXCEPT !.phase = "VERIFY", !.changed = TRUE, !.direct = TRUE], "drive")
         \/ /\ s.phase \in Implementing /\ ~single
            /\ \E changed \in {s.changed, TRUE}, next \in {"VERIFY", "ARBITRATE"} :
                 /\ s.task.risky => next = "ARBITRATE"
                 /\ Save(p, [s EXCEPT !.phase = next, !.changed = changed], "drive")
         \/ /\ s.phase = "ARBITRATE"
            /\ Save(p, [s EXCEPT !.phase = "APPLY_DECISION"], "drive")

NoArbiter(p) ==
  /\ pc[p] = "drive"
  /\ mem[p].phase = "ARBITRATE"
  /\ mem[p].opus >= MaxOpusCalls
  /\ Stop(p)

Verifying(p) == pc[p] = "drive" /\ mem[p].phase \in {"VERIFY", "FINAL_VERIFY"}

\* Two runs of the tests that disagree.
VerifyFlaky(p) == Verifying(p) /\ Stop(p)

VerifyPassed(p) ==
  /\ Verifying(p)
  /\ IF mem[p].phase = "FINAL_VERIFY" \/ mem[p].direct
     THEN Save(p, [mem[p] EXCEPT !.phase = "DONE", !.done = TRUE], "finish")
     ELSE Save(p, [mem[p] EXCEPT !.phase = "FINAL_VERIFY"], "drive")

Repair(s) == [s EXCEPT !.cycles = @ + 1, !.phase = IF s.cycles = 0 THEN "REPAIR_1" ELSE "REPAIR_2"]

\* Mutated: the tests run again on the same files, as the other of the two verifications.
FailedAgain(p, s) ==
  /\ SaveRunState(p, [s EXCEPT !.phase = IF @ = "VERIFY" THEN "FINAL_VERIFY" ELSE "VERIFY"], "drive")
  /\ UNCHANGED work

\* A repair, by the strong model when the fast one found the files and may be escalated.
OrderRepair(p, s) ==
  IF s.cycles >= MaxRepairCycles THEN Stop(p)
  ELSE /\ IF limit.routed /\ s.flash /\ limit.escalate
          THEN SaveRunState(p, [s EXCEPT !.next = TRUE, !.cycles = @ + 1, !.phase = "REPAIR_1"], "drive")
          ELSE SaveRunState(p, Repair(s), "drive")
       /\ work' = [work EXCEPT ![p].failed = TRUE]

\* The tests fail twice; the same failure again, which only this command remembers, and
\* every failure of a risky task go to the arbiter.
VerifyFailed(p) ==
  /\ Verifying(p)
  /\ \E repeated \in BOOLEAN :
       /\ repeated => work[p].failed
       /\ IF repeated \/ mem[p].task.risky
          THEN /\ SaveRunState(p, [mem[p] EXCEPT !.phase = "ARBITRATE"], "drive")
               /\ work' = [work EXCEPT ![p].failed = TRUE]
          ELSE OrderRepair(p, mem[p])

ApplyDecision(p) ==
  /\ pc[p] = "drive"
  /\ mem[p].phase = "APPLY_DECISION"
  /\ IF mem[p].cycles >= MaxRepairCycles THEN Stop(p) ELSE Save(p, Repair(mem[p]), "drive")

\* A routed run takes the calls and observations of the file before it saves the copy.
Finish(p) ==
  /\ pc[p] = "finish"
  /\ LET s == mem[p]
         file == disk[run[p]]
     IN  Save(p, IF limit.routed /\ s.decisions > 0
                 THEN [s EXCEPT !.calls = file.calls, !.seen = IF file.seen > 0 THEN file.seen ELSE @]
                 ELSE s, "release")

Leave(p, how) ==
  /\ Goto(p, how)
  /\ mem' = [mem EXCEPT ![p] = None]
  /\ work' = [work EXCEPT ![p] = FirstLoop]
  /\ UNCHANGED <<run, disk, dispatched, spent, limit>>

Release(p) ==
  /\ pc[p] = "release"
  /\ IF limit.routed THEN ReleaseRunLease(run[p], p) ELSE UNCHANGED lock
  /\ Leave(p, "gone")
  /\ UNCHANGED orphaned

\* A preflight that was refused the lease.
GiveUp(p) ==
  /\ pc[p] = "refused"
  /\ Leave(p, "gone")
  /\ UNCHANGED <<lock, orphaned>>

\* The process ends at any point; the files stay as they are.
Crash(p) ==
  /\ p \in Alive
  /\ Cardinality({q \in Commands : pc[q] = "crashed"}) < limit.crashes
  /\ orphaned' = orphaned \cup Unsaved(p)
  /\ Leave(p, "crashed")
  /\ UNCHANGED lock

ClearLease ==
  /\ RemoveByHand(Alive)
  /\ UNCHANGED <<pc, run, mem, work, disk, dispatched, spent, orphaned, limit>>

Begin(p) ==
  \E r \in limit.runs :
    \/ \E t \in limit.tasks : RunTask(p, r, t)
    \/ ResumeTask(p, r)
    \/ RunPreflight(p, r)

Step(p) ==
  \/ Classify(p) \/ FindLease(p) \/ CreateOrLose(p) \/ WriteLease(p) \/ RecordPreflight(p)
  \/ CaptureBaseline(p) \/ SkipScout(p) \/ BeginAttempt(p) \/ ClearWriter(p) \/ RouteAttempt(p)
  \/ GrantWriter(p) \/ AssignWriter(p) \/ PrepareCall(p) \/ DispatchCall(p)
  \/ CallAnswered(p) \/ CallLost(p) \/ SettleDiscovery(p) \/ SettleWriter(p)
  \/ GuardedCall(p) \/ GuardedReply(p) \/ NoArbiter(p)
  \/ VerifyFlaky(p) \/ VerifyPassed(p) \/ VerifyFailed(p) \/ ApplyDecision(p)
  \/ Finish(p) \/ Release(p) \/ GiveUp(p)

Next == (\E p \in Commands : Begin(p) \/ Step(p) \/ Crash(p)) \/ ClearLease

Spec == Init /\ [][Next]_vars
\* A process that does not crash goes on: every wait of the code has a timeout.
FairSpec == Spec /\ \A p \in Commands : WF_vars(Step(p))

-----------------------------------------------------------------------------
Labels == {"new", "classify", "check", "create", "fill", "record", "baseline", "drive", "clear",
           "route", "grant", "assign", "call", "dispatch", "sent", "settle", "reply", "finish",
           "release", "refused", "gone", "crashed"}

TypeOK ==
  /\ LeaseTypeOK
  /\ pc \in [Commands -> Labels]
  /\ run \in [Commands -> Runs \cup {None}]
  /\ \A p \in Commands : mem[p] = None \/ mem[p] \in RunState
  /\ \A p \in Commands : work[p] \in Work
  /\ \A r \in Runs : disk[r] = None \/ disk[r] \in RunState
  /\ dispatched \subseteq Calls /\ spent \subseteq Calls /\ orphaned \subseteq Calls

\* The labels between which a command works under the lease.
Driving == {"fill", "record", "baseline", "drive", "clear", "route", "grant", "assign", "call",
            "dispatch", "sent", "settle", "reply"}
Rewriting == {"fill", "clear", "assign"}

\* However the invocations interleave, one at most works on the repository, the lease
\* file names it whenever it can be read, and it is unreadable only while that command
\* rewrites it or after a crash (acquireRunLease, setWriter, releaseRunLease).
OneRunDrives ==
  limit.routed =>
    \A p \in Commands : pc[p] \in Driving =>
      /\ \A q \in Commands : pc[q] \in Driving => q = p
      /\ IF pc[p] \in Rewriting THEN lock = Torn ELSE Owns(run[p], p)

\* A command that ended on its own has given the lease back; only a crash leaves it.
LeaseReturned == lock \notin {Free, Torn} => pc[lock.pid] # "gone"

\* The lease permits no writing while a model is chosen and while the read-only discovery
\* runs, whatever the attempts before were granted.
WriterOnlyInAttempt ==
  \A p \in Commands :
    /\ lock \notin {Free, Torn} /\ lock.pid = p
    /\ pc[p] = "route" \/ (pc[p] \in {"call", "dispatch", "sent", "settle"} /\ work[p].kind = "discovery")
    => ~lock.writer

\* Every call a provider was asked for is in the record of some run, as a charge, as an
\* attempt or as the pending call, unless its command crashed while it was under way.
DispatchedIsAccounted ==
  dispatched \subseteq orphaned \cup UNION {Accounted(disk[r]) : r \in {r \in Runs : disk[r] # None}}

\* No call is charged twice, and the pending call is not among the charges.
ChargedOnce ==
  \A r \in Runs : disk[r] # None =>
    /\ IsInjective(disk[r].calls)
    /\ disk[r].pending # None => disk[r].pending.id \notin CallIds(disk[r])
    /\ \A a, b \in disk[r].history : a.id = b.id => a = b

\* The repair cycles stay within one of the configured number: the stage gate counts
\* without asking.
RepairsBounded == \A r \in Runs : disk[r] # None => disk[r].cycles <= MaxRepairCycles + 1

\* A save never takes a charge, an attempt, a decision or an observation from a record,
\* and a record that is done stays as its command leaves it.
LedgerGrows ==
  [][\A r \in Runs : disk[r] # None =>
       /\ IsPrefix(disk[r].calls, disk'[r].calls)
       /\ disk[r].history \subseteq disk'[r].history
       /\ disk[r].decisions <= disk'[r].decisions /\ disk[r].seen <= disk'[r].seen
       /\ disk[r].done => disk'[r].done]_vars

\* A command ends: no verification, arbitration or repair goes round for ever.
DrivenRunEnds == \A p \in Commands : pc[p] \notin Ended ~> pc[p] \in Ended

\* A call of the Claude command is charged to a record unless its command crashed.
GuardedCallsAreKept ==
  spent \subseteq orphaned \cup UNION ({CallIds(disk[r]) : r \in {r \in Runs : disk[r] # None}}
                                     \cup {Unsaved(p) : p \in Alive})

\* The lease does what it is for: one run at a time drives the repository, none keeps the
\* lease when it is over, and no discovery may write.
LeaseHolds == OneRunDrives /\ LeaseReturned /\ WriterOnlyInAttempt

\* What was paid for is on record, once, and the repairs that pay for more are bounded.
CallsAreAccounted == TypeOK /\ DispatchedIsAccounted /\ ChargedOnce /\ RepairsBounded
=============================================================================
