----------------------------- MODULE AutoRunProofs -----------------------------
(***************************************************************************)
(* For any number of runs, commands, crashes and removals of a lease by    *)
(* hand: the lease of the repository is exclusive.  One command at most    *)
(* works on the repository, no command that ended on its own keeps the     *)
(* lease, and nothing that only reads holds the permission to write.       *)
(* LeaseHolds of AutoRun is not inductive as it stands: a rewritten lease  *)
(* is unreadable, so that the invariant must also say who may be named by  *)
(* a lease that can be read, and what each command knows of its run.       *)
(*                                                                         *)
(* When no run is resumed that a live command drives, what is paid for is  *)
(* on record, once, and the records only grow.  The invariant of that part *)
(* says how the copy of a record in memory and the file stand to each      *)
(* other at every label of a command; it rests on the lease, because two   *)
(* commands that call at once would number their calls alike.              *)
(***************************************************************************)
EXTENDS AutoRun, FiniteSetTheorems, TLAPS

-----------------------------------------------------------------------------
(* The inductive invariant.                                                 *)

\* What a command that a readable lease names may be doing: working, ending, or crashed.
Holding == (Driving \ Rewriting) \cup {"finish", "release", "crashed"}

\* Where a command of a configuration without routing can be.
Unrouted == {"new", "classify", "drive", "reply", "finish", "release", "gone", "crashed"}

Shape ==
  /\ pc \in [Commands -> Labels]
  /\ DOMAIN run = Commands
  /\ DOMAIN work = Commands
  /\ \A p \in Commands : "kind" \in DOMAIN work[p]
  /\ limit \in Limits
  /\ lock \in Lease \cup {Free, Torn}

RunKnown == \A p \in Commands : pc[p] # "new" => run[p] \in Runs

HolderKnown ==
  lock \notin {Free, Torn} => lock.run = run[lock.pid] /\ pc[lock.pid] \in Holding

UnroutedIsFree ==
  ~limit.routed => lock = Free /\ \A p \in Commands : pc[p] \in Unrouted

GrantIsForWriter ==
  \A p \in Commands : pc[p] \in {"grant", "assign"} => work[p].kind = "writer"

LeaseInv ==
  /\ Shape
  /\ RunKnown
  /\ OneRunDrives
  /\ HolderKnown
  /\ UnroutedIsFree
  /\ GrantIsForWriter
  /\ WriterOnlyInAttempt

\* A loop that may only read.
Reading(p, label, w) ==
  label = "route" \/ (label \in {"call", "dispatch", "sent", "settle"} /\ w.kind = "discovery")

LEMMA WriterOnlyWhenWriting ==
  WriterOnlyInAttempt <=>
    \A p \in Commands : lock \notin {Free, Torn} /\ lock.pid = p /\ Reading(p, pc[p], work[p])
      => ~lock.writer
BY DEF WriterOnlyInAttempt, Reading

\* The invariant says all that LeaseHolds does.
LEMMA LeaseInvImpliesLeaseHolds ==
  ASSUME LeaseInv
  PROVE  LeaseHolds
<1>1. LeaseReturned
  BY DEF LeaseInv, HolderKnown, LeaseReturned, Holding, Driving
<1>2. QED
  BY <1>1 DEF LeaseInv, LeaseHolds

-----------------------------------------------------------------------------
(* Steps that leave the lease alone.                                        *)

\* A command goes from one label to another.  It begins to work on the repository only
\* under the lease, does not leave the labels of a holder while a lease names it, and
\* starts a loop that may only read where the lease permits no writing.
LEMMA QuietStep ==
  ASSUME LeaseInv, NEW p \in Commands, NEW l \in Labels,
         UNCHANGED <<lock, run, limit>>,
         pc' = [pc EXCEPT ![p] = l],
         DOMAIN work' = Commands, "kind" \in DOMAIN work'[p],
         \A q \in Commands : q # p => work'[q] = work[q],
         pc[p] # "new", l # "new", l \notin Rewriting,
         l \in Driving /\ limit.routed => pc[p] \in Driving \ Rewriting,
         lock \notin {Free, Torn} /\ lock.pid = p => (pc[p] \in Holding => l \in Holding),
         ~limit.routed => l \in Unrouted,
         l = "grant" => work'[p].kind = "writer",
         Reading(p, l, work'[p]) => Reading(p, pc[p], work[p])
  PROVE  LeaseInv'
<1>1. \A q \in Commands : q # p => pc'[q] = pc[q]
  BY DEF LeaseInv, Shape
<1>2. pc'[p] = l
  BY DEF LeaseInv, Shape
<1>3. Shape'
  BY DEF LeaseInv, Shape
<1>4. RunKnown'
  BY <1>1, <1>2 DEF LeaseInv, RunKnown
<1>5. OneRunDrives'
  <2> SUFFICES ASSUME limit.routed, NEW a \in Commands, pc'[a] \in Driving
               PROVE  /\ \A q \in Commands : pc'[q] \in Driving => q = a
                      /\ IF pc'[a] \in Rewriting THEN lock = Torn ELSE Owns(run[a], a)
    BY DEF OneRunDrives, Owns
  <2>1. pc[a] \in Driving /\ (pc'[a] \in Rewriting <=> pc[a] \in Rewriting)
    BY <1>1, <1>2
  <2>2. \A q \in Commands : pc'[q] \in Driving => pc[q] \in Driving
    BY <1>1, <1>2
  <2>3. QED
    BY <2>1, <2>2 DEF LeaseInv, OneRunDrives
<1>6. HolderKnown'
  <2> SUFFICES ASSUME lock \notin {Free, Torn}
               PROVE  lock.run = run[lock.pid] /\ pc'[lock.pid] \in Holding
    BY DEF HolderKnown
  <2>1. lock.pid \in Commands
    BY DEF LeaseInv, Shape, Lease
  <2>2. lock.run = run[lock.pid] /\ pc[lock.pid] \in Holding
    BY DEF LeaseInv, HolderKnown
  <2>3. QED
    BY <1>1, <1>2, <2>1, <2>2
<1>7. UnroutedIsFree'
  BY <1>1, <1>2 DEF LeaseInv, UnroutedIsFree
<1>8. GrantIsForWriter'
  BY <1>1, <1>2 DEF LeaseInv, GrantIsForWriter, Rewriting
<1>9. WriterOnlyInAttempt'
  <2> SUFFICES ASSUME NEW a \in Commands, lock \notin {Free, Torn}, lock.pid = a,
                      Reading(a, pc'[a], work'[a])
               PROVE  ~lock.writer
    BY DEF WriterOnlyInAttempt, Reading
  <2>1. Reading(a, pc[a], work[a])
    BY <1>1, <1>2 DEF Reading
  <2>2. QED
    BY <2>1, WriterOnlyWhenWriting DEF LeaseInv
<1>10. QED
  BY <1>3, <1>4, <1>5, <1>6, <1>7, <1>8, <1>9 DEF LeaseInv
-----------------------------------------------------------------------------
(* Steps that change the lease.                                             *)

\* The file is made, or truncated to be written again, by the one command that works on
\* the repository from then on; it names nobody meanwhile.
LEMMA TearStep ==
  ASSUME LeaseInv, NEW p \in Commands, NEW l \in Rewriting,
         UNCHANGED <<run, work, limit>>,
         limit.routed, pc[p] # "new",
         \A q \in Commands : pc[q] \in Driving => q = p,
         lock' = Torn,
         pc' = [pc EXCEPT ![p] = l],
         l = "assign" => work[p].kind = "writer"
  PROVE  LeaseInv'
<1>1. \A q \in Commands : q # p => pc'[q] = pc[q]
  BY DEF LeaseInv, Shape
<1>2. pc'[p] = l /\ l \in Labels /\ l # "new" /\ l # "grant"
  BY DEF LeaseInv, Shape, Rewriting, Labels
<1>3. Shape'
  BY <1>2 DEF LeaseInv, Shape
<1>4. RunKnown'
  BY <1>1, <1>2 DEF LeaseInv, RunKnown
<1>5. OneRunDrives'
  BY <1>1, <1>2 DEF OneRunDrives
<1>6. HolderKnown' /\ UnroutedIsFree' /\ WriterOnlyInAttempt'
  BY DEF HolderKnown, UnroutedIsFree, WriterOnlyInAttempt
<1>7. GrantIsForWriter'
  BY <1>1, <1>2 DEF LeaseInv, GrantIsForWriter
<1>8. QED
  BY <1>3, <1>4, <1>5, <1>6, <1>7 DEF LeaseInv

\* The command that truncated the file writes it: the lease names it and its run.
LEMMA FillStep ==
  ASSUME LeaseInv, NEW p \in Commands, NEW w \in BOOLEAN, NEW l \in Driving \ Rewriting,
         UNCHANGED <<run, work, limit>>,
         limit.routed, pc[p] \in Rewriting,
         lock' = [run |-> run[p], pid |-> p, writer |-> w],
         pc' = [pc EXCEPT ![p] = l],
         l # "grant", Reading(p, l, work[p]) => ~w
  PROVE  LeaseInv'
<1>1. \A q \in Commands : q # p => pc'[q] = pc[q]
  BY DEF LeaseInv, Shape
<1>2. pc'[p] = l /\ l \in Labels /\ l # "new" /\ l # "assign" /\ pc[p] # "new"
  BY DEF LeaseInv, Shape, Driving, Rewriting, Labels
<1>3. run[p] \in Runs
  BY <1>2 DEF LeaseInv, RunKnown
<1>4. lock' \in Lease /\ lock' \notin {Free, Torn}
  BY <1>3, LeaseAssumption DEF Lease
<1>5. lock'.run = run[p] /\ lock'.pid = p /\ lock'.writer = w
  OBVIOUS
<1>6. Shape'
  BY <1>2, <1>4 DEF LeaseInv, Shape
<1>7. RunKnown'
  BY <1>1, <1>2 DEF LeaseInv, RunKnown
<1>8. OneRunDrives'
  <2>1. \A q \in Commands : pc[q] \in Driving => q = p
    BY DEF LeaseInv, OneRunDrives, Driving, Rewriting
  <2>2. \A q \in Commands : pc'[q] \in Driving => q = p
    BY <1>1, <2>1
  <2>3. Owns(run[p], p)'
    BY <1>4, <1>5 DEF Owns
  <2>4. QED
    BY <1>2, <2>2, <2>3 DEF OneRunDrives, Owns
<1>9. HolderKnown'
  BY <1>2, <1>5 DEF HolderKnown, Holding
<1>10. UnroutedIsFree'
  BY DEF UnroutedIsFree
<1>11. GrantIsForWriter'
  BY <1>1, <1>2 DEF LeaseInv, GrantIsForWriter
<1>12. WriterOnlyInAttempt'
  BY <1>2, <1>5 DEF WriterOnlyInAttempt, Reading
<1>13. QED
  BY <1>6, <1>7, <1>8, <1>9, <1>10, <1>11, <1>12 DEF LeaseInv

\* The file goes when nobody works under it, and a command that ends is not one that a
\* lease names.
LEMMA RemoveStep ==
  ASSUME LeaseInv, NEW p \in Commands, NEW l \in Labels,
         UNCHANGED <<run, limit>>,
         DOMAIN work' = Commands, "kind" \in DOMAIN work'[p],
         \A q \in Commands : q # p => work'[q] = work[q],
         lock' = Free,
         pc' = [pc EXCEPT ![p] = l],
         limit.routed => \A q \in Commands : q # p => pc[q] \notin Driving,
         l \notin Driving, ~limit.routed => l \in Unrouted,
         l # "new" => pc[p] # "new"
  PROVE  LeaseInv'
<1>1. \A q \in Commands : q # p => pc'[q] = pc[q]
  BY DEF LeaseInv, Shape
<1>2. pc'[p] = l /\ l \notin {"grant", "assign"}
  BY DEF LeaseInv, Shape, Driving
<1>3. Shape'
  BY DEF LeaseInv, Shape
<1>4. RunKnown'
  BY <1>1, <1>2 DEF LeaseInv, RunKnown
<1>5. OneRunDrives'
  BY <1>1, <1>2 DEF OneRunDrives
<1>6. HolderKnown' /\ WriterOnlyInAttempt'
  BY DEF HolderKnown, WriterOnlyInAttempt
<1>7. UnroutedIsFree'
  BY <1>1, <1>2 DEF LeaseInv, UnroutedIsFree
<1>8. GrantIsForWriter'
  BY <1>1, <1>2 DEF LeaseInv, GrantIsForWriter
<1>9. QED
  BY <1>3, <1>4, <1>5, <1>6, <1>7, <1>8 DEF LeaseInv

\* A command that begins takes a run; nobody can have been named by a lease before.
LEMMA BeginStep ==
  ASSUME LeaseInv, NEW p \in Commands, NEW r \in Runs, NEW l \in {"classify", "check"},
         UNCHANGED <<lock, work, limit>>,
         pc[p] = "new",
         run' = [run EXCEPT ![p] = r],
         pc' = [pc EXCEPT ![p] = l],
         l = "check" => limit.routed
  PROVE  LeaseInv'
<1>1. \A q \in Commands : q # p => pc'[q] = pc[q] /\ run'[q] = run[q]
  BY DEF LeaseInv, Shape
<1>2. pc'[p] = l /\ run'[p] = r /\ l \notin Driving /\ l \in Labels
  BY DEF LeaseInv, Shape, Driving, Labels
<1>3. Shape'
  BY <1>2 DEF LeaseInv, Shape
<1>4. RunKnown'
  BY <1>1, <1>2 DEF LeaseInv, RunKnown
<1>5. OneRunDrives'
  <2> SUFFICES ASSUME limit.routed, NEW a \in Commands, pc'[a] \in Driving
               PROVE  /\ \A q \in Commands : pc'[q] \in Driving => q = a
                      /\ IF pc'[a] \in Rewriting THEN lock = Torn ELSE Owns(run'[a], a)
    BY DEF OneRunDrives, Owns
  <2>1. a # p /\ pc[a] \in Driving
    BY <1>1, <1>2
  <2>2. QED
    BY <1>1, <1>2, <2>1 DEF LeaseInv, OneRunDrives, Owns
<1>6. HolderKnown'
  <2> SUFFICES ASSUME lock \notin {Free, Torn}
               PROVE  lock.run = run'[lock.pid] /\ pc'[lock.pid] \in Holding
    BY DEF HolderKnown
  <2>1. lock.pid \in Commands
    BY DEF LeaseInv, Shape, Lease
  <2>2. lock.run = run[lock.pid] /\ pc[lock.pid] \in Holding
    BY DEF LeaseInv, HolderKnown
  <2>3. lock.pid # p
    BY <2>2 DEF Holding, Driving
  <2>4. QED
    BY <1>1, <2>1, <2>2, <2>3
<1>7. UnroutedIsFree'
  BY <1>1, <1>2 DEF LeaseInv, UnroutedIsFree, Unrouted
<1>8. GrantIsForWriter'
  BY <1>1, <1>2 DEF LeaseInv, GrantIsForWriter
<1>9. WriterOnlyInAttempt'
  BY <1>1, <1>2 DEF LeaseInv, WriterOnlyInAttempt
<1>10. QED
  BY <1>3, <1>4, <1>5, <1>6, <1>7, <1>8, <1>9 DEF LeaseInv
-----------------------------------------------------------------------------
(* The actions.                                                             *)

LEMMA ClassifySteps ==
  ASSUME LeaseInv, NEW p \in Commands, Classify(p)
  PROVE  LeaseInv'
<1>1. pc[p] = "classify" /\ UNCHANGED <<lock, run, limit, work>>
  BY DEF Classify, Save, SaveRunState, Stop, Remember
<1>2. PICK l \in {"check", "drive", "finish"} :
        pc' = [pc EXCEPT ![p] = l] /\ (limit.routed <=> l = "check")
  BY DEF Classify, Save, SaveRunState, Stop, Remember, Goto
<1>3. QED
  BY <1>1, <1>2, QuietStep DEF LeaseInv, Shape, Labels, Driving, Rewriting, Holding, Unrouted, Reading

LEMMA BeginSteps ==
  ASSUME LeaseInv, NEW p \in Commands, Begin(p)
  PROVE  LeaseInv'
<1>1. PICK r \in limit.runs :
        (\E t \in limit.tasks : RunTask(p, r, t)) \/ ResumeTask(p, r) \/ RunPreflight(p, r)
  BY DEF Begin
<1>2. r \in Runs /\ (limit.preflight => limit.routed)
  BY AutoRunAssumption DEF LeaseInv, Shape
<1>3. pc[p] = "new" /\ run' = [run EXCEPT ![p] = r] /\ UNCHANGED <<lock, work, limit>>
  BY <1>1 DEF RunTask, ResumeTask, RunPreflight, Open, Typed
<1>4. PICK l \in {"classify", "check"} :
        pc' = [pc EXCEPT ![p] = l] /\ (l = "check" => limit.preflight)
  BY <1>1 DEF RunTask, ResumeTask, RunPreflight, Open, Goto
<1>5. QED
  BY <1>2, <1>3, <1>4, BeginStep

\* A command that finds a lease is refused; one that finds none may create it.
LEMMA FindLeaseSteps ==
  ASSUME LeaseInv, NEW p \in Commands, FindLease(p)
  PROVE  LeaseInv'
<1>1. pc[p] = "check" /\ UNCHANGED <<lock, run, limit, work>>
  BY DEF FindLease, Refused, Stop, Remember
<1>2. PICK l \in {"create", "refused", "finish"} : pc' = [pc EXCEPT ![p] = l]
  BY DEF FindLease, Refused, Stop, Remember, Goto
<1>3. limit.routed
  BY <1>1 DEF LeaseInv, UnroutedIsFree, Unrouted
<1>4. QED
  BY <1>1, <1>2, <1>3, QuietStep DEF LeaseInv, Shape, Labels, Driving, Rewriting, Holding, Reading

LEMMA CreateOrLoseSteps ==
  ASSUME LeaseInv, NEW p \in Commands, CreateOrLose(p)
  PROVE  LeaseInv'
<1>1. pc[p] = "create" /\ UNCHANGED <<run, limit, work>>
  BY DEF CreateOrLose, Refused, Stop, Remember
<1>2. limit.routed
  BY <1>1 DEF LeaseInv, UnroutedIsFree, Unrouted
<1>3. CASE CreateLease /\ Goto(p, "fill")
  <2>1. lock = Free /\ lock' = Torn /\ pc' = [pc EXCEPT ![p] = "fill"]
    BY <1>3 DEF CreateLease, Goto
  <2>2. \A q \in Commands : pc[q] \notin Driving
    BY <1>2, <2>1, LeaseAssumption DEF LeaseInv, OneRunDrives, Owns
  <2>3. QED
    BY <1>1, <1>2, <2>1, <2>2, TearStep DEF Rewriting
<1>4. CASE lock # Free /\ Refused(p)
  <2>1. PICK l \in {"refused", "finish"} : pc' = [pc EXCEPT ![p] = l] /\ UNCHANGED lock
    BY <1>4 DEF Refused, Stop, Remember, Goto
  <2>2. QED
    BY <1>1, <1>2, <2>1, QuietStep DEF LeaseInv, Shape, Labels, Driving, Rewriting, Holding, Reading
<1>5. QED
  BY <1>3, <1>4 DEF CreateOrLose

LEMMA WriteLeaseSteps ==
  ASSUME LeaseInv, NEW p \in Commands, WriteLease(p)
  PROVE  LeaseInv'
<1>1. pc[p] = "fill" /\ UNCHANGED <<run, limit, work>>
      /\ lock' = [run |-> run[p], pid |-> p, writer |-> FALSE]
  BY DEF WriteLease, FillLease
<1>2. PICK l \in {"record", "baseline"} : pc' = [pc EXCEPT ![p] = l]
  BY DEF WriteLease, Goto
<1>3. limit.routed
  BY <1>1 DEF LeaseInv, UnroutedIsFree, Unrouted
<1>4. QED
  BY <1>1, <1>2, <1>3, FillStep DEF Driving, Rewriting

\* Steps of a run under way that leave the lease and the loop alone.
LEMMA DrivenStep ==
  ASSUME LeaseInv, NEW p \in Commands,
         NEW l \in {"drive", "finish", "release", "dispatch"},
         pc[p] \in {"record", "baseline", "drive", "call", "settle", "reply", "finish", "route", "grant"},
         UNCHANGED <<lock, run, limit>>,
         pc' = [pc EXCEPT ![p] = l],
         DOMAIN work' = Commands, "kind" \in DOMAIN work'[p], work'[p].kind = work[p].kind,
         \A q \in Commands : q # p => work'[q] = work[q],
         l = "drive" => pc[p] # "finish",
         l = "dispatch" => pc[p] = "call"
  PROVE  LeaseInv'
<1>1. ~limit.routed => pc[p] \in Unrouted
  BY DEF LeaseInv, UnroutedIsFree
<1>2. QED
  BY <1>1, QuietStep DEF Labels, Driving, Rewriting, Holding, Unrouted, Reading

LEMMA PhaseSteps ==
  ASSUME LeaseInv, NEW p \in Commands,
         \/ RecordPreflight(p) \/ CaptureBaseline(p) \/ SkipScout(p) \/ PrepareCall(p)
         \/ SettleWriter(p) \/ NoArbiter(p) \/ VerifyFlaky(p) \/ VerifyPassed(p)
         \/ ApplyDecision(p) \/ Finish(p) \/ GuardedReply(p)
  PROVE  LeaseInv'
<1> USE DEF Stop, Remember, Save, SaveRunState, Goto
<1>1. DOMAIN work = Commands /\ "kind" \in DOMAIN work[p]
  BY DEF LeaseInv, Shape
<1>2. CASE RecordPreflight(p)
  BY <1>1, <1>2, DrivenStep DEF RecordPreflight
<1>3. CASE CaptureBaseline(p)
  BY <1>1, <1>3, DrivenStep DEF CaptureBaseline
<1>4. CASE SkipScout(p)
  BY <1>1, <1>4, DrivenStep DEF SkipScout
<1>5. CASE PrepareCall(p)
  BY <1>1, <1>5, DrivenStep DEF PrepareCall
<1>6. CASE SettleWriter(p)
  BY <1>1, <1>6, DrivenStep DEF SettleWriter, Settle
<1>7. CASE NoArbiter(p)
  BY <1>1, <1>7, DrivenStep DEF NoArbiter
<1>8. CASE VerifyFlaky(p)
  BY <1>1, <1>8, DrivenStep DEF VerifyFlaky, Verifying
<1>9. CASE VerifyPassed(p)
  BY <1>1, <1>9, DrivenStep DEF VerifyPassed, Verifying
<1>10. CASE ApplyDecision(p)
  BY <1>1, <1>10, DrivenStep DEF ApplyDecision
<1>11. CASE Finish(p)
  BY <1>1, <1>11, DrivenStep DEF Finish
<1>12. CASE GuardedReply(p)
  BY <1>1, <1>12, DrivenStep DEF GuardedReply
<1>13. QED
  BY <1>2, <1>3, <1>4, <1>5, <1>6, <1>7, <1>8, <1>9, <1>10, <1>11, <1>12

\* The phases that change the loop.
LEMMA LoopSteps ==
  ASSUME LeaseInv, NEW p \in Commands, GuardedCall(p) \/ VerifyFailed(p)
  PROVE  LeaseInv'
<1> USE DEF Stop, Remember, Save, SaveRunState, Goto
<1>1. DOMAIN work = Commands /\ "kind" \in DOMAIN work[p]
  BY DEF LeaseInv, Shape
<1>2. CASE GuardedCall(p)
  <2>1. pc[p] = "drive" /\ UNCHANGED <<lock, run, limit>>
    BY <1>2 DEF GuardedCall
  <2>2. CASE Stop(p)
    BY <1>1, <2>1, <2>2, DrivenStep
  <2>3. CASE work' = [work EXCEPT ![p].id = NextCall] /\ Goto(p, "reply")
    BY <1>1, <2>1, <2>3, QuietStep DEF Labels, Driving, Rewriting, Holding, Unrouted, Reading
  <2>4. QED
    BY <1>2, <2>2, <2>3 DEF GuardedCall
<1>3. CASE VerifyFailed(p)
  <2>1. pc[p] = "drive" /\ UNCHANGED <<lock, run, limit>>
    BY <1>3 DEF VerifyFailed, Verifying, OrderRepair
  <2>2. \/ UNCHANGED work
        \/ work' = [work EXCEPT ![p].failed = TRUE]
    BY <1>3 DEF VerifyFailed, OrderRepair
  <2>3. PICK l \in {"drive", "finish"} : pc' = [pc EXCEPT ![p] = l]
    BY <1>3 DEF VerifyFailed, OrderRepair
  <2>4. /\ DOMAIN work' = Commands /\ "kind" \in DOMAIN work'[p] /\ work'[p].kind = work[p].kind
        /\ \A q \in Commands : q # p => work'[q] = work[q]
    BY <1>1, <2>2
  <2>5. QED
    BY <2>1, <2>3, <2>4, DrivenStep
<1>4. QED
  BY <1>2, <1>3

\* Beginning an attempt takes the permission to write away before a model is chosen.
LEMMA BeginAttemptSteps ==
  ASSUME LeaseInv, NEW p \in Commands, BeginAttempt(p) \/ ClearWriter(p)
  PROVE  LeaseInv'
<1>1. CASE BeginAttempt(p)
  <2>1. pc[p] = "drive" /\ limit.routed
    BY <1>1 DEF BeginAttempt
  <2>2. Owns(run[p], p) /\ \A q \in Commands : pc[q] \in Driving => q = p
    BY <2>1 DEF LeaseInv, OneRunDrives, Driving, Rewriting
  <2>3. lock' = Torn /\ pc' = [pc EXCEPT ![p] = "clear"] /\ UNCHANGED <<run, work, limit>>
    BY <1>1, <2>2 DEF BeginAttempt, TearLease, Goto
  <2>4. QED
    BY <2>1, <2>2, <2>3, TearStep DEF Rewriting
<1>2. CASE ClearWriter(p)
  <2>1. pc[p] = "clear" /\ pc' = [pc EXCEPT ![p] = "route"] /\ UNCHANGED <<run, work, limit>>
        /\ lock' = [run |-> run[p], pid |-> p, writer |-> FALSE]
    BY <1>2 DEF ClearWriter, SetWriter, Goto
  <2>2. limit.routed
    BY <2>1 DEF LeaseInv, UnroutedIsFree, Unrouted
  <2>3. QED
    BY <2>1, <2>2, FillStep DEF Driving, Rewriting
<1>3. QED
  BY <1>1, <1>2

\* A discovery begins from the choice of the model, without the permission; the writer
\* goes by the last check.
LEMMA RouteAttemptSteps ==
  ASSUME LeaseInv, NEW p \in Commands, RouteAttempt(p)
  PROVE  LeaseInv'
<1>1. pc[p] = "route" /\ UNCHANGED <<lock, run, limit>>
  BY DEF RouteAttempt
<1>2. limit.routed
  BY <1>1 DEF LeaseInv, UnroutedIsFree, Unrouted
<1>3. DOMAIN work = Commands
  BY DEF LeaseInv, Shape
<1>4. PICK kind \in {"discovery", "writer"} :
        \E strong : work' = [work EXCEPT ![p] =
          [FirstLoop EXCEPT !.kind = kind, !.failed = work[p].failed, !.strong = strong]]
  BY DEF RouteAttempt
<1>5. /\ DOMAIN work' = Commands /\ work'[p].kind = kind /\ "kind" \in DOMAIN work'[p]
      /\ \A q \in Commands : q # p => work'[q] = work[q]
  BY <1>3, <1>4 DEF FirstLoop
<1>6. PICK l \in {"finish", "grant", "call"} :
        pc' = [pc EXCEPT ![p] = l] /\ (l = "grant" => work'[p].kind = "writer")
  BY DEF RouteAttempt, Goto
<1>7. QED
  BY <1>1, <1>2, <1>5, <1>6, QuietStep DEF Labels, Driving, Rewriting, Holding, Reading

LEMMA GrantSteps ==
  ASSUME LeaseInv, NEW p \in Commands, GrantWriter(p) \/ AssignWriter(p)
  PROVE  LeaseInv'
<1>1. limit.routed /\ work[p].kind = "writer" /\ DOMAIN work = Commands
      /\ "kind" \in DOMAIN work[p]
  BY DEF LeaseInv, Shape, UnroutedIsFree, Unrouted, GrantIsForWriter, GrantWriter, AssignWriter
<1>2. CASE GrantWriter(p)
  <2>1. pc[p] = "grant"
    BY <1>2 DEF GrantWriter
  <2>2. Owns(run[p], p) /\ \A q \in Commands : pc[q] \in Driving => q = p
    BY <1>1, <2>1 DEF LeaseInv, OneRunDrives, Driving, Rewriting
  <2>3. CASE Stop(p)
    BY <1>1, <2>1, <2>3, DrivenStep DEF Stop, Remember, Goto
  <2>4. CASE ~Stop(p)
    <3>1. lock' = Torn /\ pc' = [pc EXCEPT ![p] = "assign"] /\ UNCHANGED <<run, work, limit>>
      BY <1>2, <2>2, <2>4 DEF GrantWriter, TearLease, Goto
    <3>2. QED
      BY <1>1, <2>1, <2>2, <3>1, TearStep DEF Rewriting
  <2>5. QED
    BY <2>3, <2>4
<1>3. CASE AssignWriter(p)
  <2>1. pc[p] = "assign" /\ pc' = [pc EXCEPT ![p] = "call"] /\ UNCHANGED <<run, work, limit>>
        /\ lock' = [run |-> run[p], pid |-> p, writer |-> TRUE]
    BY <1>3 DEF AssignWriter, SetWriter, Goto
  <2>2. QED
    BY <1>1, <2>1, FillStep DEF Driving, Rewriting, Reading
<1>4. QED
  BY <1>2, <1>3

\* A loop keeps its kind through its calls.
LEMMA CallSteps ==
  ASSUME LeaseInv, NEW p \in Commands, DispatchCall(p) \/ CallAnswered(p) \/ CallLost(p)
  PROVE  LeaseInv'
<1>1. DOMAIN work = Commands /\ "kind" \in DOMAIN work[p]
  BY DEF LeaseInv, Shape
<1>2. pc[p] \in {"dispatch", "sent"} /\ UNCHANGED <<lock, run, limit>>
  BY DEF DispatchCall, CallAnswered, CallLost
<1>3. limit.routed
  BY <1>2 DEF LeaseInv, UnroutedIsFree, Unrouted
<1>4. PICK l \in {"sent", "call", "settle"} : pc' = [pc EXCEPT ![p] = l]
  BY DEF DispatchCall, CallAnswered, CallLost, Continue, Goto
<1>5. PICK loop : work' = [work EXCEPT ![p] = loop] /\ "kind" \in DOMAIN loop
                  /\ loop.kind = work[p].kind
  BY <1>1 DEF DispatchCall, CallAnswered, CallLost, Continue
<1>6. /\ DOMAIN work' = Commands /\ work'[p].kind = work[p].kind /\ "kind" \in DOMAIN work'[p]
      /\ \A q \in Commands : q # p => work'[q] = work[q]
  BY <1>1, <1>5
<1>7. QED
  BY <1>2, <1>3, <1>4, <1>6, QuietStep DEF Labels, Driving, Rewriting, Holding, Reading

LEMMA SettleDiscoverySteps ==
  ASSUME LeaseInv, NEW p \in Commands, SettleDiscovery(p)
  PROVE  LeaseInv'
<1>1. DOMAIN work = Commands /\ "kind" \in DOMAIN work[p]
  BY DEF LeaseInv, Shape
<1>2. pc[p] = "settle" /\ UNCHANGED <<lock, run, limit>>
  BY DEF SettleDiscovery, StageGate, Settle
<1>3. limit.routed
  BY <1>2 DEF LeaseInv, UnroutedIsFree, Unrouted
<1>4. \/ UNCHANGED work /\ \E l \in {"drive", "finish"} : pc' = [pc EXCEPT ![p] = l]
      \/ /\ pc' = [pc EXCEPT ![p] = "grant"]
         /\ work' = [work EXCEPT ![p] = [FirstLoop EXCEPT !.failed = work[p].failed,
                                                          !.strong = work[p].strong]]
  BY DEF SettleDiscovery, StageGate, Settle, Goto
<1>5. CASE UNCHANGED work /\ \E l \in {"drive", "finish"} : pc' = [pc EXCEPT ![p] = l]
  BY <1>1, <1>2, <1>5, DrivenStep
<1>6. CASE /\ pc' = [pc EXCEPT ![p] = "grant"]
           /\ work' = [work EXCEPT ![p] = [FirstLoop EXCEPT !.failed = work[p].failed,
                                                            !.strong = work[p].strong]]
  <2>1. /\ DOMAIN work' = Commands /\ work'[p].kind = "writer" /\ "kind" \in DOMAIN work'[p]
        /\ \A q \in Commands : q # p => work'[q] = work[q]
    BY <1>1, <1>6 DEF FirstLoop
  <2>2. QED
    BY <1>2, <1>3, <1>6, <2>1, QuietStep DEF Labels, Driving, Rewriting, Holding, Reading
<1>7. QED
  BY <1>4, <1>5, <1>6

\* A run gives its lease back; whatever the lease says, the command no longer works.
LEMMA ReleaseSteps ==
  ASSUME LeaseInv, NEW p \in Commands, Release(p)
  PROVE  LeaseInv'
<1>1. pc[p] = "release" /\ pc' = [pc EXCEPT ![p] = "gone"] /\ UNCHANGED <<run, limit>>
      /\ work' = [work EXCEPT ![p] = FirstLoop]
  BY DEF Release, Leave, Goto
<1>2. /\ DOMAIN work' = Commands /\ "kind" \in DOMAIN work'[p]
      /\ \A q \in Commands : q # p => work'[q] = work[q]
  BY <1>1 DEF LeaseInv, Shape, FirstLoop
<1>3. CASE lock' = Free
  <2>1. ASSUME limit.routed, NEW q \in Commands, q # p
        PROVE  pc[q] \notin Driving
    <3>1. lock = Free \/ Owns(run[p], p)
      BY <1>3, <2>1 DEF Release, ReleaseRunLease
    <3>2. lock # Torn /\ (lock # Free => lock.pid = p)
      BY <3>1, LeaseAssumption DEF Owns
    <3>3. QED
      BY <2>1, <3>2, LeaseAssumption DEF LeaseInv, OneRunDrives, Owns
  <2>2. QED
    BY <1>1, <1>2, <1>3, <2>1, RemoveStep DEF Labels, Driving, Unrouted
<1>4. CASE lock' # Free
  <2>1. UNCHANGED lock /\ limit.routed /\ ~Owns(run[p], p)
    BY <1>4 DEF Release, ReleaseRunLease, LeaseInv, UnroutedIsFree
  <2>2. lock \notin {Free, Torn} => lock.pid # p
    BY <2>1 DEF LeaseInv, HolderKnown, Owns
  <2>3. QED
    BY <1>1, <1>2, <2>1, <2>2, QuietStep DEF Labels, Driving, Rewriting, Unrouted, Reading
<1>5. QED
  BY <1>3, <1>4

\* Leaving without the lease, or by a crash.
LEMMA LeaveSteps ==
  ASSUME LeaseInv, NEW p \in Commands, GiveUp(p) \/ Crash(p)
  PROVE  LeaseInv'
<1>1. PICK l \in {"gone", "crashed"} :
        /\ pc' = [pc EXCEPT ![p] = l]
        /\ IF l = "gone" THEN pc[p] = "refused" ELSE pc[p] \notin Ended
  BY DEF GiveUp, Crash, Leave, Goto, Alive
<1>2. UNCHANGED <<lock, run, limit>> /\ work' = [work EXCEPT ![p] = FirstLoop]
  BY DEF GiveUp, Crash, Leave
<1>3. /\ DOMAIN work' = Commands /\ "kind" \in DOMAIN work'[p]
      /\ \A q \in Commands : q # p => work'[q] = work[q]
  BY <1>2 DEF LeaseInv, Shape, FirstLoop
<1>4. QED
  BY <1>1, <1>2, <1>3, QuietStep
     DEF Labels, Driving, Rewriting, Holding, Unrouted, Reading, Ended

\* The operator removes the lease of a command that is not running.
LEMMA ClearLeaseSteps ==
  ASSUME LeaseInv, ClearLease
  PROVE  LeaseInv'
<1>1. lock' = Free /\ UNCHANGED <<pc, run, work, limit>>
  BY DEF ClearLease, RemoveByHand
<1>2. ASSUME limit.routed PROVE \A q \in Commands : pc[q] \notin Driving
  <2>1. lock # Free /\ (IF lock = Torn THEN Alive = {} ELSE lock.pid \notin Alive)
    BY DEF ClearLease, RemoveByHand
  <2> SUFFICES ASSUME NEW q \in Commands, pc[q] \in Driving
               PROVE  FALSE
    OBVIOUS
  <2>2. q \in Alive
    BY DEF Alive, Ended, Driving
  <2>3. lock # Torn /\ lock.pid # q
    BY <2>1, <2>2
  <2>4. QED
    BY <1>2, <2>3 DEF LeaseInv, OneRunDrives, Owns
<1>3. Shape' /\ RunKnown' /\ GrantIsForWriter'
  BY <1>1 DEF LeaseInv, Shape, RunKnown, GrantIsForWriter
<1>4. OneRunDrives'
  BY <1>1, <1>2 DEF OneRunDrives
<1>5. HolderKnown' /\ UnroutedIsFree' /\ WriterOnlyInAttempt'
  BY <1>1 DEF LeaseInv, HolderKnown, UnroutedIsFree, WriterOnlyInAttempt
<1>6. QED
  BY <1>3, <1>4, <1>5 DEF LeaseInv
-----------------------------------------------------------------------------
(* The theorem.                                                             *)

LEMMA InitImpliesLeaseInv ==
  ASSUME Init
  PROVE  LeaseInv
<1>1. Shape
  BY DEF Init, Shape, Labels, FirstLoop
<1>2. RunKnown /\ OneRunDrives /\ HolderKnown /\ UnroutedIsFree /\ GrantIsForWriter
      /\ WriterOnlyInAttempt
  BY DEF Init, RunKnown, OneRunDrives, HolderKnown, UnroutedIsFree, GrantIsForWriter,
         WriterOnlyInAttempt, Driving, Unrouted
<1>3. QED
  BY <1>1, <1>2 DEF LeaseInv

LEMMA StepSteps ==
  ASSUME LeaseInv, NEW p \in Commands, Step(p)
  PROVE  LeaseInv'
BY ClassifySteps, FindLeaseSteps, CreateOrLoseSteps, WriteLeaseSteps, PhaseSteps, LoopSteps,
   BeginAttemptSteps, RouteAttemptSteps, GrantSteps, CallSteps, SettleDiscoverySteps,
   ReleaseSteps, LeaveSteps DEF Step

\* Every step keeps the invariant, those that change nothing it speaks of included.
LEMMA NextKeepsLeaseInv ==
  ASSUME LeaseInv, [Next]_vars
  PROVE  LeaseInv'
<1>1. CASE Next
  BY <1>1, BeginSteps, StepSteps, LeaveSteps, ClearLeaseSteps DEF Next
<1>2. CASE UNCHANGED vars
  BY <1>2 DEF vars, LeaseInv, Shape, RunKnown, OneRunDrives, Owns, HolderKnown, UnroutedIsFree,
              GrantIsForWriter, WriterOnlyInAttempt
<1>3. QED
  BY <1>1, <1>2

\* The lease of the repository is exclusive (runLease.ts, orchestrator.ts, preflight.ts):
\* for any number of runs and commands, whatever crashes and whatever the operator removes
\* by hand, one command at most works on the repository, only a crash leaves a lease behind,
\* and a command that chooses a model or only reads has no permission to write.
THEOREM LeaseIsExclusive == Spec => []LeaseHolds
<1>1. Init => LeaseInv
  BY InitImpliesLeaseInv
<1>2. LeaseInv /\ [Next]_vars => LeaseInv'
  BY NextKeepsLeaseInv
<1>3. LeaseInv => LeaseHolds
  BY LeaseInvImpliesLeaseHolds
<1>4. QED
  BY <1>1, <1>2, <1>3, PTL DEF Spec

-----------------------------------------------------------------------------
(* The records, and what is paid for, when no run is resumed that a live    *)
(* command drives: a record in a file has one copy in memory at most.       *)

\* What a record has been charged for or has archived; it stays so for good.
Settled(s) == CallIds(s) \cup {a.id : a \in s.history}

\* The repairs of a record: one too many is the strong model's, once.
Bounded(s) ==
  \/ s.cycles <= MaxRepairCycles
  \/ /\ s.cycles = MaxRepairCycles + 1
     /\ \/ s.phase \notin Implementing \cup {"INTAKE", "SCOUT"}
        \/ s.phase = "REPAIR_1" /\ s.next

\* A record that can be in a file once the calls D were dispatched and S were spent.
Sound(s, D, S) ==
  /\ s \in RunState
  /\ IsInjective(s.calls) /\ CallIds(s) \subseteq D \cup S
  /\ \A a, b \in s.history : a.id = b.id => a = b
  /\ s.pending # None => /\ s.pending.id \notin CallIds(s)
                         /\ s.pending.id \in D \/ s.phase \in Implementing \cup {"STOPPED"}
  /\ Bounded(s)

\* A record nothing was paid for.
Unpaid(s) ==
  s.calls = << >> /\ s.history = {} /\ s.pending = None /\ s.cycles = 0 /\ ~s.done

Synced == {"classify", "check", "create", "fill", "baseline", "drive", "clear", "route", "reply",
           "release"}
Looping == {"call", "dispatch", "sent", "settle"}

SameLedger(m, d) ==
  /\ m.history = d.history /\ m.pending = d.pending
  /\ m.decisions = d.decisions /\ m.seen = d.seen

InLoop(m, d, w) ==
  /\ m.phase = d.phase /\ m.cycles = d.cycles /\ m.decisions = d.decisions /\ m.seen = d.seen
  /\ m.phase \in Implementing /\ ~m.done
  /\ w.strong \/ m.cycles <= MaxRepairCycles

\* The copy m that a command at label l, in loop w, has of the record d: the same but
\* while a loop writes to the file, and for what is saved in the end.
Copy(l, m, d, w, D, S) ==
  /\ m \in RunState /\ CallIds(m) \subseteq D \cup S
  /\ l \in {"record", "refused"} => d = None
  /\ d = None => l \in {"check", "create", "fill", "record", "refused"} /\ Unpaid(m)
  /\ d # None =>
       /\ l \in Synced => m = d
       /\ l \in {"clear", "route"} => m.phase \in Implementing
       /\ l \in {"grant", "assign"} \cup Looping => InLoop(m, d, w)
       /\ l \in {"grant", "assign"} => SameLedger(m, d) /\ m.calls = d.calls
       /\ l = "finish" => /\ SameLedger(m, d) /\ Sound(m, D, S)
                          /\ IsPrefix(d.calls, m.calls) /\ (d.done => m.done)
       /\ l \notin {"finish", "release"} => ~d.done
       /\ l = "sent" => d.pending = [id |-> w.id, status |-> "DISPATCHED"] /\ w.id \in D
       /\ l = "settle" => (d.pending # None => d.pending.id \in D)
       /\ l = "reply" => /\ w.id \in S /\ w.id \notin CallIds(m)
                         /\ m.pending # None => m.pending.id \in D \ {w.id}

Driven ==
  /\ \A p, q \in Alive : run[p] = run[q] => p = q
  /\ \A p \in Alive : Copy(pc[p], mem[p], disk[run[p]], work[p], dispatched, spent)
Filed ==
  \A r \in Runs : disk[r] # None =>
    Sound(disk[r], dispatched, spent) /\ (~limit.routed => disk[r].pending = None)
\* Calls are numbered in the order they are paid for.
Known == \E n \in Nat : dispatched \cup spent = 1..n
Ready == \A p \in Commands : pc[p] = "dispatch" => NextCall \in Calls
\* Every call is settled, or under way, or was when its command crashed.
Kept ==
  \A c \in dispatched \ orphaned :
    \/ \E r \in Runs : disk[r] # None /\ c \in Settled(disk[r])
    \/ \E p \in Commands : pc[p] = "sent" /\ work[p].id = c
Typed1 ==
  /\ DOMAIN mem = Commands /\ DOMAIN disk = Runs /\ DOMAIN work = Commands
  /\ \A p \in Commands : work[p] \in Work
  /\ \A p \in Commands : p \in Alive \/ mem[p] = None
  /\ dispatched \subseteq Calls /\ spent \subseteq Calls /\ orphaned \subseteq Calls

CallsInv == Driven /\ Filed /\ Known /\ Ready /\ Kept /\ Typed1

\* What a save may do to the record in a file.
Grows(old, d) ==
  old # None =>
    /\ d # None
    /\ IsPrefix(old.calls, d.calls) /\ old.history \subseteq d.history
    /\ old.decisions <= d.decisions /\ old.seen <= d.seen
    /\ old.done => d.done
LedgerKept == \A r \in Runs : Grows(disk[r], disk'[r])

\* Entry x of f becomes v, in g.
Put(f, g, S, x, v) == DOMAIN g = S /\ g[x] = v /\ \A y \in S : y # x => g[y] = f[y]

LEMMA PutOne ==
  ASSUME NEW S, NEW f, DOMAIN f = S, NEW x \in S, NEW v, NEW g, g = [f EXCEPT ![x] = v]
  PROVE  Put(f, g, S, x, v)
BY DEF Put

LEMMA PutNothing ==
  ASSUME NEW S, NEW f, DOMAIN f = S, NEW x \in S, NEW g, g = f
  PROVE  Put(f, g, S, x, f[x])
BY DEF Put

-----------------------------------------------------------------------------
(* Numbers and sequences.                                                   *)

LEMMA PrefixOfItself ==
  ASSUME NEW T, NEW s \in Seq(T)
  PROVE  IsPrefix(s, s)
BY DEF IsPrefix

LEMMA PrefixAppended ==
  ASSUME NEW T, NEW s \in Seq(T), NEW x \in T
  PROVE  IsPrefix(s, Append(s, x))
<1>1. PICK n \in Nat : n = Len(s)
  OBVIOUS
<1>2. Append(s, x) \in Seq(T) /\ Len(Append(s, x)) = n + 1 /\ \A i \in 1..n : Append(s, x)[i] = s[i]
  BY <1>1
<1>3. SubSeq(s, 1, n) = SubSeq(Append(s, x), 1, n)
  BY <1>1, <1>2
<1> QED BY <1>1, <1>2, <1>3 DEF IsPrefix

\* What is charged to begin with stays charged.
LEMMA PrefixKeepsIds ==
  ASSUME NEW old \in RunState, NEW d \in RunState, IsPrefix(old.calls, d.calls)
  PROVE  CallIds(old) \subseteq CallIds(d)
<1>0. PICK s, t : s = old.calls /\ t = d.calls
  OBVIOUS
<1>1. s \in Seq(Calls \cup {ByModelName}) /\ t \in Seq(Calls \cup {ByModelName}) /\ IsPrefix(s, t)
  BY <1>0 DEF RunState
<1>2. PICK n \in Nat : n = Len(s)
  BY <1>1
<1>3. n <= Len(t) /\ SubSeq(s, 1, n) = SubSeq(t, 1, n)
  BY <1>1, <1>2 DEF IsPrefix
<1>4. ASSUME NEW i \in DOMAIN s PROVE i \in DOMAIN t /\ t[i] = s[i]
  <2>1. i \in 1..n /\ Len(t) \in Nat
    BY <1>1, <1>2
  <2>2. SubSeq(s, 1, n)[i] = s[i] /\ SubSeq(t, 1, n)[i] = t[i]
    BY <1>1, <1>2, <1>3, <2>1
  <2> QED BY <1>1, <1>3, <2>1, <2>2
<1> QED BY <1>0, <1>4 DEF CallIds

LEMMA GrowsKeepsSettled ==
  ASSUME NEW old \in RunState, NEW d \in RunState, Grows(old, d)
  PROVE  Settled(old) \subseteq Settled(d)
<1>0. old # None
  BY AutoRunAssumption
<1>1. IsPrefix(old.calls, d.calls) /\ old.history \subseteq d.history
  BY <1>0 DEF Grows
<1>2. CallIds(old) \subseteq CallIds(d)
  BY <1>1, PrefixKeepsIds
<1> QED BY <1>1, <1>2 DEF Settled

LEMMA FreshCall ==
  ASSUME Known
  PROVE  /\ NextCall \in Nat \ {0} /\ NextCall \notin dispatched \cup spent
         /\ dispatched \cup spent \cup {NextCall} = 1..NextCall
<1>1. PICK n \in Nat : dispatched \cup spent = 1..n
  BY DEF Known
<1>2. NextCall = n + 1
  <2>1. Cardinality(1..n) = n
    BY FS_Interval
  <2> QED BY <1>1, <2>1 DEF NextCall
<1>3. 1..n \cup {n + 1} = 1..(n + 1) /\ n + 1 \notin 1..n
  OBVIOUS
<1> QED BY <1>1, <1>2, <1>3

\* Later calls take nothing from what is so.
LEMMA SoundLater ==
  ASSUME NEW s, NEW D, NEW S, Sound(s, D, S), NEW E, NEW T, D \subseteq E, S \subseteq T
  PROVE  Sound(s, E, T)
BY DEF Sound

LEMMA CopyLater ==
  ASSUME NEW l, NEW m, NEW d, NEW w, NEW D, NEW S, Copy(l, m, d, w, D, S),
         NEW E, NEW T, D \subseteq E, S \subseteq T
  PROVE  Copy(l, m, d, w, E, T)
<1>1. l = "finish" /\ d # None => Sound(m, E, T)
  BY SoundLater DEF Copy
<1> QED BY <1>1 DEF Copy

-----------------------------------------------------------------------------
(* A step of one command.                                                   *)

\* The calls a step to label l, with loop w, adds.
NewCalls(p, l, w) ==
  /\ dispatched \subseteq dispatched' /\ spent \subseteq spent'
  /\ dispatched' \subseteq dispatched \cup (IF l = "sent" THEN {w.id} ELSE {})
  /\ Known' /\ dispatched' \subseteq Calls /\ spent' \subseteq Calls
  /\ ~UNCHANGED <<dispatched, spent>> => pc[p] \in Driving /\ l # "dispatch"
  /\ l = "dispatch" => NextCall \in Calls

LEMMA NoNewCalls ==
  ASSUME CallsInv, NEW p, NEW l, NEW w, UNCHANGED <<dispatched, spent>>,
         l = "dispatch" => NextCall \in Calls
  PROVE  NewCalls(p, l, w)
<1>1. Known'
  BY DEF CallsInv, Known
<1> QED BY <1>1 DEF NewCalls, CallsInv, Typed1

LEMMA RunStep ==
  ASSUME LeaseInv, CallsInv, NEW p \in Alive, NEW l \in Labels \ Ended, NEW m, NEW d, NEW w \in Work,
         UNCHANGED <<run, limit, orphaned>>,
         Put(pc, pc', Commands, p, l), Put(mem, mem', Commands, p, m),
         Put(disk, disk', Runs, run[p], d), Put(work, work', Commands, p, w),
         NewCalls(p, l, w), Grows(disk[run[p]], d),
         d # None => Sound(d, dispatched', spent') /\ (~limit.routed => d.pending = None),
         Copy(l, m, d, w, dispatched', spent'),
         pc[p] = "sent" => d # None /\ work[p].id \in Settled(d)
  PROVE  CallsInv' /\ LedgerKept
<1>0. /\ p \in Commands /\ run[p] \in Runs /\ \A q \in Alive : q \in Commands /\ run[q] \in Runs
  BY DEF Alive, LeaseInv, RunKnown, Ended
<1>1. /\ pc'[p] = l /\ mem'[p] = m /\ disk'[run[p]] = d /\ work'[p] = w
      /\ \A q \in Commands : q # p => pc'[q] = pc[q] /\ mem'[q] = mem[q] /\ work'[q] = work[q]
      /\ \A r \in Runs : r # run[p] => disk'[r] = disk[r]
      /\ DOMAIN mem' = Commands /\ DOMAIN disk' = Runs /\ DOMAIN work' = Commands
  BY DEF Put
<1>2. Alive' = Alive
  BY <1>0, <1>1 DEF Alive
<1>3. dispatched \subseteq dispatched' /\ spent \subseteq spent'
  BY DEF NewCalls
<1>4. Driven'
  <2>1. ASSUME NEW q \in Alive
        PROVE  Copy(pc'[q], mem'[q], disk'[run[q]], work'[q], dispatched', spent')
    <3>1. CASE q = p
      BY <1>1, <3>1
    <3>2. CASE q # p
      <4>1. run[q] # run[p]
        BY <3>2 DEF CallsInv, Driven
      <4>2. pc'[q] = pc[q] /\ mem'[q] = mem[q] /\ work'[q] = work[q] /\ disk'[run[q]] = disk[run[q]]
        BY <1>0, <1>1, <3>2, <4>1
      <4>3. Copy(pc[q], mem[q], disk[run[q]], work[q], dispatched, spent)
        BY DEF CallsInv, Driven
      <4>4. Copy(pc[q], mem[q], disk[run[q]], work[q], dispatched', spent')
        BY <1>3, <4>3, CopyLater
      <4> QED BY <4>2, <4>4
    <3> QED BY <3>1, <3>2
  <2>2. \A a, b \in Alive : run[a] = run[b] => a = b
    BY DEF CallsInv, Driven
  <2> QED BY <1>2, <2>1, <2>2 DEF Driven
<1>5. Filed'
  <2> SUFFICES ASSUME NEW r \in Runs, disk'[r] # None
               PROVE  Sound(disk'[r], dispatched', spent') /\ (~limit.routed => disk'[r].pending = None)
    BY DEF Filed
  <2>1. CASE r = run[p]
    BY <1>1, <2>1
  <2>2. CASE r # run[p]
    <3>1. disk'[r] = disk[r]
      BY <1>1, <2>2
    <3>2. Sound(disk[r], dispatched, spent) /\ (~limit.routed => disk[r].pending = None)
      BY <3>1 DEF CallsInv, Filed
    <3>3. Sound(disk[r], dispatched', spent')
      BY <1>3, <3>2, SoundLater
    <3> QED BY <3>1, <3>2, <3>3
  <2> QED BY <2>1, <2>2
<1>6. LedgerKept
  <2> SUFFICES ASSUME NEW r \in Runs PROVE Grows(disk[r], disk'[r])
    BY DEF LedgerKept
  <2>1. CASE r = run[p]
    BY <1>1, <2>1
  <2>2. CASE r # run[p]
    <3>1. disk'[r] = disk[r]
      BY <1>1, <2>2
    <3>2. disk[r] # None => disk[r] \in RunState
      BY DEF CallsInv, Filed, Sound
    <3>3. disk[r] # None => IsPrefix(disk[r].calls, disk[r].calls)
                            /\ disk[r].decisions \in Nat /\ disk[r].seen \in Nat
      BY <3>2, PrefixOfItself DEF RunState
    <3> QED BY <3>1, <3>3 DEF Grows
  <2> QED BY <2>1, <2>2
<1>7. Known'
  BY DEF NewCalls
<1>8. Ready'
  <2> SUFFICES ASSUME NEW q \in Commands, pc'[q] = "dispatch" PROVE NextCall' \in Calls
    BY DEF Ready
  <2>1. CASE UNCHANGED <<dispatched, spent>>
    <3>1. NextCall' = NextCall
      BY <2>1 DEF NextCall
    <3>2. q # p => pc[q] = "dispatch"
      BY <1>1
    <3> QED BY <1>1, <3>1, <3>2 DEF CallsInv, Ready, NewCalls
  <2>2. CASE ~UNCHANGED <<dispatched, spent>>
    <3>1. pc[p] \in Driving /\ q # p /\ pc[q] = "dispatch"
      BY <1>0, <1>1, <2>2 DEF NewCalls
    <3>2. limit.routed
      BY <3>1 DEF LeaseInv, UnroutedIsFree, Unrouted
    <3> QED BY <1>0, <3>1, <3>2 DEF LeaseInv, OneRunDrives, Driving
  <2> QED BY <2>1, <2>2
<1>9. Kept'
  <2> SUFFICES ASSUME NEW c \in dispatched' \ orphaned
               PROVE  \/ \E r \in Runs : disk'[r] # None /\ c \in Settled(disk'[r])
                      \/ \E q \in Commands : pc'[q] = "sent" /\ work'[q].id = c
    BY DEF Kept
  <2>1. CASE c \notin dispatched
    <3>1. l = "sent" /\ c = w.id
      BY <2>1 DEF NewCalls
    <3> QED BY <1>0, <1>1, <3>1
  <2>2. ASSUME NEW r \in Runs, disk[r] # None, c \in Settled(disk[r])
        PROVE  disk'[r] # None /\ c \in Settled(disk'[r])
    <3>1. Grows(disk[r], disk'[r]) /\ disk[r] \in RunState
      BY <1>6, <2>2 DEF LedgerKept, CallsInv, Filed, Sound
    <3>2. disk'[r] # None
      BY <2>2, <3>1 DEF Grows
    <3>3. disk'[r] \in RunState
      BY <1>5, <3>2 DEF Filed, Sound
    <3> QED BY <2>2, <3>1, <3>2, <3>3, GrowsKeepsSettled
  <2>3. ASSUME NEW q \in Commands, pc[q] = "sent", work[q].id = c
        PROVE  \/ \E r \in Runs : disk'[r] # None /\ c \in Settled(disk'[r])
               \/ pc'[q] = "sent" /\ work'[q].id = c
    <3>1. CASE q = p
      BY <1>0, <1>1, <2>3, <3>1
    <3>2. CASE q # p
      BY <1>1, <2>3, <3>2
    <3> QED BY <3>1, <3>2
  <2>4. CASE c \in dispatched
    <3>1. \/ \E r \in Runs : disk[r] # None /\ c \in Settled(disk[r])
          \/ \E q \in Commands : pc[q] = "sent" /\ work[q].id = c
      BY <2>4 DEF CallsInv, Kept
    <3> QED BY <2>2, <2>3, <3>1
  <2> QED BY <2>1, <2>4
<1>10. Typed1'
  <2>1. \A q \in Commands : work'[q] \in Work
    BY <1>1 DEF CallsInv, Typed1
  <2>2. \A q \in Commands : q \in Alive \/ mem'[q] = None
    BY <1>1 DEF CallsInv, Typed1
  <2> QED BY <1>1, <1>2, <2>1, <2>2 DEF Typed1, CallsInv, NewCalls
<1> QED BY <1>4, <1>5, <1>6, <1>7, <1>8, <1>9, <1>10 DEF CallsInv

-----------------------------------------------------------------------------
(* A command begins and ends.                                               *)

LEMMA NewRecord ==
  ASSUME NEW t \in Tasks, NEW D, NEW S
  PROVE  LET s == CreateRunState(t)
         IN  Sound(s, D, S) /\ Unpaid(s) /\ s # None /\ CallIds(s) = {}
<1> DEFINE s == CreateRunState(t)
<1>1. s \in RunState
  BY DEF CreateRunState, RunState, Phases
<1>2. s.calls = << >> /\ s.history = {} /\ s.pending = None /\ s.cycles = 0 /\ ~s.done
  BY DEF CreateRunState
<1> HIDE DEF s
<1>3. CallIds(s) = {} /\ IsInjective(s.calls)
  BY <1>2 DEF CallIds, IsInjective
<1>4. Bounded(s)
  BY <1>2, AutoRunAssumption DEF Bounded
<1>5. Sound(s, D, S)
  BY <1>1, <1>2, <1>3, <1>4 DEF Sound
<1>6. s # None
  BY <1>1, AutoRunAssumption
<1>7. Unpaid(s)
  BY <1>2 DEF Unpaid
<1> QED BY <1>3, <1>5, <1>6, <1>7 DEF s

\* A command takes a run that no live command drives, and makes the copy it will work on.
LEMMA BeginRun ==
  ASSUME LeaseInv, CallsInv, NEW p \in Commands, pc[p] = "new", NEW r \in Runs,
         \A q \in Alive : run[q] # r, NEW l \in {"classify", "check"}, NEW m, NEW d,
         UNCHANGED <<work, dispatched, spent, orphaned, limit>>,
         Put(pc, pc', Commands, p, l), Put(mem, mem', Commands, p, m), Put(run, run', Commands, p, r),
         Put(disk, disk', Runs, r, d), Grows(disk[r], d),
         d # None => Sound(d, dispatched, spent) /\ (~limit.routed => d.pending = None),
         Copy(l, m, d, work[p], dispatched, spent)
  PROVE  CallsInv' /\ LedgerKept
<1>1. /\ pc'[p] = l /\ mem'[p] = m /\ disk'[r] = d /\ run'[p] = r
      /\ \A q \in Commands : q # p => pc'[q] = pc[q] /\ mem'[q] = mem[q] /\ run'[q] = run[q]
      /\ \A x \in Runs : x # r => disk'[x] = disk[x]
      /\ DOMAIN mem' = Commands /\ DOMAIN disk' = Runs
  BY DEF Put
<1>2. Alive' = Alive \cup {p} /\ p \notin Alive /\ \A q \in Alive : q \in Commands /\ run[q] \in Runs
  BY <1>1 DEF Alive, Ended, LeaseInv, RunKnown
<1>3. Driven'
  <2>1. \A q \in Alive : Copy(pc'[q], mem'[q], disk'[run'[q]], work[q], dispatched, spent)
    BY <1>1, <1>2 DEF CallsInv, Driven
  <2>2. \A a, b \in Alive \cup {p} : run'[a] = run'[b] => a = b
    BY <1>1, <1>2 DEF CallsInv, Driven
  <2>3. Copy(pc'[p], mem'[p], disk'[run'[p]], work[p], dispatched, spent)
    BY <1>1
  <2> QED BY <1>2, <2>1, <2>2, <2>3 DEF Driven
<1>4. Filed'
  BY <1>1 DEF CallsInv, Filed
<1>5. LedgerKept
  <2> SUFFICES ASSUME NEW x \in Runs PROVE Grows(disk[x], disk'[x])
    BY DEF LedgerKept
  <2>1. CASE x = r
    BY <1>1, <2>1
  <2>2. CASE x # r
    <3>1. disk'[x] = disk[x]
      BY <1>1, <2>2
    <3>2. disk[x] # None => disk[x] \in RunState
      BY DEF CallsInv, Filed, Sound
    <3>3. disk[x] # None => IsPrefix(disk[x].calls, disk[x].calls)
                            /\ disk[x].decisions \in Nat /\ disk[x].seen \in Nat
      BY <3>2, PrefixOfItself DEF RunState
    <3> QED BY <3>1, <3>3 DEF Grows
  <2> QED BY <2>1, <2>2
<1>6. Known' /\ Ready'
  <2>1. NextCall' = NextCall
    BY DEF NextCall
  <2>2. \A q \in Commands : pc'[q] = "dispatch" => pc[q] = "dispatch"
    BY <1>1
  <2> QED BY <2>1, <2>2 DEF CallsInv, Known, Ready
<1>7. Kept'
  <2> SUFFICES ASSUME NEW c \in dispatched \ orphaned
               PROVE  \/ \E x \in Runs : disk'[x] # None /\ c \in Settled(disk'[x])
                      \/ \E q \in Commands : pc'[q] = "sent" /\ work[q].id = c
    BY DEF Kept
  <2>1. ASSUME NEW x \in Runs, disk[x] # None, c \in Settled(disk[x])
        PROVE  disk'[x] # None /\ c \in Settled(disk'[x])
    <3>1. Grows(disk[x], disk'[x]) /\ disk[x] \in RunState
      BY <1>5, <2>1 DEF LedgerKept, CallsInv, Filed, Sound
    <3>2. disk'[x] # None
      BY <2>1, <3>1 DEF Grows
    <3>3. disk'[x] \in RunState
      BY <1>4, <3>2 DEF Filed, Sound
    <3> QED BY <2>1, <3>1, <3>2, <3>3, GrowsKeepsSettled
  <2>2. \A q \in Commands : pc[q] = "sent" => pc'[q] = "sent"
    BY <1>1
  <2>3. \/ \E x \in Runs : disk[x] # None /\ c \in Settled(disk[x])
        \/ \E q \in Commands : pc[q] = "sent" /\ work[q].id = c
    BY DEF CallsInv, Kept
  <2> QED BY <2>1, <2>2, <2>3
<1>8. Typed1'
  <2>1. \A q \in Commands : q \in Alive' \/ mem'[q] = None
    BY <1>1, <1>2 DEF CallsInv, Typed1
  <2> QED BY <1>1, <2>1 DEF CallsInv, Typed1
<1> QED BY <1>3, <1>4, <1>5, <1>6, <1>7, <1>8 DEF CallsInv

LEMMA BeginKeepsCalls ==
  ASSUME LeaseInv, CallsInv, ~ResumeLive, NEW p \in Commands, Begin(p)
  PROVE  CallsInv' /\ LedgerKept
<1>0. /\ DOMAIN pc = Commands /\ DOMAIN mem = Commands /\ DOMAIN run = Commands /\ DOMAIN disk = Runs
      /\ \A r \in limit.runs : r \in Runs
      /\ limit.preflight => limit.routed
  BY AutoRunAssumption DEF LeaseInv, Shape, CallsInv, Typed1
<1>1. ASSUME NEW r \in Runs, NEW t \in limit.tasks, t \in Tasks, RunTask(p, r, t)
      PROVE  CallsInv' /\ LedgerKept
  <2> DEFINE s == CreateRunState(t)
  <2>1. Sound(s, dispatched, spent) /\ Unpaid(s) /\ s # None /\ CallIds(s) = {}
    BY <1>1, NewRecord
  <2>2. /\ pc[p] = "new" /\ disk[r] = None /\ \A q \in Alive : run[q] # r
        /\ run' = [run EXCEPT ![p] = r] /\ mem' = [mem EXCEPT ![p] = s] /\ disk' = [disk EXCEPT ![r] = s]
        /\ pc' = [pc EXCEPT ![p] = "classify"]
        /\ UNCHANGED <<work, dispatched, spent, orphaned, limit>>
    BY <1>1 DEF RunTask, Open, Typed, Goto
  <2> HIDE DEF s
  <2>3. /\ Put(pc, pc', Commands, p, "classify") /\ Put(mem, mem', Commands, p, s)
        /\ Put(run, run', Commands, p, r) /\ Put(disk, disk', Runs, r, s)
    BY <1>0, <2>2, PutOne
  <2>4. Copy("classify", s, s, work[p], dispatched, spent)
    BY <2>1 DEF Copy, Sound, Unpaid, Looping
  <2>5. Grows(disk[r], s) /\ s.pending = None
    BY <2>1, <2>2 DEF Grows, Unpaid
  <2> QED BY <2>1, <2>2, <2>3, <2>4, <2>5, BeginRun
<1>2. ASSUME NEW r \in Runs, ResumeTask(p, r)
      PROVE  CallsInv' /\ LedgerKept
  <2> DEFINE s == disk[r]
  <2>1. /\ pc[p] = "new" /\ s # None /\ ~s.done /\ \A q \in Alive : run[q] # r
        /\ run' = [run EXCEPT ![p] = r] /\ mem' = [mem EXCEPT ![p] = s] /\ disk' = [disk EXCEPT ![r] = s]
        /\ pc' = [pc EXCEPT ![p] = "classify"]
        /\ UNCHANGED <<work, dispatched, spent, orphaned, limit>>
    BY <1>2 DEF ResumeTask, Open, Typed, Goto
  <2>2. Sound(s, dispatched, spent) /\ (~limit.routed => s.pending = None)
    BY <2>1 DEF CallsInv, Filed
  <2>3. PICK f : f = s
    OBVIOUS
  <2>4. /\ Put(pc, pc', Commands, p, "classify") /\ Put(mem, mem', Commands, p, f)
        /\ Put(run, run', Commands, p, r) /\ Put(disk, disk', Runs, r, f)
    <3> HIDE DEF s
    <3> QED BY <1>0, <2>1, <2>3, PutOne
  <2>5. Copy("classify", f, f, work[p], dispatched, spent)
    BY <2>1, <2>2, <2>3 DEF Copy, Sound, Looping
  <2>6. Grows(disk[r], f)
    <3>1. f \in RunState
      BY <2>2, <2>3 DEF Sound
    <3>2. IsPrefix(f.calls, f.calls) /\ f.decisions \in Nat /\ f.seen \in Nat
      BY <3>1, PrefixOfItself DEF RunState
    <3> QED BY <2>1, <2>3, <3>2 DEF Grows
  <2> QED BY <2>1, <2>2, <2>3, <2>4, <2>5, <2>6, BeginRun
<1>3. ASSUME NEW r \in Runs, RunPreflight(p, r), limit.tasks \subseteq Tasks
      PROVE  CallsInv' /\ LedgerKept
  <2>1. PICK t \in Tasks : mem' = [mem EXCEPT ![p] = CreateRunState(t)]
    BY <1>3 DEF RunPreflight
  <2> DEFINE s == CreateRunState(t)
  <2>2. Sound(s, dispatched, spent) /\ Unpaid(s) /\ s # None /\ CallIds(s) = {}
    BY NewRecord
  <2>3. /\ pc[p] = "new" /\ disk[r] = None /\ \A q \in Alive : run[q] # r
        /\ run' = [run EXCEPT ![p] = r] /\ pc' = [pc EXCEPT ![p] = "check"]
        /\ UNCHANGED <<disk, work, dispatched, spent, orphaned, limit>>
    BY <1>3 DEF RunPreflight, Typed, Goto
  <2>4. mem' = [mem EXCEPT ![p] = s]
    BY <2>1
  <2> HIDE DEF s
  <2>5. /\ Put(pc, pc', Commands, p, "check") /\ Put(mem, mem', Commands, p, s)
        /\ Put(run, run', Commands, p, r)
    BY <1>0, <2>3, <2>4, PutOne
  <2>6. Put(disk, disk', Runs, r, None)
    BY <1>0, <2>3 DEF Put
  <2>7. Copy("check", s, None, work[p], dispatched, spent)
    BY <2>2 DEF Copy, Sound
  <2>8. Grows(disk[r], None)
    BY <2>3 DEF Grows
  <2> QED BY <2>3, <2>5, <2>6, <2>7, <2>8, BeginRun
<1>4. limit.tasks \subseteq Tasks
  BY AutoRunAssumption DEF LeaseInv, Shape
<1>5. PICK r \in limit.runs :
        (\E t \in limit.tasks : RunTask(p, r, t)) \/ ResumeTask(p, r) \/ RunPreflight(p, r)
  BY DEF Begin
<1> QED BY <1>0, <1>1, <1>2, <1>3, <1>4, <1>5

\* A command ends, with what only it knows of the calls under way.
LEMMA EndRun ==
  ASSUME LeaseInv, CallsInv, NEW p \in Alive, NEW l \in {"gone", "crashed"},
         Leave(p, l), orphaned' = orphaned \cup (IF l = "crashed" THEN Unsaved(p) ELSE {}),
         pc[p] = "sent" => l = "crashed"
  PROVE  CallsInv' /\ LedgerKept
<1>0. /\ p \in Commands /\ run[p] \in Runs /\ \A q \in Alive : q \in Commands /\ run[q] \in Runs
      /\ DOMAIN pc = Commands /\ DOMAIN mem = Commands /\ DOMAIN work = Commands
  BY DEF Alive, LeaseInv, RunKnown, Ended, Shape, CallsInv, Typed1
<1>1. /\ UNCHANGED <<run, disk, dispatched, spent, limit>>
      /\ pc'[p] = l /\ mem'[p] = None /\ work'[p] = FirstLoop
      /\ \A q \in Commands : q # p => pc'[q] = pc[q] /\ mem'[q] = mem[q] /\ work'[q] = work[q]
      /\ DOMAIN mem' = Commands /\ DOMAIN work' = Commands
  BY <1>0 DEF Leave, Goto
<1>2. Alive' = Alive \ {p}
  BY <1>0, <1>1 DEF Alive, Ended
<1>3. Driven'
  <2>1. \A q \in Alive \ {p} : Copy(pc'[q], mem'[q], disk[run[q]], work'[q], dispatched, spent)
    BY <1>0, <1>1 DEF CallsInv, Driven
  <2> QED BY <1>1, <1>2, <2>1 DEF CallsInv, Driven
<1>4. Filed' /\ Known'
  BY <1>1 DEF CallsInv, Filed, Known
<1>5. LedgerKept
  <2> SUFFICES ASSUME NEW r \in Runs PROVE Grows(disk[r], disk[r])
    BY <1>1 DEF LedgerKept
  <2>1. disk[r] # None => disk[r] \in RunState
    BY DEF CallsInv, Filed, Sound
  <2>2. disk[r] # None => IsPrefix(disk[r].calls, disk[r].calls)
                          /\ disk[r].decisions \in Nat /\ disk[r].seen \in Nat
    BY <2>1, PrefixOfItself DEF RunState
  <2> QED BY <2>2 DEF Grows
<1>6. Ready'
  <2>1. NextCall' = NextCall
    BY <1>1 DEF NextCall
  <2>2. \A q \in Commands : pc'[q] = "dispatch" => pc[q] = "dispatch"
    BY <1>1
  <2> QED BY <2>1, <2>2 DEF CallsInv, Ready
<1>c. Copy(pc[p], mem[p], disk[run[p]], work[p], dispatched, spent)
  BY DEF CallsInv, Driven
<1>7. Kept'
  <2> SUFFICES ASSUME NEW c \in dispatched \ orphaned'
               PROVE  \/ \E r \in Runs : disk[r] # None /\ c \in Settled(disk[r])
                      \/ \E q \in Commands : pc'[q] = "sent" /\ work'[q].id = c
    BY <1>1 DEF Kept
  <2>1. \/ \E r \in Runs : disk[r] # None /\ c \in Settled(disk[r])
        \/ \E q \in Commands : pc[q] = "sent" /\ work[q].id = c
    BY DEF CallsInv, Kept
  <2>2. ~(pc[p] = "sent" /\ work[p].id = c)
    <3> SUFFICES ASSUME pc[p] = "sent", work[p].id = c PROVE FALSE
      OBVIOUS
    <3>1. disk[run[p]] # None
      BY <1>c DEF Copy
    <3>2. c \in Unsaved(p)
      BY <3>1 DEF Unsaved, InFlight
    <3> QED BY <3>2
  <2> QED BY <1>1, <2>1, <2>2
<1>8. Typed1'
  <2>1. FirstLoop \in Work
    BY DEF FirstLoop, Work
  <2>2. Unsaved(p) \subseteq Calls
    <3>1. CallIds(mem[p]) \subseteq Calls
      BY <1>c DEF Copy, CallsInv, Typed1
    <3>2. disk[run[p]] # None => InFlight(p) \subseteq Calls
      BY <1>c DEF Copy, InFlight, CallsInv, Typed1
    <3> QED BY <3>1, <3>2 DEF Unsaved
  <2>3. \A q \in Commands : work'[q] \in Work /\ (q \in Alive' \/ mem'[q] = None)
    BY <1>1, <1>2, <2>1 DEF CallsInv, Typed1
  <2>4. orphaned' \subseteq Calls
    BY <2>2 DEF CallsInv, Typed1
  <2> QED BY <1>1, <2>3, <2>4 DEF CallsInv, Typed1
<1> QED BY <1>3, <1>4, <1>5, <1>6, <1>7, <1>8 DEF CallsInv

LEMMA EndKeepsCalls ==
  ASSUME LeaseInv, CallsInv, NEW p \in Commands, Release(p) \/ GiveUp(p) \/ Crash(p)
  PROVE  CallsInv' /\ LedgerKept
<1>1. p \in Alive
  BY DEF Release, GiveUp, Crash, Alive, Ended
<1>2. CASE Release(p) \/ GiveUp(p)
  <2>1. Leave(p, "gone") /\ orphaned' = orphaned /\ pc[p] # "sent"
    BY <1>2 DEF Release, GiveUp
  <2> QED BY <1>1, <2>1, EndRun
<1>3. CASE Crash(p)
  <2>1. Leave(p, "crashed") /\ orphaned' = orphaned \cup Unsaved(p)
    BY <1>3 DEF Crash
  <2> QED BY <1>1, <2>1, EndRun
<1> QED BY <1>2, <1>3

-----------------------------------------------------------------------------
(* What a command does between its loops.                                   *)

\* What is known of a command that runs.
LEMMA Here ==
  ASSUME LeaseInv, CallsInv, NEW p \in Commands, pc[p] \notin Ended
  PROVE  /\ p \in Alive /\ run[p] \in Runs /\ pc[p] \in Labels /\ work[p] \in Work
         /\ DOMAIN pc = Commands /\ DOMAIN mem = Commands /\ DOMAIN work = Commands
         /\ DOMAIN disk = Runs
         /\ Copy(pc[p], mem[p], disk[run[p]], work[p], dispatched, spent)
         /\ disk[run[p]] # None => /\ Sound(disk[run[p]], dispatched, spent)
                                   /\ ~limit.routed => disk[run[p]].pending = None
BY DEF LeaseInv, Shape, RunKnown, CallsInv, Typed1, Driven, Filed, Alive, Ended

LEMMA GrowsItself ==
  ASSUME NEW d \in RunState \cup {None}
  PROVE  Grows(d, d)
<1> SUFFICES ASSUME d # None PROVE Grows(d, d)
  BY DEF Grows
<1>1. d.calls \in Seq(Calls \cup {ByModelName}) /\ d.decisions \in Nat /\ d.seen \in Nat
  BY DEF RunState
<1>2. IsPrefix(d.calls, d.calls)
  BY <1>1, PrefixOfItself
<1> QED BY <1>1, <1>2 DEF Grows

\* The command goes on; its copy and the files stay as they are.
LEMMA GoOn ==
  ASSUME LeaseInv, CallsInv, NEW p \in Commands, pc[p] \notin Ended, NEW l \in Labels \ Ended,
         UNCHANGED <<run, work, disk, dispatched, spent, orphaned, limit>>,
         mem' = [mem EXCEPT ![p] = mem[p]] \/ mem' = mem,
         pc' = [pc EXCEPT ![p] = l], pc[p] # "sent", l # "dispatch",
         Copy(l, mem[p], disk[run[p]], work[p], dispatched, spent)
  PROVE  CallsInv' /\ LedgerKept
<1>1. /\ p \in Alive /\ run[p] \in Runs /\ work[p] \in Work
      /\ DOMAIN pc = Commands /\ DOMAIN mem = Commands /\ DOMAIN work = Commands /\ DOMAIN disk = Runs
      /\ disk[run[p]] # None => /\ Sound(disk[run[p]], dispatched, spent)
                                /\ ~limit.routed => disk[run[p]].pending = None
  BY Here
<1>2. /\ Put(pc, pc', Commands, p, l) /\ Put(mem, mem', Commands, p, mem[p])
      /\ Put(disk, disk', Runs, run[p], disk[run[p]]) /\ Put(work, work', Commands, p, work[p])
  BY <1>1, PutOne, PutNothing
<1>3. Grows(disk[run[p]], disk[run[p]])
  BY <1>1, GrowsItself DEF Sound
<1>4. NewCalls(p, l, work[p])
  BY NoNewCalls
<1> QED BY <1>1, <1>2, <1>3, <1>4, RunStep

\* The copy goes its own way until it is saved in the end.
LEMMA KeepForFinish ==
  ASSUME LeaseInv, CallsInv, NEW p \in Commands, pc[p] \notin Ended, pc[p] # "sent", NEW s,
         Remember(p, s, "finish"), disk[run[p]] # None, SameLedger(s, disk[run[p]]),
         Sound(s, dispatched, spent), IsPrefix(disk[run[p]].calls, s.calls), disk[run[p]].done => s.done
  PROVE  CallsInv' /\ LedgerKept
<1>1. /\ p \in Alive /\ run[p] \in Runs /\ work[p] \in Work
      /\ DOMAIN pc = Commands /\ DOMAIN mem = Commands /\ DOMAIN work = Commands /\ DOMAIN disk = Runs
      /\ Sound(disk[run[p]], dispatched, spent) /\ (~limit.routed => disk[run[p]].pending = None)
  BY Here
<1>2. /\ pc' = [pc EXCEPT ![p] = "finish"] /\ mem' = [mem EXCEPT ![p] = s]
      /\ UNCHANGED <<run, work, disk, dispatched, spent, orphaned, limit>>
  BY DEF Remember, Goto
<1>3. /\ Put(pc, pc', Commands, p, "finish") /\ Put(mem, mem', Commands, p, s)
      /\ Put(disk, disk', Runs, run[p], disk[run[p]]) /\ Put(work, work', Commands, p, work[p])
  BY <1>1, <1>2, PutOne, PutNothing
<1>4. Grows(disk[run[p]], disk[run[p]])
  BY <1>1, GrowsItself DEF Sound
<1>5. NewCalls(p, "finish", work[p])
  BY <1>2, NoNewCalls
<1>6. Copy("finish", s, disk[run[p]], work[p], dispatched, spent)
  BY DEF Copy, Sound, Synced, Looping
<1>7. "finish" \in Labels \ Ended
  BY DEF Labels, Ended
<1>8. UNCHANGED <<run, limit, orphaned, dispatched, spent>>
  BY <1>2
<1> QED BY <1>1, <1>3, <1>4, <1>5, <1>6, <1>7, <1>8, RunStep

\* The copy replaces the file.
LEMMA SaveKeeps ==
  ASSUME LeaseInv, CallsInv, NEW p \in Commands, pc[p] \notin Ended, pc[p] # "sent", NEW s, NEW l, NEW w \in Work,
         SaveRunState(p, s, l), Put(work, work', Commands, p, w), l \in {"check", "drive", "finish", "release"},
         disk[run[p]] # None, SameLedger(s, disk[run[p]]), Sound(s, dispatched, spent),
         IsPrefix(disk[run[p]].calls, s.calls), disk[run[p]].done => s.done,
         s.done => l \in {"finish", "release"}
  PROVE  CallsInv' /\ LedgerKept
<1>1. /\ p \in Alive /\ run[p] \in Runs
      /\ DOMAIN pc = Commands /\ DOMAIN mem = Commands /\ DOMAIN work = Commands /\ DOMAIN disk = Runs
      /\ Sound(disk[run[p]], dispatched, spent) /\ (~limit.routed => disk[run[p]].pending = None)
  BY Here
<1>2. /\ pc' = [pc EXCEPT ![p] = l] /\ mem' = [mem EXCEPT ![p] = s]
      /\ disk' = [disk EXCEPT ![run[p]] = s]
      /\ UNCHANGED <<run, dispatched, spent, orphaned, limit>>
  BY DEF SaveRunState, Goto
<1>3. /\ Put(pc, pc', Commands, p, l) /\ Put(mem, mem', Commands, p, s)
      /\ Put(disk, disk', Runs, run[p], s) /\ Put(work, work', Commands, p, w)
  BY <1>1, <1>2, PutOne
<1>4. s \in RunState /\ s # None
  BY AutoRunAssumption DEF Sound
<1>5. Grows(disk[run[p]], s)
  <2>1. s.decisions \in Nat /\ s.seen \in Nat
    BY <1>4 DEF RunState
  <2> QED BY <1>4, <2>1 DEF Grows, SameLedger
<1>6. NewCalls(p, l, w)
  BY <1>2, NoNewCalls
<1>7. Copy(l, s, s, w, dispatched, spent)
  <2>1. IsPrefix(s.calls, s.calls)
    BY <1>4, PrefixOfItself DEF RunState
  <2> QED BY <1>4, <2>1 DEF Copy, Sound, Synced, Looping, SameLedger
<1>8. l \in Labels \ Ended
  BY DEF Labels, Ended
<1>9. Sound(s, dispatched', spent') /\ (~limit.routed => s.pending = None)
  BY <1>1, <1>2 DEF SameLedger
<1>10. Copy(l, s, s, w, dispatched', spent')
  BY <1>2, <1>7
<1>11. UNCHANGED <<run, limit, orphaned>>
  BY <1>2
<1> QED BY <1>1, <1>3, <1>5, <1>6, <1>8, <1>9, <1>10, <1>11, RunStep

\* Another phase of the same record.
Rephased(s, t) == t \in RunState /\ SameLedger(t, s) /\ t.calls = s.calls /\ (s.done => t.done)

LEMMA RephasedIsSound ==
  ASSUME NEW s, NEW D, NEW S, Sound(s, D, S), NEW t, Rephased(s, t), Bounded(t),
         \/ t.phase = s.phase
         \/ t.phase \in Implementing \cup {"STOPPED"}
         \/ s.pending # None => s.pending.id \in D
  PROVE  Sound(t, D, S)
BY DEF Sound, Rephased, SameLedger, CallIds

LEMMA StoppedIsSound ==
  ASSUME NEW s, NEW D, NEW S, s \in RunState,
         NEW d, Sound(d, D, S), SameLedger(s, d), IsInjective(s.calls), CallIds(s) \subseteq D \cup S,
         s.pending # None => s.pending.id \notin CallIds(s),
         s.cycles <= MaxRepairCycles + 1
  PROVE  Sound(Stopped(s), D, S) /\ SameLedger(Stopped(s), d) /\ Stopped(s).calls = s.calls
         /\ Stopped(s).done
<1> DEFINE t == Stopped(s)
<1>1. t \in RunState
  BY DEF Stopped, RunState, Phases
<1>2. /\ t.calls = s.calls /\ t.history = s.history /\ t.pending = s.pending /\ t.decisions = s.decisions
      /\ t.seen = s.seen /\ t.cycles = s.cycles /\ t.phase = "STOPPED" /\ t.done
  BY DEF Stopped, RunState
<1> HIDE DEF t
<1>3. Bounded(t)
  <2>1. s.cycles \in Nat /\ MaxRepairCycles \in Nat
    BY AutoRunAssumption DEF RunState
  <2> QED BY <1>2, <2>1 DEF Bounded, Implementing
<1>4. SameLedger(t, d)
  BY <1>2 DEF SameLedger
<1>5. CallIds(t) = CallIds(s)
  BY <1>2 DEF CallIds
<1>6. Sound(t, D, S)
  BY <1>1, <1>2, <1>3, <1>4, <1>5 DEF Sound, SameLedger
<1> QED BY <1>2, <1>4, <1>6 DEF t

LEMMA BoundedCycles ==
  ASSUME NEW s, NEW D, NEW S, Sound(s, D, S)
  PROVE  s.cycles \in Nat /\ s.cycles <= MaxRepairCycles + 1
<1>1. s.cycles \in Nat /\ MaxRepairCycles \in Nat
  BY AutoRunAssumption DEF Sound, RunState
<1> QED BY <1>1 DEF Sound, Bounded

\* A run stops where its copy is that of the file.
LEMMA StopKeeps ==
  ASSUME LeaseInv, CallsInv, NEW p \in Commands,
         pc[p] \in {"classify", "check", "create", "baseline", "drive", "grant"},
         disk[run[p]] # None, Stop(p)
  PROVE  CallsInv' /\ LedgerKept
<1> DEFINE d == disk[run[p]]
<1>1. pc[p] \notin Ended /\ pc[p] # "sent"
  BY DEF Ended
<1>2. Copy(pc[p], mem[p], d, work[p], dispatched, spent) /\ Sound(d, dispatched, spent)
  BY <1>1, Here
<1>3. SameLedger(mem[p], d) /\ mem[p].calls = d.calls /\ mem[p].cycles = d.cycles /\ mem[p] \in RunState
  BY <1>2 DEF Copy, Synced, SameLedger, InLoop
<1>4. /\ Sound(Stopped(mem[p]), dispatched, spent) /\ SameLedger(Stopped(mem[p]), d)
      /\ Stopped(mem[p]).calls = d.calls /\ Stopped(mem[p]).done
  <2>1. d.cycles <= MaxRepairCycles + 1
    BY <1>2, BoundedCycles
  <2>2. CallIds(mem[p]) = CallIds(d)
    BY <1>3 DEF CallIds
  <2>3. IsInjective(mem[p].calls) /\ CallIds(mem[p]) \subseteq dispatched \cup spent
        /\ (mem[p].pending # None => mem[p].pending.id \notin CallIds(mem[p]))
    BY <1>2, <1>3, <2>2 DEF Sound, SameLedger
  <2> QED BY <1>2, <1>3, <2>1, <2>3, StoppedIsSound
<1>5. IsPrefix(d.calls, d.calls)
  BY <1>2, PrefixOfItself DEF Sound, RunState
<1>6. Remember(p, Stopped(mem[p]), "finish")
  BY DEF Stop
<1> HIDE DEF d
<1>7. d = disk[run[p]]
  BY DEF d
<1> QED BY <1>1, <1>4, <1>5, <1>6, <1>7, KeepForFinish

LEMMA PhaseChanged ==
  ASSUME NEW s \in RunState, NEW x \in Phases
  PROVE  LET t == [s EXCEPT !.phase = x]
         IN  Rephased(s, t) /\ t.phase = x /\ t.cycles = s.cycles /\ t.next = s.next
             /\ (t.done <=> s.done)
<1> DEFINE t == [s EXCEPT !.phase = x]
<1>1. t \in RunState
  BY DEF RunState
<1>2. /\ t.calls = s.calls /\ t.history = s.history /\ t.pending = s.pending
      /\ t.decisions = s.decisions /\ t.seen = s.seen /\ t.done = s.done
      /\ t.phase = x /\ t.cycles = s.cycles /\ t.next = s.next
  BY DEF RunState
<1> HIDE DEF t
<1>3. Rephased(s, t)
  BY <1>1, <1>2 DEF Rephased, SameLedger
<1> QED BY <1>2, <1>3 DEF t

LEMMA RunDone ==
  ASSUME NEW s \in RunState
  PROVE  LET t == [s EXCEPT !.phase = "DONE", !.done = TRUE]
         IN  Rephased(s, t) /\ t.phase = "DONE" /\ t.cycles = s.cycles /\ t.done
<1> DEFINE t == [s EXCEPT !.phase = "DONE", !.done = TRUE]
<1>1. t \in RunState
  BY DEF RunState, Phases
<1>2. /\ t.calls = s.calls /\ t.history = s.history /\ t.pending = s.pending
      /\ t.decisions = s.decisions /\ t.seen = s.seen /\ t.done
      /\ t.phase = "DONE" /\ t.cycles = s.cycles
  BY DEF RunState
<1> HIDE DEF t
<1>3. Rephased(s, t)
  BY <1>1, <1>2 DEF Rephased, SameLedger
<1> QED BY <1>2, <1>3 DEF t

LEMMA Repaired ==
  ASSUME NEW s \in RunState
  PROVE  /\ Rephased(s, Repair(s)) /\ Repair(s).phase \in Implementing
         /\ Repair(s).cycles = s.cycles + 1 /\ (Repair(s).done <=> s.done)
<1> DEFINE t == Repair(s)
           n == s.cycles + 1
           x == IF s.cycles = 0 THEN "REPAIR_1" ELSE "REPAIR_2"
<1>1. t \in RunState
  <2>1. n \in Nat /\ x \in Phases
    BY DEF RunState, Phases
  <2>2. t = [s EXCEPT !.cycles = n, !.phase = x]
    BY DEF Repair
  <2> HIDE DEF n, x, t
  <2> QED BY <2>1, <2>2 DEF RunState
<1>2. /\ t.calls = s.calls /\ t.history = s.history /\ t.pending = s.pending
      /\ t.decisions = s.decisions /\ t.seen = s.seen /\ t.done = s.done
      /\ t.phase \in Implementing /\ t.cycles = s.cycles + 1
  BY DEF Repair, RunState, Implementing
<1> HIDE DEF t
<1>3. Rephased(s, t)
  BY <1>1, <1>2 DEF Rephased, SameLedger
<1> QED BY <1>2, <1>3 DEF t

LEMMA StrongRepaired ==
  ASSUME NEW s \in RunState
  PROVE  LET t == [s EXCEPT !.next = TRUE, !.cycles = @ + 1, !.phase = "REPAIR_1"]
         IN  Rephased(s, t) /\ t.phase \in Implementing /\ t.cycles = s.cycles + 1
             /\ (t.done <=> s.done)
<1> DEFINE t == [s EXCEPT !.next = TRUE, !.cycles = @ + 1, !.phase = "REPAIR_1"]
           n == s.cycles + 1
<1>1. t \in RunState
  <2>1. n \in Nat /\ "REPAIR_1" \in Phases
    BY DEF RunState, Phases
  <2>2. t = [s EXCEPT !.next = TRUE, !.cycles = n, !.phase = "REPAIR_1"]
    OBVIOUS
  <2> HIDE DEF n, t
  <2> QED BY <2>1, <2>2 DEF RunState
<1>2. /\ t.calls = s.calls /\ t.history = s.history /\ t.pending = s.pending
      /\ t.decisions = s.decisions /\ t.seen = s.seen /\ t.done = s.done
      /\ t.phase \in Implementing /\ t.cycles = s.cycles + 1
  BY DEF RunState, Implementing
<1> HIDE DEF t
<1>3. Rephased(s, t)
  BY <1>1, <1>2 DEF Rephased, SameLedger
<1> QED BY <1>2, <1>3 DEF t

\* Past the implementation one repair too many does no harm.
LEMMA BoundedPast ==
  ASSUME NEW s, NEW D, NEW S, Sound(s, D, S), NEW t, t.cycles = s.cycles,
         t.phase \notin Implementing \cup {"INTAKE", "SCOUT"}
  PROVE  Bounded(t)
<1>1. s.cycles \in Nat /\ s.cycles <= MaxRepairCycles + 1 /\ MaxRepairCycles \in Nat
  BY BoundedCycles, AutoRunAssumption
<1> QED BY <1>1 DEF Bounded

\* A driven run goes to another phase, which is saved.
LEMMA SavePhase ==
  ASSUME LeaseInv, CallsInv, NEW p \in Commands, pc[p] \in {"classify", "drive"}, NEW t,
         NEW l \in {"check", "drive", "finish"}, NEW w \in Work,
         Rephased(mem[p], t), Bounded(t),
         \/ t.phase = mem[p].phase
         \/ t.phase \in Implementing \cup {"STOPPED"}
         \/ mem[p].phase \notin Implementing \cup {"STOPPED"},
         t.done => l = "finish",
         SaveRunState(p, t, l), Put(work, work', Commands, p, w)
  PROVE  CallsInv' /\ LedgerKept
<1> DEFINE d == disk[run[p]]
<1>1. pc[p] \notin Ended /\ pc[p] # "sent"
  BY DEF Ended
<1>2. Copy(pc[p], mem[p], d, work[p], dispatched, spent) /\ (d # None => Sound(d, dispatched, spent))
  BY <1>1, Here
<1>3. d # None /\ mem[p] = d
  BY <1>2 DEF Copy, Synced
<1>4. Sound(t, dispatched, spent)
  <2>1. \/ mem[p].phase \in Implementing \cup {"STOPPED"}
        \/ mem[p].pending # None => mem[p].pending.id \in dispatched
    BY <1>2, <1>3 DEF Sound
  <2> QED BY <1>2, <1>3, <2>1, RephasedIsSound
<1>5. SameLedger(t, d) /\ t.calls = d.calls /\ (d.done => t.done)
  BY <1>3 DEF Rephased
<1>6. IsPrefix(d.calls, d.calls)
  BY <1>2, <1>3, PrefixOfItself DEF Sound, RunState
<1> HIDE DEF d
<1>7. d = disk[run[p]]
  BY DEF d
<1> QED BY <1>1, <1>3, <1>4, <1>5, <1>6, <1>7, SaveKeeps

\* What a driving command has in memory is what is in the file.
LEMMA DrivingCopy ==
  ASSUME LeaseInv, CallsInv, NEW p \in Commands, pc[p] \in {"classify", "baseline", "drive", "clear", "route"}
  PROVE  /\ disk[run[p]] # None /\ mem[p] = disk[run[p]] /\ ~mem[p].done
         /\ mem[p] \in RunState /\ Sound(mem[p], dispatched, spent)
         /\ mem[p].cycles \in Nat /\ MaxRepairCycles \in Nat
         /\ pc[p] \in {"clear", "route"} => mem[p].phase \in Implementing
<1>1. pc[p] \notin Ended
  BY DEF Ended
<1>2. Copy(pc[p], mem[p], disk[run[p]], work[p], dispatched, spent)
      /\ (disk[run[p]] # None => Sound(disk[run[p]], dispatched, spent))
  BY <1>1, Here
<1>3. disk[run[p]] # None /\ mem[p] = disk[run[p]] /\ ~mem[p].done /\ mem[p] \in RunState
  BY <1>2 DEF Copy, Synced
<1> QED BY <1>2, <1>3, AutoRunAssumption DEF Copy, RunState

LEMMA ClassifyKeeps ==
  ASSUME LeaseInv, CallsInv, NEW p \in Commands, Classify(p)
  PROVE  CallsInv' /\ LedgerKept
<1> DEFINE s == mem[p]
           x == IF s.phase # "INTAKE" THEN s.phase
                ELSE IF s.task.simple THEN "IMPLEMENT" ELSE "SCOUT"
           t == [s EXCEPT !.phase = x]
           l == IF limit.routed THEN "check" ELSE "drive"
<1>1. pc[p] = "classify" /\ (Save(p, t, l) \/ Stop(p))
  BY DEF Classify
<1>2. disk[run[p]] # None /\ ~s.done /\ s \in RunState /\ Sound(s, dispatched, spent)
  BY <1>1, DrivingCopy
<1>3. CASE Save(p, t, l)
  <2>1. x \in Phases
    BY <1>2 DEF RunState, Phases
  <2>2. Rephased(s, t) /\ t.phase = x /\ t.cycles = s.cycles /\ t.next = s.next /\ (t.done <=> s.done)
    BY <1>2, <2>1, PhaseChanged
  <2> HIDE DEF t
  <2>3. Bounded(t)
    BY <1>2, <2>2 DEF Sound, Bounded
  <2>4. \/ t.phase = s.phase
        \/ t.phase \in Implementing \cup {"STOPPED"}
        \/ s.phase \notin Implementing \cup {"STOPPED"}
    BY <2>2 DEF Implementing
  <2>5. l \in {"check", "drive", "finish"} /\ ~t.done
    BY <1>2, <2>2
  <2>6. SaveRunState(p, t, l) /\ UNCHANGED work
    BY <1>3 DEF Save
  <2>7. Put(work, work', Commands, p, work[p]) /\ work[p] \in Work
    BY <2>6, PutNothing DEF CallsInv, Typed1
  <2> HIDE DEF l, x
  <2> QED BY <1>1, <2>2, <2>3, <2>4, <2>5, <2>6, <2>7, SavePhase
<1>4. CASE Stop(p)
  BY <1>1, <1>2, <1>4, StopKeeps
<1> QED BY <1>1, <1>3, <1>4

\* What a command refused the lease does.
LEMMA RefusedKeeps ==
  ASSUME LeaseInv, CallsInv, NEW p \in Commands, pc[p] \in {"check", "create"}, Refused(p)
  PROVE  CallsInv' /\ LedgerKept
<1>1. pc[p] \notin Ended /\ pc[p] # "sent" /\ "refused" \in Labels \ Ended
  BY DEF Ended, Labels
<1>2. CASE disk[run[p]] = None
  <2>1. Remember(p, mem[p], "refused")
    BY <1>2 DEF Refused
  <2>2. Copy(pc[p], mem[p], disk[run[p]], work[p], dispatched, spent)
    BY <1>1, Here
  <2>3. Copy("refused", mem[p], disk[run[p]], work[p], dispatched, spent)
    BY <1>2, <2>2 DEF Copy
  <2>4. /\ pc' = [pc EXCEPT ![p] = "refused"] /\ mem' = [mem EXCEPT ![p] = mem[p]]
        /\ UNCHANGED <<run, work, disk, dispatched, spent, orphaned, limit>>
    BY <2>1 DEF Remember, Goto
  <2> QED BY <1>1, <1>2, <2>3, <2>4, GoOn
<1>3. CASE disk[run[p]] # None
  BY <1>3, StopKeeps DEF Refused
<1> QED BY <1>2, <1>3

\* The steps around the lease leave the records as they are.
LEMMA LeaseStepsKeep ==
  ASSUME LeaseInv, CallsInv, NEW p \in Commands,
         \/ FindLease(p) \/ CreateOrLose(p) \/ WriteLease(p) \/ CaptureBaseline(p)
         \/ BeginAttempt(p) \/ ClearWriter(p)
  PROVE  CallsInv' /\ LedgerKept
<1> DEFINE Quiet(l) == /\ UNCHANGED <<run, work, disk, dispatched, spent, orphaned, limit>>
                       /\ mem' = [mem EXCEPT ![p] = mem[p]] \/ mem' = mem
                       /\ pc' = [pc EXCEPT ![p] = l]
<1>1. ASSUME NEW l \in {"create", "fill", "record", "baseline", "drive", "clear", "route"},
             pc[p] \in {"check", "create", "fill", "baseline", "drive", "clear"}, Quiet(l),
             l = "record" => disk[run[p]] = None,
             l \in {"baseline", "drive", "clear", "route"} => disk[run[p]] # None,
             l \in {"clear", "route"} => mem[p].phase \in Implementing
      PROVE  CallsInv' /\ LedgerKept
  <2>1. pc[p] \notin Ended /\ pc[p] # "sent" /\ l \in Labels \ Ended /\ l # "dispatch"
    BY <1>1 DEF Ended, Labels
  <2>2. Copy(pc[p], mem[p], disk[run[p]], work[p], dispatched, spent)
    BY <2>1, Here
  <2>3. Copy(l, mem[p], disk[run[p]], work[p], dispatched, spent)
    BY <1>1, <2>2 DEF Copy, Synced, Looping
  <2> QED BY <1>1, <2>1, <2>3, GoOn
<1>2. CASE FindLease(p)
  <2>1. pc[p] = "check" /\ (Remember(p, mem[p], "create") \/ Refused(p))
    BY <1>2 DEF FindLease
  <2>2. CASE Remember(p, mem[p], "create")
    BY <1>1, <2>1, <2>2 DEF Remember, Goto
  <2>3. CASE Refused(p)
    BY <2>1, <2>3, RefusedKeeps
  <2> QED BY <2>1, <2>2, <2>3
<1>3. CASE CreateOrLose(p)
  <2>1. pc[p] = "create" /\ (Quiet("fill") \/ Refused(p))
    BY <1>3 DEF CreateOrLose, Goto
  <2>2. CASE Quiet("fill")
    BY <1>1, <2>1, <2>2
  <2>3. CASE Refused(p)
    BY <2>1, <2>3, RefusedKeeps
  <2> QED BY <2>1, <2>2, <2>3
<1>4. CASE WriteLease(p)
  <2>1. pc[p] = "fill" /\ Quiet(IF disk[run[p]] = None THEN "record" ELSE "baseline")
    BY <1>4 DEF WriteLease, Goto
  <2> QED BY <1>1, <2>1
<1>5. CASE CaptureBaseline(p)
  <2>1. pc[p] = "baseline" /\ disk[run[p]] # None
    BY <1>5, DrivingCopy DEF CaptureBaseline
  <2>2. CASE Stop(p)
    BY <2>1, <2>2, StopKeeps
  <2>3. CASE Remember(p, mem[p], "drive")
    BY <1>1, <2>1, <2>3 DEF Remember, Goto
  <2> QED BY <1>5, <2>2, <2>3 DEF CaptureBaseline
<1>6. CASE BeginAttempt(p)
  <2>1. pc[p] = "drive" /\ mem[p].phase \in Implementing
    BY <1>6 DEF BeginAttempt
  <2>2. disk[run[p]] # None
    BY <2>1, DrivingCopy
  <2>3. Quiet("clear") \/ Quiet("route")
    BY <1>6 DEF BeginAttempt, Remember, Goto
  <2> QED BY <1>1, <2>1, <2>2, <2>3
<1>7. CASE ClearWriter(p)
  <2>1. pc[p] = "clear" /\ Quiet("route")
    BY <1>7 DEF ClearWriter, Goto
  <2>2. disk[run[p]] # None /\ mem[p].phase \in Implementing
    BY <2>1, DrivingCopy
  <2> QED BY <1>1, <2>1, <2>2
<1> QED BY <1>2, <1>3, <1>4, <1>5, <1>6, <1>7

\* The record of a preflight is filed under the lease.
LEMMA RecordPreflightKeeps ==
  ASSUME LeaseInv, CallsInv, NEW p \in Commands, RecordPreflight(p)
  PROVE  CallsInv' /\ LedgerKept
<1>1. /\ pc[p] = "record" /\ disk' = [disk EXCEPT ![run[p]] = mem[p]]
      /\ pc' = [pc EXCEPT ![p] = "release"]
      /\ UNCHANGED <<run, mem, work, dispatched, spent, orphaned, limit>>
  BY DEF RecordPreflight, Goto
<1>2. pc[p] \notin Ended /\ "release" \in Labels \ Ended
  BY <1>1 DEF Ended, Labels
<1>3. /\ p \in Alive /\ run[p] \in Runs /\ work[p] \in Work
      /\ DOMAIN pc = Commands /\ DOMAIN mem = Commands /\ DOMAIN work = Commands /\ DOMAIN disk = Runs
      /\ Copy(pc[p], mem[p], disk[run[p]], work[p], dispatched, spent)
  BY <1>2, Here
<1>4. disk[run[p]] = None /\ Unpaid(mem[p]) /\ mem[p] \in RunState
  BY <1>1, <1>3 DEF Copy
<1>5. PICK s : s = mem[p]
  OBVIOUS
<1>6. s \in RunState /\ Unpaid(s) /\ s # None /\ CallIds(s) = {}
  BY <1>4, <1>5, AutoRunAssumption DEF CallIds, Unpaid
<1>7. Sound(s, dispatched, spent)
  BY <1>6, AutoRunAssumption DEF Sound, Unpaid, IsInjective, Bounded
<1>8. Copy("release", s, s, work[p], dispatched, spent)
  BY <1>6 DEF Copy, Looping
<1>9. Grows(disk[run[p]], s) /\ NewCalls(p, "release", work[p]) /\ s.pending = None
  BY <1>1, <1>4, <1>6, NoNewCalls DEF Grows, Unpaid
<1>10. /\ Put(pc, pc', Commands, p, "release") /\ Put(mem, mem', Commands, p, s)
       /\ Put(disk, disk', Runs, run[p], s) /\ Put(work, work', Commands, p, work[p])
  BY <1>1, <1>3, <1>5, PutOne, PutNothing
<1>11. /\ Sound(s, dispatched', spent') /\ Copy("release", s, s, work[p], dispatched', spent')
       /\ UNCHANGED <<run, limit, orphaned>> /\ pc[p] # "sent"
  BY <1>1, <1>7, <1>8
<1> QED BY <1>2, <1>3, <1>9, <1>10, <1>11, RunStep

\* The steps of the state machine that only change the phase.
LEMMA PhaseStepsKeep ==
  ASSUME LeaseInv, CallsInv, NEW p \in Commands,
         \/ SkipScout(p) \/ NoArbiter(p) \/ VerifyFlaky(p) \/ VerifyPassed(p) \/ VerifyFailed(p)
         \/ ApplyDecision(p)
  PROVE  CallsInv' /\ LedgerKept
<1> DEFINE s == mem[p]
<1>1. pc[p] = "drive"
  BY DEF SkipScout, NoArbiter, VerifyFlaky, VerifyPassed, VerifyFailed, ApplyDecision, Verifying
<1>2. /\ disk[run[p]] # None /\ ~s.done /\ s \in RunState /\ Sound(s, dispatched, spent)
      /\ s.cycles \in Nat /\ MaxRepairCycles \in Nat /\ work[p] \in Work /\ DOMAIN work = Commands
  BY <1>1, DrivingCopy DEF CallsInv, Typed1
<1>3. CASE Stop(p)
  BY <1>1, <1>2, <1>3, StopKeeps
<1>4. ASSUME NEW x \in {"IMPLEMENT", "FINAL_VERIFY", "ARBITRATE"}, NEW w \in Work,
             SaveRunState(p, [s EXCEPT !.phase = x], "drive"), Put(work, work', Commands, p, w),
             \/ x = "IMPLEMENT" /\ s.phase = "SCOUT"
             \/ x # "IMPLEMENT" /\ s.phase \in {"VERIFY", "FINAL_VERIFY"}
      PROVE  CallsInv' /\ LedgerKept
  <2> DEFINE t == [s EXCEPT !.phase = x]
  <2>1. Rephased(s, t) /\ t.phase = x /\ t.cycles = s.cycles /\ t.next = s.next /\ (t.done <=> s.done)
    <3>1. x \in Phases
      BY DEF Phases
    <3> QED BY <1>2, <3>1, PhaseChanged
  <2>2. SaveRunState(p, t, "drive")
    BY <1>4
  <2> HIDE DEF t
  <2>3. Bounded(t)
    <3>1. CASE x = "IMPLEMENT"
      BY <1>2, <1>4, <2>1, <3>1 DEF Sound, Bounded
    <3>2. CASE x # "IMPLEMENT"
      BY <1>2, <1>4, <2>1, <3>2, BoundedPast DEF Implementing
    <3> QED BY <3>1, <3>2
  <2>4. t.phase \in Implementing \cup {"STOPPED"} \/ s.phase \notin Implementing \cup {"STOPPED"}
    BY <1>4, <2>1 DEF Implementing
  <2> QED BY <1>1, <1>2, <1>4, <2>1, <2>2, <2>3, <2>4, SavePhase
<1>5. ASSUME NEW t, Rephased(s, t), t.phase \in Implementing, t.cycles = s.cycles + 1, (t.done <=> s.done),
             s.cycles < MaxRepairCycles, NEW w \in Work,
             SaveRunState(p, t, "drive"), Put(work, work', Commands, p, w)
      PROVE  CallsInv' /\ LedgerKept
  <2>1. Bounded(t)
    BY <1>2, <1>5 DEF Bounded
  <2> QED BY <1>1, <1>2, <1>5, <2>1, SavePhase
<1>6. UNCHANGED work => Put(work, work', Commands, p, work[p])
  BY <1>2, PutNothing
<1>7. CASE SkipScout(p)
  BY <1>2, <1>4, <1>6, <1>7 DEF SkipScout, Save
<1>8. CASE NoArbiter(p) \/ VerifyFlaky(p)
  BY <1>3, <1>8 DEF NoArbiter, VerifyFlaky
<1>9. CASE VerifyPassed(p)
  <2>1. s.phase \in {"VERIFY", "FINAL_VERIFY"}
    BY <1>9 DEF VerifyPassed, Verifying
  <2>2. CASE Save(p, [s EXCEPT !.phase = "FINAL_VERIFY"], "drive")
    BY <1>2, <1>4, <1>6, <2>1, <2>2 DEF Save
  <2>3. CASE Save(p, [s EXCEPT !.phase = "DONE", !.done = TRUE], "finish")
    <3> DEFINE t == [s EXCEPT !.phase = "DONE", !.done = TRUE]
    <3>1. Rephased(s, t) /\ t.phase = "DONE" /\ t.cycles = s.cycles /\ t.done
      BY <1>2, RunDone
    <3>2. SaveRunState(p, t, "finish") /\ UNCHANGED work
      BY <2>3 DEF Save
    <3> HIDE DEF t
    <3>3. Bounded(t)
      BY <1>2, <3>1, BoundedPast DEF Implementing
    <3>4. s.phase \notin Implementing \cup {"STOPPED"}
      BY <2>1 DEF Implementing
    <3> QED BY <1>1, <1>2, <1>6, <3>1, <3>2, <3>3, <3>4, SavePhase
  <2> QED BY <1>9, <2>2, <2>3 DEF VerifyPassed
<1>10. CASE VerifyFailed(p)
  <2> DEFINE w == [work[p] EXCEPT !.failed = TRUE]
             t == [s EXCEPT !.next = TRUE, !.cycles = @ + 1, !.phase = "REPAIR_1"]
  <2>1. s.phase \in {"VERIFY", "FINAL_VERIFY"}
    BY <1>10 DEF VerifyFailed, Verifying
  <2>2. w \in Work
    BY <1>2 DEF Work
  <2>3. work' = [work EXCEPT ![p].failed = TRUE] => Put(work, work', Commands, p, w)
    BY <1>2 DEF Put
  <2>4. \/ Stop(p)
        \/ /\ work' = [work EXCEPT ![p].failed = TRUE]
           /\ SaveRunState(p, [s EXCEPT !.phase = "ARBITRATE"], "drive")
        \/ /\ work' = [work EXCEPT ![p].failed = TRUE] /\ s.cycles < MaxRepairCycles
           /\ SaveRunState(p, t, "drive") \/ SaveRunState(p, Repair(s), "drive")
    BY <1>2, <1>10 DEF VerifyFailed, OrderRepair
  <2>5. /\ Rephased(s, Repair(s)) /\ Repair(s).phase \in Implementing
        /\ Repair(s).cycles = s.cycles + 1 /\ (Repair(s).done <=> s.done)
    BY <1>2, Repaired
  <2>6. Rephased(s, t) /\ t.phase \in Implementing /\ t.cycles = s.cycles + 1 /\ (t.done <=> s.done)
    BY <1>2, StrongRepaired
  <2> HIDE DEF w, t
  <2>7. CASE SaveRunState(p, t, "drive") /\ s.cycles < MaxRepairCycles /\ Put(work, work', Commands, p, w)
    BY <1>5, <2>2, <2>6, <2>7
  <2>8. CASE SaveRunState(p, Repair(s), "drive") /\ s.cycles < MaxRepairCycles /\ Put(work, work', Commands, p, w)
    BY <1>5, <2>2, <2>5, <2>8
  <2>9. CASE SaveRunState(p, [s EXCEPT !.phase = "ARBITRATE"], "drive") /\ Put(work, work', Commands, p, w)
    BY <1>4, <2>1, <2>2, <2>9
  <2> QED BY <1>3, <2>3, <2>4, <2>7, <2>8, <2>9
<1>11. CASE ApplyDecision(p)
  <2>1. /\ Rephased(s, Repair(s)) /\ Repair(s).phase \in Implementing
        /\ Repair(s).cycles = s.cycles + 1 /\ (Repair(s).done <=> s.done)
    BY <1>2, Repaired
  <2>2. Stop(p) \/ (s.cycles < MaxRepairCycles /\ SaveRunState(p, Repair(s), "drive") /\ UNCHANGED work)
    BY <1>2, <1>11 DEF ApplyDecision, Save
  <2> QED BY <1>2, <1>3, <1>5, <1>6, <2>1, <2>2
<1> QED BY <1>7, <1>8, <1>9, <1>10, <1>11

\* The end of a run: a routed run takes the charges of the file, the others save their own.
LEMMA FinishKeeps ==
  ASSUME LeaseInv, CallsInv, NEW p \in Commands, Finish(p)
  PROVE  CallsInv' /\ LedgerKept
<1> DEFINE s == mem[p]
           d == disk[run[p]]
           seen == IF d.seen > 0 THEN d.seen ELSE s.seen
           u == [s EXCEPT !.calls = d.calls, !.seen = seen]
           t == IF limit.routed /\ s.decisions > 0 THEN u ELSE s
<1>1. pc[p] = "finish" /\ Save(p, t, "release")
  BY DEF Finish
<1>2. pc[p] \notin Ended /\ pc[p] # "sent"
  BY <1>1 DEF Ended
<1>3. Copy(pc[p], s, d, work[p], dispatched, spent) /\ (d # None => Sound(d, dispatched, spent))
      /\ DOMAIN work = Commands /\ work[p] \in Work
  BY <1>2, Here
<1>4. /\ d # None /\ Sound(d, dispatched, spent) /\ Sound(s, dispatched, spent) /\ SameLedger(s, d)
      /\ IsPrefix(d.calls, s.calls) /\ (d.done => s.done) /\ s \in RunState /\ d \in RunState
  BY <1>1, <1>3 DEF Copy, Sound
<1>5. IsPrefix(d.calls, d.calls)
  BY <1>4, PrefixOfItself DEF RunState
<1>6. /\ Sound(u, dispatched, spent) /\ SameLedger(u, d) /\ u.calls = d.calls /\ (d.done => u.done)
  <2>1. seen \in Nat /\ seen = d.seen /\ d.calls \in Seq(Calls \cup {ByModelName})
    BY <1>4 DEF RunState, SameLedger
  <2>2. u \in RunState
    <3> HIDE DEF seen, d
    <3> QED BY <1>4, <2>1 DEF RunState
  <2>3. /\ u.calls = d.calls /\ u.seen = seen /\ u.history = s.history /\ u.pending = s.pending
        /\ u.decisions = s.decisions /\ u.cycles = s.cycles /\ u.phase = s.phase
        /\ u.next = s.next /\ u.done = s.done
    <3> HIDE DEF seen, d
    <3> QED BY <1>4 DEF RunState
  <2> HIDE DEF u
  <2>4. SameLedger(u, d)
    BY <1>4, <2>1, <2>3 DEF SameLedger
  <2>5. CallIds(u) = CallIds(d) /\ Bounded(u)
    BY <1>4, <2>3 DEF CallIds, Sound, Bounded
  <2>6. Sound(u, dispatched, spent)
    <3>1. IsInjective(u.calls) /\ CallIds(u) \subseteq dispatched \cup spent
      BY <1>4, <2>3, <2>5 DEF Sound
    <3>2. \A a, b \in u.history : a.id = b.id => a = b
      BY <1>4, <2>3 DEF Sound
    <3>3. u.pending # None =>
            u.pending.id \notin CallIds(u)
            /\ (u.pending.id \in dispatched \/ u.phase \in Implementing \cup {"STOPPED"})
      BY <1>4, <2>3, <2>5 DEF Sound, SameLedger
    <3> QED BY <2>2, <2>5, <3>1, <3>2, <3>3 DEF Sound
  <2> QED BY <1>4, <2>3, <2>4, <2>6
<1> HIDE DEF u
<1>7. /\ Sound(t, dispatched, spent) /\ SameLedger(t, d) /\ IsPrefix(d.calls, t.calls) /\ (d.done => t.done)
  BY <1>4, <1>5, <1>6
<1>8. SaveRunState(p, t, "release") /\ Put(work, work', Commands, p, work[p])
  BY <1>1, <1>3, PutNothing DEF Save
<1> HIDE DEF t, d
<1>9. d = disk[run[p]]
  BY DEF d
<1> QED BY <1>2, <1>3, <1>4, <1>7, <1>8, <1>9, SaveKeeps

\* A call through the Claude command is paid for with the number of no other call.
LEMMA GuardedCallKeeps ==
  ASSUME LeaseInv, CallsInv, NEW p \in Commands, GuardedCall(p)
  PROVE  CallsInv' /\ LedgerKept
<1>1. pc[p] = "drive" /\ Guarded(p)
  BY DEF GuardedCall
<1>2. /\ disk[run[p]] # None /\ mem[p] = disk[run[p]] /\ ~mem[p].done
      /\ mem[p] \in RunState /\ Sound(mem[p], dispatched, spent)
  BY <1>1, DrivingCopy
<1>3. CASE Stop(p)
  BY <1>1, <1>2, <1>3, StopKeeps
<1>4. CASE ~Stop(p)
  <2> DEFINE w == [work[p] EXCEPT !.id = NextCall]
  <2>1. /\ NextCall \in Calls /\ spent' = spent \cup {NextCall}
        /\ work' = [work EXCEPT ![p].id = NextCall] /\ pc' = [pc EXCEPT ![p] = "reply"]
        /\ UNCHANGED <<run, mem, disk, dispatched, orphaned, limit>>
    BY <1>4 DEF GuardedCall, Goto
  <2>2. pc[p] \notin Ended /\ pc[p] # "sent" /\ "reply" \in Labels \ Ended
    BY <1>1 DEF Ended, Labels
  <2>3. /\ p \in Alive /\ run[p] \in Runs /\ work[p] \in Work
        /\ DOMAIN pc = Commands /\ DOMAIN mem = Commands /\ DOMAIN work = Commands /\ DOMAIN disk = Runs
        /\ (~limit.routed => mem[p].pending = None)
    BY <1>2, <2>2, Here
  <2>4. w \in Work /\ w.id = NextCall
    BY <2>1, <2>3 DEF Work
  <2>5. NextCall \notin dispatched \cup spent /\ dispatched \cup spent' = 1..NextCall /\ NextCall \in Nat
    BY <2>1, FreshCall DEF CallsInv
  <2>6. PICK s : s = mem[p]
    OBVIOUS
  <2>7. s = disk[run[p]] /\ s # None /\ ~s.done /\ Sound(s, dispatched, spent) /\ s \in RunState
    BY <1>2, <2>6
  <2>8. Sound(s, dispatched, spent') /\ spent \subseteq spent'
    BY <2>1, <2>7, SoundLater
  <2>9. s.pending # None => s.pending.id \in dispatched \ {NextCall}
    <3>1. s.pending # None => s.phase = "ARBITRATE"
      BY <1>1, <2>3, <2>6 DEF Guarded
    <3> QED BY <2>5, <2>7, <3>1 DEF Sound, Implementing
  <2>10. NewCalls(p, "reply", w)
    <3>1. Known'
      BY <2>1, <2>5 DEF Known
    <3>2. spent' \subseteq Calls /\ dispatched' \subseteq Calls /\ pc[p] \in Driving
      BY <1>1, <2>1 DEF CallsInv, Typed1, Driving
    <3> QED BY <2>1, <2>8, <3>1, <3>2 DEF NewCalls
  <2> HIDE DEF w
  <2>11. Copy("reply", s, s, w, dispatched, spent')
    <3>1. CallIds(s) \subseteq dispatched \cup spent' /\ NextCall \notin CallIds(s) /\ NextCall \in spent'
      BY <2>1, <2>5, <2>7 DEF Sound
    <3> QED BY <2>4, <2>7, <2>9, <3>1 DEF Copy, Looping
  <2>12. Grows(disk[run[p]], s)
    BY <2>7, GrowsItself
  <2>13. /\ Put(pc, pc', Commands, p, "reply") /\ Put(mem, mem', Commands, p, s)
         /\ Put(disk, disk', Runs, run[p], s) /\ Put(work, work', Commands, p, w)
    <3>1. Put(work, work', Commands, p, w)
      BY <2>1, <2>3 DEF Put, w
    <3> QED BY <2>1, <2>3, <2>6, <2>7, <3>1, PutOne, PutNothing
  <2>14. /\ Sound(s, dispatched', spent') /\ Copy("reply", s, s, w, dispatched', spent')
         /\ UNCHANGED <<run, limit, orphaned>> /\ (~limit.routed => s.pending = None)
    BY <2>1, <2>3, <2>6, <2>8, <2>11
  <2> QED BY <2>2, <2>3, <2>4, <2>10, <2>12, <2>13, <2>14, RunStep
<1> QED BY <1>3, <1>4

\* One call more is charged.
LEMMA OneCharged ==
  ASSUME NEW s \in RunState, IsInjective(s.calls), NEW c \in Calls, c \notin CallIds(s),
         NEW t, t.calls = Append(s.calls, c)
  PROVE  IsInjective(t.calls) /\ CallIds(t) = CallIds(s) \cup {c} /\ IsPrefix(s.calls, t.calls)
<1>1. s.calls \in Seq(Calls \cup {ByModelName})
  BY DEF RunState
<1>2. PICK q : q = s.calls
  OBVIOUS
<1>3. PICK n \in Nat : n = Len(q)
  BY <1>1, <1>2
<1>4. /\ DOMAIN q = 1..n /\ DOMAIN t.calls = 1..(n + 1) /\ t.calls[n + 1] = c
      /\ \A i \in 1..n : t.calls[i] = q[i]
  BY <1>1, <1>2, <1>3
<1>5. \A i \in 1..n : q[i] # c
  BY <1>2, <1>4 DEF CallIds
<1>6. IsInjective(t.calls)
  <2>1. \A i, j \in 1..n : q[i] = q[j] => i = j
    BY <1>2, <1>4 DEF IsInjective
  <2>2. \A i, j \in 1..(n + 1) : t.calls[i] = t.calls[j] => i = j
    BY <1>4, <1>5, <2>1
  <2> QED BY <1>4, <2>2 DEF IsInjective
<1>7. CallIds(t) = CallIds(s) \cup {c}
  BY <1>2, <1>4 DEF CallIds
<1>8. IsPrefix(s.calls, t.calls)
  BY <1>1, PrefixAppended
<1> QED BY <1>6, <1>7, <1>8

LEMMA ChargeIsSound ==
  ASSUME NEW s, NEW D, NEW S, Sound(s, D, S), NEW c \in Calls, c \in D \cup S, c \notin CallIds(s),
         s.pending # None => s.pending.id # c, NEW t \in RunState, t.calls = Append(s.calls, c),
         SameLedger(t, s), t.phase = s.phase, t.cycles = s.cycles, t.next = s.next
  PROVE  Sound(t, D, S) /\ IsPrefix(s.calls, t.calls)
<1>1. IsInjective(t.calls) /\ CallIds(t) = CallIds(s) \cup {c} /\ IsPrefix(s.calls, t.calls)
  BY OneCharged DEF Sound
<1>2. Bounded(t)
  BY DEF Sound, Bounded
<1> QED BY <1>1, <1>2 DEF Sound, SameLedger

LEMMA ChargedFields ==
  ASSUME NEW p, mem[p] \in RunState, work[p].id \in Calls
  PROVE  /\ Charged(p) \in RunState /\ Charged(p).calls = Append(mem[p].calls, work[p].id)
         /\ SameLedger(Charged(p), mem[p]) /\ Charged(p).phase = mem[p].phase
         /\ Charged(p).cycles = mem[p].cycles /\ Charged(p).next = mem[p].next
         /\ (Charged(p).done <=> mem[p].done)
<1> DEFINE s == mem[p]
           calls == Append(s.calls, work[p].id)
           opus == IF s.phase = "ARBITRATE" THEN s.opus + 1 ELSE s.opus
           t == [s EXCEPT !.calls = calls, !.opus = opus]
<1>1. Charged(p) = t
  BY DEF Charged
<1>2. calls \in Seq(Calls \cup {ByModelName}) /\ opus \in Nat
  BY DEF RunState
<1> HIDE DEF calls, opus
<1>3. t \in RunState
  BY <1>2 DEF RunState
<1>4. /\ t.calls = calls /\ t.history = s.history /\ t.pending = s.pending
      /\ t.decisions = s.decisions /\ t.seen = s.seen /\ t.done = s.done
      /\ t.phase = s.phase /\ t.cycles = s.cycles /\ t.next = s.next
  BY DEF RunState
<1> HIDE DEF t
<1>5. SameLedger(t, s)
  BY <1>4 DEF SameLedger
<1> QED BY <1>1, <1>3, <1>4, <1>5 DEF calls

LEMMA FilesChanged ==
  ASSUME NEW s \in RunState, NEW x \in Phases, NEW c \in BOOLEAN
  PROVE  LET t == [s EXCEPT !.phase = x, !.changed = c]
         IN  Rephased(s, t) /\ t.phase = x /\ t.cycles = s.cycles /\ (t.done <=> s.done)
<1> DEFINE t == [s EXCEPT !.phase = x, !.changed = c]
<1>1. t \in RunState
  BY DEF RunState
<1>2. /\ t.calls = s.calls /\ t.history = s.history /\ t.pending = s.pending
      /\ t.decisions = s.decisions /\ t.seen = s.seen /\ t.done = s.done
      /\ t.phase = x /\ t.cycles = s.cycles
  BY DEF RunState
<1> HIDE DEF t
<1>3. Rephased(s, t)
  BY <1>1, <1>2 DEF Rephased, SameLedger
<1> QED BY <1>2, <1>3 DEF t

LEMMA EditApplied ==
  ASSUME NEW s \in RunState, NEW x \in Phases
  PROVE  LET t == [s EXCEPT !.phase = x, !.changed = TRUE, !.direct = TRUE]
         IN  Rephased(s, t) /\ t.phase = x /\ t.cycles = s.cycles /\ (t.done <=> s.done)
<1> DEFINE t == [s EXCEPT !.phase = x, !.changed = TRUE, !.direct = TRUE]
<1>1. t \in RunState
  BY DEF RunState
<1>2. /\ t.calls = s.calls /\ t.history = s.history /\ t.pending = s.pending
      /\ t.decisions = s.decisions /\ t.seen = s.seen /\ t.done = s.done
      /\ t.phase = x /\ t.cycles = s.cycles
  BY DEF RunState
<1> HIDE DEF t
<1>3. Rephased(s, t)
  BY <1>1, <1>2 DEF Rephased, SameLedger
<1> QED BY <1>2, <1>3 DEF t

\* The answer of the Claude command is charged, and what it leads to is saved with it.
LEMMA GuardedReplyKeeps ==
  ASSUME LeaseInv, CallsInv, NEW p \in Commands, GuardedReply(p)
  PROVE  CallsInv' /\ LedgerKept
<1>1. pc[p] = "reply" /\ pc[p] \notin Ended /\ pc[p] # "sent"
  BY DEF GuardedReply, Ended
<1>2. /\ work[p] \in Work /\ DOMAIN work = Commands
      /\ Copy(pc[p], mem[p], disk[run[p]], work[p], dispatched, spent)
      /\ disk[run[p]] # None => Sound(disk[run[p]], dispatched, spent)
  BY <1>1, Here
<1>3. PICK d : d = disk[run[p]]
  OBVIOUS
<1>4. /\ d # None /\ mem[p] = d /\ ~d.done /\ d \in RunState /\ Sound(d, dispatched, spent)
      /\ work[p].id \in spent /\ work[p].id \notin CallIds(d)
      /\ d.pending # None => d.pending.id \in dispatched \ {work[p].id}
  BY <1>1, <1>2, <1>3 DEF Copy, Synced, Sound
<1>5. PICK s : s = Charged(p)
  OBVIOUS
<1>6. /\ s \in RunState /\ s.calls = Append(d.calls, work[p].id) /\ SameLedger(s, d)
      /\ s.phase = d.phase /\ s.cycles = d.cycles /\ s.next = d.next /\ (s.done <=> d.done)
  BY <1>4, <1>5, ChargedFields DEF CallsInv, Typed1
<1>7. Sound(s, dispatched, spent) /\ IsPrefix(d.calls, s.calls)
  <2>1. PICK c : c = work[p].id
    OBVIOUS
  <2>2. /\ c \in Calls /\ c \in dispatched \cup spent /\ c \notin CallIds(d)
        /\ d.pending # None => d.pending.id # c
    BY <1>4, <2>1 DEF CallsInv, Typed1
  <2>3. /\ s \in RunState /\ s.calls = Append(d.calls, c) /\ SameLedger(s, d)
        /\ s.phase = d.phase /\ s.cycles = d.cycles /\ s.next = d.next
    BY <1>6, <2>1
  <2>4. Sound(d, dispatched, spent)
    BY <1>4
  <2> QED BY <2>2, <2>3, <2>4, ChargeIsSound
<1>8. CASE Remember(p, Stopped(s), "finish")
  <2>1. s.cycles <= MaxRepairCycles + 1
    BY <1>7, BoundedCycles
  <2>2. /\ Sound(Stopped(s), dispatched, spent) /\ SameLedger(Stopped(s), d)
        /\ Stopped(s).calls = s.calls /\ Stopped(s).done
    <3>1. /\ IsInjective(s.calls) /\ CallIds(s) \subseteq dispatched \cup spent
          /\ s.pending # None => s.pending.id \notin CallIds(s)
      BY <1>7 DEF Sound
    <3> QED BY <1>4, <1>6, <2>1, <3>1, StoppedIsSound
  <2> QED BY <1>1, <1>3, <1>4, <1>7, <1>8, <2>2, KeepForFinish
<1>9. ASSUME NEW t, Rephased(s, t), t.cycles = s.cycles, (t.done <=> s.done), Save(p, t, "drive"),
             \/ t.phase \notin Implementing \cup {"INTAKE", "SCOUT"}
             \/ t.phase = "IMPLEMENT" /\ s.phase = "SCOUT"
      PROVE  CallsInv' /\ LedgerKept
  <2>1. Bounded(t)
    <3>1. CASE t.phase \notin Implementing \cup {"INTAKE", "SCOUT"}
      BY <1>7, <1>9, <3>1, BoundedPast
    <3>2. CASE t.phase = "IMPLEMENT" /\ s.phase = "SCOUT"
      BY <1>7, <1>9, <3>2 DEF Sound, Bounded
    <3> QED BY <1>9, <3>1, <3>2
  <2>2. s.pending # None => s.pending.id \in dispatched
    BY <1>4, <1>6 DEF SameLedger
  <2>3. Sound(t, dispatched, spent)
    BY <1>7, <1>9, <2>1, <2>2, RephasedIsSound
  <2>4. SameLedger(t, d) /\ IsPrefix(d.calls, t.calls) /\ ~t.done
    BY <1>4, <1>6, <1>7, <1>9 DEF Rephased, SameLedger
  <2>5. SaveRunState(p, t, "drive") /\ Put(work, work', Commands, p, work[p])
    BY <1>2, <1>9, PutNothing DEF Save
  <2> QED BY <1>1, <1>2, <1>3, <1>4, <2>3, <2>4, <2>5, SaveKeeps
<1>10. CASE s.phase = "SCOUT" /\ Save(p, [s EXCEPT !.phase = "IMPLEMENT"], "drive")
  <2> DEFINE t == [s EXCEPT !.phase = "IMPLEMENT"]
  <2>1. "IMPLEMENT" \in Phases
    BY DEF Phases
  <2>2. Rephased(s, t) /\ t.phase = "IMPLEMENT" /\ t.cycles = s.cycles /\ t.next = s.next /\ (t.done <=> s.done)
    BY <1>6, <2>1, PhaseChanged
  <2>3. Save(p, t, "drive")
    BY <1>10
  <2> HIDE DEF t
  <2> QED BY <1>9, <1>10, <2>2, <2>3
<1>11. CASE Save(p, [s EXCEPT !.phase = "VERIFY", !.changed = TRUE, !.direct = TRUE], "drive")
  <2> DEFINE t == [s EXCEPT !.phase = "VERIFY", !.changed = TRUE, !.direct = TRUE]
  <2>1. "VERIFY" \in Phases
    BY DEF Phases
  <2>2. Rephased(s, t) /\ t.phase = "VERIFY" /\ t.cycles = s.cycles /\ (t.done <=> s.done)
    BY <1>6, <2>1, EditApplied
  <2>3. Save(p, t, "drive")
    BY <1>11
  <2> HIDE DEF t
  <2> QED BY <1>9, <2>2, <2>3 DEF Implementing
<1>12. ASSUME NEW c \in {s.changed, TRUE}, NEW x \in {"VERIFY", "ARBITRATE"},
              Save(p, [s EXCEPT !.phase = x, !.changed = c], "drive")
       PROVE  CallsInv' /\ LedgerKept
  <2> DEFINE t == [s EXCEPT !.phase = x, !.changed = c]
  <2>1. x \in Phases /\ c \in BOOLEAN
    BY <1>6 DEF Phases, RunState
  <2>2. Rephased(s, t) /\ t.phase = x /\ t.cycles = s.cycles /\ (t.done <=> s.done)
    BY <1>6, <2>1, FilesChanged
  <2>3. Save(p, t, "drive")
    BY <1>12
  <2> HIDE DEF t
  <2> QED BY <1>9, <1>12, <2>2, <2>3 DEF Implementing
<1>13. CASE Save(p, [s EXCEPT !.phase = "APPLY_DECISION"], "drive")
  <2> DEFINE t == [s EXCEPT !.phase = "APPLY_DECISION"]
  <2>1. "APPLY_DECISION" \in Phases
    BY DEF Phases
  <2>2. Rephased(s, t) /\ t.phase = "APPLY_DECISION" /\ t.cycles = s.cycles /\ t.next = s.next
        /\ (t.done <=> s.done)
    BY <1>6, <2>1, PhaseChanged
  <2>3. Save(p, t, "drive")
    BY <1>13
  <2> HIDE DEF t
  <2> QED BY <1>9, <2>2, <2>3 DEF Implementing
<1> QED BY <1>5, <1>8, <1>10, <1>11, <1>12, <1>13 DEF GuardedReply

-----------------------------------------------------------------------------
(* The loops and their calls.                                               *)

\* A record without an unsettled call of its own, or with another mark.
LEMMA Recounted ==
  ASSUME NEW s \in RunState, NEW n \in Nat
  PROVE  LET t == [s EXCEPT !.decisions = n]
         IN  /\ t \in RunState /\ t.calls = s.calls /\ t.history = s.history /\ t.pending = s.pending
             /\ t.seen = s.seen /\ t.phase = s.phase /\ t.cycles = s.cycles /\ t.next = s.next
             /\ (t.done <=> s.done) /\ t.decisions = n
<1> DEFINE t == [s EXCEPT !.decisions = n]
<1>1. t \in RunState
  BY DEF RunState
<1>2. /\ t.calls = s.calls /\ t.history = s.history /\ t.pending = s.pending
      /\ t.seen = s.seen /\ t.phase = s.phase /\ t.cycles = s.cycles /\ t.next = s.next
      /\ t.done = s.done /\ t.decisions = n
  BY DEF RunState
<1> QED BY <1>1, <1>2

LEMMA Seen ==
  ASSUME NEW s \in RunState, NEW n \in Nat
  PROVE  LET t == [s EXCEPT !.seen = n]
         IN  /\ t \in RunState /\ t.calls = s.calls /\ t.history = s.history /\ t.pending = s.pending
             /\ t.seen = n /\ t.phase = s.phase /\ t.cycles = s.cycles /\ t.next = s.next
             /\ (t.done <=> s.done) /\ t.decisions = s.decisions
<1> DEFINE t == [s EXCEPT !.seen = n]
<1>1. t \in RunState
  BY DEF RunState
<1>2. /\ t.calls = s.calls /\ t.history = s.history /\ t.pending = s.pending
      /\ t.seen = n /\ t.phase = s.phase /\ t.cycles = s.cycles /\ t.next = s.next
      /\ t.done = s.done /\ t.decisions = s.decisions
  BY DEF RunState
<1> QED BY <1>1, <1>2

\* What counts for soundness.
LEMMA SameIsSound ==
  ASSUME NEW s, NEW D, NEW S, Sound(s, D, S), NEW t \in RunState, t.calls = s.calls,
         t.history = s.history, t.pending = s.pending, t.phase = s.phase, t.cycles = s.cycles,
         t.next = s.next
  PROVE  Sound(t, D, S)
BY DEF Sound, CallIds, Bounded

\* A loop goes on, or begins, or ends, in the copy m and the file d.
LEMMA LoopStep ==
  ASSUME LeaseInv, CallsInv, NEW p \in Commands, pc[p] \notin Ended, pc[p] # "sent", NEW l \in Labels \ Ended,
         NEW m, NEW d, NEW w \in Work, l # "dispatch", pc[p] \in Driving, limit.routed,
         UNCHANGED <<run, dispatched, spent, orphaned, limit>>,
         pc' = [pc EXCEPT ![p] = l], mem' = [mem EXCEPT ![p] = m], disk' = [disk EXCEPT ![run[p]] = d],
         Put(work, work', Commands, p, w),
         disk[run[p]] # None => Grows(disk[run[p]], d),
         disk[run[p]] # None, Sound(d, dispatched, spent), Copy(l, m, d, w, dispatched, spent)
  PROVE  CallsInv' /\ LedgerKept
<1>1. /\ p \in Alive /\ run[p] \in Runs
      /\ DOMAIN pc = Commands /\ DOMAIN mem = Commands /\ DOMAIN disk = Runs
  BY Here
<1>2. /\ Put(pc, pc', Commands, p, l) /\ Put(mem, mem', Commands, p, m)
      /\ Put(disk, disk', Runs, run[p], d)
  BY <1>1, PutOne
<1>3. NewCalls(p, l, w)
  BY NoNewCalls
<1>4. Sound(d, dispatched', spent') /\ Copy(l, m, d, w, dispatched', spent')
  OBVIOUS
<1> QED BY <1>1, <1>2, <1>3, <1>4, RunStep

\* The choice of a model is counted in the file and in the copy, which forgets the
\* request for the strong model; the loop remembers that it is strong.
LEMMA RouteAttemptKeeps ==
  ASSUME LeaseInv, CallsInv, NEW p \in Commands, RouteAttempt(p)
  PROVE  CallsInv' /\ LedgerKept
<1> DEFINE s0 == mem[p]
<1>1. pc[p] = "route" /\ pc[p] \notin Ended /\ pc[p] # "sent" /\ pc[p] \in Driving
  BY DEF RouteAttempt, Ended, Driving
<1>2. /\ disk[run[p]] # None /\ s0 = disk[run[p]] /\ ~s0.done
      /\ s0 \in RunState /\ Sound(s0, dispatched, spent)
      /\ s0.cycles \in Nat /\ MaxRepairCycles \in Nat /\ s0.phase \in Implementing
  BY <1>1, DrivingCopy
<1>3. limit.routed
  BY <1>1 DEF LeaseInv, UnroutedIsFree, Unrouted
<1>4. PICK s : s = s0
  OBVIOUS
<1> DEFINE n == s.decisions + 1
           next == s.next /\ s.phase = "IMPLEMENT"
           c == [s EXCEPT !.decisions = n, !.next = next]
           d == [s EXCEPT !.decisions = n]
<1>5. /\ s = mem[p] /\ s = disk[run[p]] /\ s # None /\ ~s.done /\ s \in RunState
      /\ Sound(s, dispatched, spent) /\ s.cycles \in Nat /\ s.phase \in Implementing
      /\ s.decisions \in Nat /\ n \in Nat /\ s.seen \in Nat
  BY <1>2, <1>4 DEF RunState
<1>6. PICK kind \in {"discovery", "writer"} :
        work' = [work EXCEPT ![p] = [FirstLoop EXCEPT !.kind = kind, !.failed = work[p].failed,
                       !.strong = s.task.hard \/ (s.next /\ s.phase # "IMPLEMENT")]]
  BY <1>4 DEF RouteAttempt
<1> DEFINE strong == s.task.hard \/ (s.next /\ s.phase # "IMPLEMENT")
           w == [FirstLoop EXCEPT !.kind = kind, !.failed = work[p].failed, !.strong = strong]
<1>7. \/ mem' = [mem EXCEPT ![p] = Stopped(c)] /\ pc' = [pc EXCEPT ![p] = "finish"]
      \/ /\ mem' = [mem EXCEPT ![p] = c]
         /\ pc' = [pc EXCEPT ![p] = "grant"] \/ pc' = [pc EXCEPT ![p] = "call"]
  BY <1>4 DEF RouteAttempt, Goto
<1>8. c \in RunState /\ /\ c.calls = s.calls /\ c.history = s.history /\ c.pending = s.pending
      /\ c.seen = s.seen /\ c.phase = s.phase /\ c.cycles = s.cycles
      /\ c.done = s.done /\ c.decisions = n
  <2>1. next \in BOOLEAN
    OBVIOUS
  <2> HIDE DEF n, next
  <2> QED BY <1>5, <2>1 DEF RunState
<1>9. /\ d \in RunState /\ d.calls = s.calls /\ d.history = s.history /\ d.pending = s.pending
      /\ d.seen = s.seen /\ d.phase = s.phase /\ d.cycles = s.cycles /\ d.next = s.next
      /\ (d.done <=> s.done) /\ d.decisions = n
  <2> HIDE DEF n
  <2> QED BY <1>5, Recounted
<1>10. disk' = [disk EXCEPT ![run[p]] = d] /\ UNCHANGED <<run, dispatched, spent, orphaned, limit>>
  <2>1. disk' = [disk EXCEPT ![run[p]].decisions = IF @ < c.decisions THEN @ + 1 ELSE @]
        /\ UNCHANGED <<run, dispatched, spent, orphaned, limit>>
    BY <1>4 DEF RouteAttempt
  <2>2. s.decisions < n
    BY <1>5
  <2>3. disk[run[p]].decisions = s.decisions /\ c.decisions = n
    BY <1>5, <1>8
  <2> HIDE DEF c
  <2>4. disk' = [disk EXCEPT ![run[p]].decisions = n]
    BY <2>1, <2>2, <2>3
  <2> HIDE DEF n
  <2> QED BY <1>5, <2>1, <2>4
<1>11. /\ DOMAIN work = Commands /\ work[p] \in Work
  BY <1>1, Here
<1>12. w \in Work /\ (w.strong <=> strong) /\ Put(work, work', Commands, p, w)
  <2>1. strong \in BOOLEAN /\ work[p].failed \in BOOLEAN
    BY <1>11 DEF Work
  <2>2. work' = [work EXCEPT ![p] = w]
    BY <1>6
  <2>3. Put(work, work', Commands, p, w)
    <3> HIDE DEF w
    <3> QED BY <1>11, <2>2, PutOne
  <2>4. w \in Work
    <3> HIDE DEF strong
    <3> QED BY <2>1 DEF FirstLoop, Work
  <2>5. w.strong = strong
    <3> HIDE DEF strong
    <3> QED BY DEF FirstLoop
  <2> QED BY <2>3, <2>4, <2>5
<1>13. strong \/ s.cycles <= MaxRepairCycles
  BY <1>5 DEF Sound, Bounded, Implementing
<1> HIDE DEF c, d, w, strong
<1>14. Sound(d, dispatched, spent) /\ d # None
  BY <1>5, <1>9, SameIsSound, AutoRunAssumption
<1>15. Grows(disk[run[p]], d)
  <2>1. IsPrefix(s.calls, s.calls) /\ s.decisions <= n /\ s.seen <= s.seen
    BY <1>5, PrefixOfItself DEF RunState
  <2> QED BY <1>5, <1>9, <1>14, <2>1 DEF Grows
<1>16. SameLedger(c, d) /\ CallIds(c) = CallIds(s) /\ CallIds(s) \subseteq dispatched \cup spent
  BY <1>5, <1>8, <1>9 DEF SameLedger, CallIds, Sound
<1>17. ASSUME NEW l \in {"grant", "call"} PROVE Copy(l, c, d, w, dispatched, spent)
  <2>1. InLoop(c, d, w)
    BY <1>5, <1>8, <1>9, <1>12, <1>13 DEF InLoop
  <2>2. c.calls = d.calls /\ ~d.done
    BY <1>5, <1>8, <1>9
  <2> QED BY <1>8, <1>14, <1>16, <2>1, <2>2 DEF Copy, Synced
<1>18. Copy("finish", Stopped(c), d, w, dispatched, spent)
  <2>1. s.cycles <= MaxRepairCycles + 1
    BY <1>5, BoundedCycles
  <2>2. /\ IsInjective(c.calls) /\ CallIds(c) \subseteq dispatched \cup spent
        /\ c.pending # None => c.pending.id \notin CallIds(c)
    BY <1>5, <1>8, <1>16 DEF Sound
  <2>3. /\ Sound(Stopped(c), dispatched, spent) /\ SameLedger(Stopped(c), d)
        /\ Stopped(c).calls = c.calls /\ Stopped(c).done
    BY <1>8, <1>14, <1>16, <2>1, <2>2, StoppedIsSound
  <2>4. IsPrefix(s.calls, s.calls)
    BY <1>5, PrefixOfItself DEF RunState
  <2> QED BY <1>8, <1>9, <1>14, <2>3, <2>4 DEF Copy, Synced, Looping, Sound
<1>19. {"grant", "call", "finish"} \subseteq Labels \ Ended
  BY DEF Labels, Ended
<1>20. CASE mem' = [mem EXCEPT ![p] = Stopped(c)] /\ pc' = [pc EXCEPT ![p] = "finish"]
  BY <1>1, <1>2, <1>3, <1>10, <1>12, <1>14, <1>15, <1>18, <1>19, <1>20, LoopStep
<1>21. ASSUME NEW l \in {"grant", "call"}, mem' = [mem EXCEPT ![p] = c], pc' = [pc EXCEPT ![p] = l]
       PROVE  CallsInv' /\ LedgerKept
  <2>1. l \in Labels \ Ended /\ l # "dispatch"
    BY <1>19
  <2> QED BY <1>1, <1>2, <1>3, <1>10, <1>12, <1>14, <1>15, <1>17, <1>21, <2>1, LoopStep
<1> QED BY <1>7, <1>20, <1>21

\* The last check before a writer, and its permission.
LEMMA GrantKeeps ==
  ASSUME LeaseInv, CallsInv, NEW p \in Commands, GrantWriter(p) \/ AssignWriter(p)
  PROVE  CallsInv' /\ LedgerKept
<1>1. pc[p] \in {"grant", "assign"} /\ pc[p] \notin Ended /\ pc[p] # "sent"
  BY DEF GrantWriter, AssignWriter, Ended
<1>2. Copy(pc[p], mem[p], disk[run[p]], work[p], dispatched, spent)
  BY <1>1, Here
<1>3. disk[run[p]] # None
  BY <1>1, <1>2 DEF Copy
<1>4. ASSUME NEW l \in {"assign", "call"}, pc' = [pc EXCEPT ![p] = l],
             mem' = [mem EXCEPT ![p] = mem[p]] \/ mem' = mem,
             UNCHANGED <<run, work, disk, dispatched, spent, orphaned, limit>>
      PROVE  CallsInv' /\ LedgerKept
  <2>1. Copy(l, mem[p], disk[run[p]], work[p], dispatched, spent)
    BY <1>1, <1>2, <1>3 DEF Copy, Synced
  <2>2. l \in Labels \ Ended /\ l # "dispatch"
    BY DEF Labels, Ended
  <2> QED BY <1>1, <1>4, <2>1, <2>2, GoOn
<1>5. CASE GrantWriter(p)
  <2>1. CASE Stop(p)
    BY <1>3, <1>5, <2>1, StopKeeps DEF GrantWriter
  <2>2. CASE ~Stop(p)
    BY <1>4, <1>5, <2>2 DEF GrantWriter, Remember, Goto
  <2> QED BY <2>1, <2>2
<1>6. CASE AssignWriter(p)
  BY <1>4, <1>6 DEF AssignWriter, Goto
<1> QED BY <1>5, <1>6

\* A call before and while it is sent.
LEMMA CallPending ==
  ASSUME NEW s \in RunState, NEW c \in Calls, NEW x \in Statuses
  PROVE  LET t == PersistPendingCall(s, c, x)
         IN  /\ t \in RunState /\ t.calls = s.calls /\ t.history = s.history
             /\ t.pending = [id |-> c, status |-> x] /\ t.seen = s.seen /\ t.phase = s.phase
             /\ t.cycles = s.cycles /\ t.next = s.next /\ (t.done <=> s.done)
             /\ t.decisions = s.decisions
<1> DEFINE a == [id |-> c, status |-> x]
           t == [s EXCEPT !.pending = a]
<1>1. a \in Attempt \cup {None}
  BY DEF Attempt
<1> HIDE DEF a
<1>2. t \in RunState
  BY <1>1 DEF RunState
<1>3. /\ t.calls = s.calls /\ t.history = s.history /\ t.pending = a
      /\ t.seen = s.seen /\ t.phase = s.phase /\ t.cycles = s.cycles /\ t.next = s.next
      /\ t.done = s.done /\ t.decisions = s.decisions
  BY <1>1 DEF RunState
<1>4. t = PersistPendingCall(s, c, x)
  BY DEF PersistPendingCall, a
<1> HIDE DEF t
<1> QED BY <1>2, <1>3, <1>4 DEF a

LEMMA PendingIsSound ==
  ASSUME NEW s, NEW D, NEW S, Sound(s, D, S), s.phase \in Implementing,
         NEW c \in Calls, c \notin CallIds(s), NEW x \in Statuses
  PROVE  LET t == PersistPendingCall(s, c, x)
         IN  Sound(t, D, S) /\ Grows(s, t)
<1>1. PICK t : t = PersistPendingCall(s, c, x)
  OBVIOUS
<1>2. /\ t \in RunState /\ t.calls = s.calls /\ t.history = s.history
      /\ t.pending = [id |-> c, status |-> x] /\ t.seen = s.seen /\ t.phase = s.phase
      /\ t.cycles = s.cycles /\ t.next = s.next /\ (t.done <=> s.done)
      /\ t.decisions = s.decisions
  BY <1>1, CallPending DEF Sound
<1>3. CallIds(t) = CallIds(s) /\ t # None /\ t.pending.id = c /\ t.phase \in Implementing
  BY <1>2, AutoRunAssumption DEF CallIds
<1>4. IsInjective(t.calls) /\ Bounded(t) /\ CallIds(t) \subseteq D \cup S
      /\ \A a, b \in t.history : a.id = b.id => a = b
  BY <1>2, <1>3 DEF Sound, Bounded
<1>5. Sound(t, D, S)
  BY <1>2, <1>3, <1>4 DEF Sound
<1>6. Grows(s, t)
  <2>1. s \in RunState
    BY DEF Sound
  <2>2. IsPrefix(s.calls, s.calls) /\ s.decisions \in Nat /\ s.seen \in Nat
    BY <2>1, PrefixOfItself DEF RunState
  <2> QED BY <1>2, <1>3, <2>2 DEF Grows
<1> QED BY <1>1, <1>5, <1>6

\* While the calls of a loop change the file, the copy stays.
LEMMA LoopCopy ==
  ASSUME NEW l \in Looping, NEW m, NEW d, NEW w, NEW D, NEW S, Copy(l, m, d, w, D, S), NEW e, e # None,
         e.phase = d.phase, e.cycles = d.cycles, e.decisions = d.decisions, e.seen = d.seen,
         e.done <=> d.done, NEW v, v.strong <=> w.strong, NEW k \in Looping,
         k = "sent" => e.pending = [id |-> v.id, status |-> "DISPATCHED"] /\ v.id \in D,
         k = "settle" => (e.pending # None => e.pending.id \in D)
  PROVE  Copy(k, m, e, v, D, S)
<1>1. d # None /\ InLoop(m, d, w) /\ ~d.done
  BY DEF Copy, Looping
<1>2. InLoop(m, e, v)
  BY <1>1 DEF InLoop
<1> QED BY <1>1, <1>2 DEF Copy, Looping, Synced

\* Before a call is paid for, it is in the file.
LEMMA PrepareCallKeeps ==
  ASSUME LeaseInv, CallsInv, NEW p \in Commands, PrepareCall(p)
  PROVE  CallsInv' /\ LedgerKept
<1>1. /\ pc[p] = "call" /\ NextCall \in Calls
      /\ disk' = [disk EXCEPT ![run[p]] = PersistPendingCall(disk[run[p]], NextCall, "PREPARED")]
      /\ pc' = [pc EXCEPT ![p] = "dispatch"]
      /\ UNCHANGED <<run, mem, work, dispatched, spent, orphaned, limit>>
  BY DEF PrepareCall, Goto
<1>2. pc[p] \notin Ended /\ pc[p] # "sent" /\ "dispatch" \in Labels \ Ended /\ limit.routed
  BY <1>1 DEF Ended, Labels, LeaseInv, UnroutedIsFree, Unrouted
<1>3. /\ p \in Alive /\ run[p] \in Runs /\ work[p] \in Work
      /\ DOMAIN pc = Commands /\ DOMAIN mem = Commands /\ DOMAIN work = Commands /\ DOMAIN disk = Runs
      /\ Copy(pc[p], mem[p], disk[run[p]], work[p], dispatched, spent)
      /\ (disk[run[p]] # None => Sound(disk[run[p]], dispatched, spent))
  BY <1>2, Here
<1>4. PICK d : d = disk[run[p]]
  OBVIOUS
<1>5. /\ d # None /\ Sound(d, dispatched, spent) /\ d.phase \in Implementing /\ d \in RunState
  BY <1>1, <1>3, <1>4 DEF Copy, Looping, InLoop, Sound
<1>6. PICK c \in Calls : c = NextCall
  BY <1>1
<1>7. c \notin CallIds(d)
  BY <1>5, <1>6, FreshCall DEF CallsInv, Sound
<1>8. PICK e : e = PersistPendingCall(d, c, "PREPARED")
  OBVIOUS
<1>9. /\ e \in RunState /\ e.seen = d.seen /\ e.phase = d.phase
      /\ e.cycles = d.cycles /\ (e.done <=> d.done) /\ e.decisions = d.decisions
      /\ Sound(e, dispatched, spent) /\ Grows(d, e) /\ e # None
  <2>1. "PREPARED" \in Statuses
    BY DEF Statuses
  <2>2. /\ e \in RunState /\ e.seen = d.seen /\ e.phase = d.phase
        /\ e.cycles = d.cycles /\ (e.done <=> d.done) /\ e.decisions = d.decisions
    BY <1>5, <1>8, <2>1, CallPending
  <2>3. Sound(e, dispatched, spent) /\ Grows(d, e)
    BY <1>5, <1>7, <1>8, <2>1, PendingIsSound
  <2> QED BY <2>2, <2>3, AutoRunAssumption
<1>10. Copy("dispatch", mem[p], e, work[p], dispatched, spent)
  <2>1. pc[p] \in Looping /\ "dispatch" \in Looping
    BY <1>1 DEF Looping
  <2> QED BY <1>3, <1>4, <1>9, <2>1, LoopCopy
<1>11. /\ Put(pc, pc', Commands, p, "dispatch") /\ Put(mem, mem', Commands, p, mem[p])
       /\ Put(disk, disk', Runs, run[p], e) /\ Put(work, work', Commands, p, work[p])
  <2>1. disk' = [disk EXCEPT ![run[p]] = e]
    BY <1>1, <1>4, <1>6, <1>8
  <2> QED BY <1>1, <1>3, <2>1, PutOne, PutNothing
<1>12. NewCalls(p, "dispatch", work[p])
  BY <1>1, NoNewCalls
<1>13. /\ Sound(e, dispatched', spent') /\ Copy("dispatch", mem[p], e, work[p], dispatched', spent')
       /\ UNCHANGED <<run, limit, orphaned>> /\ Grows(disk[run[p]], e)
  BY <1>1, <1>4, <1>9, <1>10
<1> QED BY <1>2, <1>3, <1>11, <1>12, <1>13, RunStep

\* A call is sent under the number it was prepared with.
LEMMA DispatchCallKeeps ==
  ASSUME LeaseInv, CallsInv, NEW p \in Commands, DispatchCall(p)
  PROVE  CallsInv' /\ LedgerKept
<1>1. /\ pc[p] = "dispatch" /\ dispatched' = dispatched \cup {NextCall}
      /\ disk' = [disk EXCEPT ![run[p]] = PersistPendingCall(disk[run[p]], NextCall, "DISPATCHED")]
      /\ pc' = [pc EXCEPT ![p] = "sent"] /\ work' = [work EXCEPT ![p].id = NextCall]
      /\ UNCHANGED <<run, mem, spent, orphaned, limit>>
  BY DEF DispatchCall, Goto
<1>2. pc[p] \notin Ended /\ pc[p] # "sent" /\ "sent" \in Labels \ Ended /\ limit.routed
  BY <1>1 DEF Ended, Labels, LeaseInv, UnroutedIsFree, Unrouted
<1>3. /\ p \in Alive /\ run[p] \in Runs /\ work[p] \in Work
      /\ DOMAIN pc = Commands /\ DOMAIN mem = Commands /\ DOMAIN work = Commands /\ DOMAIN disk = Runs
      /\ Copy(pc[p], mem[p], disk[run[p]], work[p], dispatched, spent)
      /\ (disk[run[p]] # None => Sound(disk[run[p]], dispatched, spent))
  BY <1>2, Here
<1>4. PICK d : d = disk[run[p]]
  OBVIOUS
<1>5. /\ d # None /\ Sound(d, dispatched, spent) /\ d.phase \in Implementing /\ d \in RunState
  BY <1>1, <1>3, <1>4 DEF Copy, Looping, InLoop, Sound
<1>6. PICK c \in Calls : c = NextCall
  BY <1>1 DEF CallsInv, Ready
<1>7. c \notin CallIds(d) /\ dispatched' \cup spent = 1..c /\ c \in Nat
  BY <1>1, <1>5, <1>6, FreshCall DEF CallsInv, Sound
<1>8. PICK e : e = PersistPendingCall(d, c, "DISPATCHED")
  OBVIOUS
<1>9. /\ e \in RunState /\ e.seen = d.seen /\ e.phase = d.phase
      /\ e.cycles = d.cycles /\ (e.done <=> d.done) /\ e.decisions = d.decisions
      /\ e.pending = [id |-> c, status |-> "DISPATCHED"]
      /\ Sound(e, dispatched, spent) /\ Grows(d, e) /\ e # None
  <2>1. "DISPATCHED" \in Statuses
    BY DEF Statuses
  <2>2. /\ e \in RunState /\ e.seen = d.seen /\ e.phase = d.phase
        /\ e.cycles = d.cycles /\ (e.done <=> d.done) /\ e.decisions = d.decisions
        /\ e.pending = [id |-> c, status |-> "DISPATCHED"]
    BY <1>5, <1>8, <2>1, CallPending
  <2>3. Sound(e, dispatched, spent) /\ Grows(d, e)
    BY <1>5, <1>7, <1>8, <2>1, PendingIsSound
  <2> QED BY <2>2, <2>3, AutoRunAssumption
<1> DEFINE w == [work[p] EXCEPT !.id = c]
<1>10. w \in Work /\ w.id = c /\ (w.strong <=> work[p].strong)
  BY <1>3 DEF Work
<1>11. /\ Put(pc, pc', Commands, p, "sent") /\ Put(mem, mem', Commands, p, mem[p])
       /\ Put(disk, disk', Runs, run[p], e) /\ Put(work, work', Commands, p, w)
  <2>1. disk' = [disk EXCEPT ![run[p]] = e]
    BY <1>1, <1>4, <1>6, <1>8
  <2>2. Put(work, work', Commands, p, w)
    BY <1>1, <1>3, <1>6 DEF Put
  <2> QED BY <1>1, <1>3, <2>1, <2>2, PutOne, PutNothing
<1> HIDE DEF w
<1>12. /\ dispatched \subseteq dispatched' /\ spent \subseteq spent' /\ c \in dispatched'
       /\ dispatched' \subseteq dispatched \cup {c}
  BY <1>1, <1>6
<1>13. Copy("sent", mem[p], e, w, dispatched', spent')
  <2>1. pc[p] \in Looping /\ "sent" \in Looping
    BY <1>1 DEF Looping
  <2>2. Copy(pc[p], mem[p], d, work[p], dispatched', spent')
    BY <1>3, <1>4, <1>12, CopyLater
  <2> QED BY <1>9, <1>10, <1>12, <2>1, <2>2, LoopCopy
<1>14. NewCalls(p, "sent", w)
  <2>1. Known'
    BY <1>1, <1>7 DEF Known
  <2>2. spent' \subseteq Calls /\ dispatched' \subseteq Calls /\ pc[p] \in Driving
    BY <1>1, <1>6 DEF CallsInv, Typed1, Driving
  <2> QED BY <1>10, <1>12, <2>1, <2>2 DEF NewCalls
<1>15. Sound(e, dispatched', spent') /\ UNCHANGED <<run, limit, orphaned>> /\ Grows(disk[run[p]], e)
  BY <1>1, <1>4, <1>9, <1>12, SoundLater
<1> QED BY <1>2, <1>3, <1>10, <1>11, <1>13, <1>14, <1>15, RunStep

\* What the loop goes on with after a call.
LEMMA ContinueLoop ==
  ASSUME LeaseInv, CallsInv, NEW p \in Commands,
         NEW out \in {"turn", "transient", "final", "halted", "fatal"}, Continue(p, out)
  PROVE  \E l \in {"call", "settle"}, w \in Work :
           /\ pc' = [pc EXCEPT ![p] = l] /\ Put(work, work', Commands, p, w)
           /\ (w.strong <=> work[p].strong)
<1>1. work[p] \in Work /\ DOMAIN work = Commands
  BY DEF CallsInv, Typed1
<1>2. ASSUME NEW l \in {"call", "settle"}, NEW w \in Work, pc' = [pc EXCEPT ![p] = l],
             work' = [work EXCEPT ![p] = w], w.strong <=> work[p].strong
      PROVE  \E k \in {"call", "settle"}, v \in Work :
               /\ pc' = [pc EXCEPT ![p] = k] /\ Put(work, work', Commands, p, v)
               /\ (v.strong <=> work[p].strong)
  <2>1. Put(work, work', Commands, p, w)
    BY <1>1, <1>2, PutOne
  <2> QED BY <1>2, <2>1
<1>3. CASE /\ work' = [work EXCEPT ![p].turns = @ + 1, ![p].tries = 0]
           /\ pc' = [pc EXCEPT ![p] = "call"]
  <2> DEFINE n == work[p].turns + 1
             w == [work[p] EXCEPT !.turns = n, !.tries = 0]
  <2>1. n \in Nat
    BY <1>1 DEF Work
  <2>2. work' = [work EXCEPT ![p] = w]
    BY <1>1, <1>3
  <2> HIDE DEF n
  <2>3. w \in Work /\ w.strong = work[p].strong
    BY <1>1, <2>1 DEF Work
  <2> HIDE DEF w
  <2> QED BY <1>2, <1>3, <2>2, <2>3
<1>4. CASE work' = [work EXCEPT ![p].tries = @ + 1] /\ pc' = [pc EXCEPT ![p] = "call"]
  <2> DEFINE n == work[p].tries + 1
             w == [work[p] EXCEPT !.tries = n]
  <2>1. n \in Nat
    BY <1>1 DEF Work
  <2>2. work' = [work EXCEPT ![p] = w]
    BY <1>1, <1>4
  <2> HIDE DEF n
  <2>3. w \in Work /\ w.strong = work[p].strong
    BY <1>1, <2>1 DEF Work
  <2> HIDE DEF w
  <2> QED BY <1>2, <1>4, <2>2, <2>3
<1>5. ASSUME NEW x \in {"final", "halted", "fatal"}, work' = [work EXCEPT ![p].out = x],
             pc' = [pc EXCEPT ![p] = "settle"]
      PROVE  \E k \in {"call", "settle"}, v \in Work :
               /\ pc' = [pc EXCEPT ![p] = k] /\ Put(work, work', Commands, p, v)
               /\ (v.strong <=> work[p].strong)
  <2> DEFINE w == [work[p] EXCEPT !.out = x]
  <2>1. work' = [work EXCEPT ![p] = w]
    BY <1>1, <1>5
  <2>2. w \in Work /\ w.strong = work[p].strong
    BY <1>1 DEF Work
  <2> HIDE DEF w
  <2> QED BY <1>2, <1>5, <2>1, <2>2
<1>6. ASSUME work' = [work EXCEPT ![p].out = CASE out = "turn" -> "halted"
                                           [] out = "transient" ->
                                                IF work[p].tries > 0 THEN "halted" ELSE "fatal"
                                           [] OTHER -> out],
             pc' = [pc EXCEPT ![p] = "settle"]
      PROVE  \E x \in {"final", "halted", "fatal"} : work' = [work EXCEPT ![p].out = x]
  <2> DEFINE x == CASE out = "turn" -> "halted"
                    [] out = "transient" -> IF work[p].tries > 0 THEN "halted" ELSE "fatal"
                    [] OTHER -> out
  <2>1. x \in {"final", "halted", "fatal"}
    OBVIOUS
  <2>2. work' = [work EXCEPT ![p].out = x]
    BY <1>6
  <2> QED BY <2>1, <2>2
<1> QED BY <1>3, <1>4, <1>5, <1>6 DEF Continue, Goto

\* A call is archived once.
LEMMA Archived ==
  ASSUME NEW s \in RunState, \A a, b \in s.history : a.id = b.id => a = b,
         NEW c \in Calls, NEW x \in Statuses
  PROVE  LET h == Archive(s, c, x)
         IN  /\ h \in SUBSET Attempt /\ s.history \subseteq h /\ \E a \in h : a.id = c
             /\ \A a, b \in h : a.id = b.id => a = b
<1>1. s.history \in SUBSET Attempt /\ [id |-> c, status |-> x] \in Attempt
  BY DEF RunState, Attempt
<1>2. PICK a : a = [id |-> c, status |-> x]
  OBVIOUS
<1>3. a.id = c /\ a \in Attempt
  BY <1>1, <1>2
<1>4. CASE \E b \in s.history : b.id = c
  BY <1>1, <1>4 DEF Archive
<1>5. CASE ~\E b \in s.history : b.id = c
  <2>1. Archive(s, c, x) = s.history \cup {a}
    BY <1>2, <1>5 DEF Archive
  <2> QED BY <1>1, <1>3, <1>5, <2>1
<1> QED BY <1>4, <1>5

\* A call that has ended, in the record: charged, or of an unknown end.
LEMMA CallCompleted ==
  ASSUME NEW s, NEW D, NEW S, Sound(s, D, S), s.pending # None, NEW c \in Calls, s.pending.id = c, c \in D
  PROVE  LET t == CompleteKnownCall(s)
         IN  /\ Sound(t, D, S) /\ Grows(s, t) /\ t.pending = None /\ c \in Settled(t)
             /\ t.seen = s.seen /\ t.phase = s.phase /\ t.cycles = s.cycles
             /\ (t.done <=> s.done) /\ t.decisions = s.decisions
<1> DEFINE h == Archive(s, c, "COMPLETED")
           calls == Append(s.calls, c)
           t == [s EXCEPT !.history = h, !.calls = calls, !.pending = None]
<1>1. t = CompleteKnownCall(s)
  BY DEF CompleteKnownCall
<1>2. s \in RunState /\ c \notin CallIds(s) /\ \A a, b \in s.history : a.id = b.id => a = b
  BY DEF Sound
<1>3. /\ h \in SUBSET Attempt /\ s.history \subseteq h /\ \E a \in h : a.id = c
      /\ \A a, b \in h : a.id = b.id => a = b
  <2>1. "COMPLETED" \in Statuses
    BY DEF Statuses
  <2> QED BY <1>2, <2>1, Archived
<1>4. calls \in Seq(Calls \cup {ByModelName})
  BY <1>2 DEF RunState
<1>5. calls = Append(s.calls, c)
  OBVIOUS
<1> HIDE DEF h, calls
<1>6. t \in RunState
  BY <1>2, <1>3, <1>4 DEF RunState
<1>7. /\ t.calls = calls /\ t.history = h /\ t.pending = None
      /\ t.seen = s.seen /\ t.phase = s.phase /\ t.cycles = s.cycles /\ t.next = s.next
      /\ t.done = s.done /\ t.decisions = s.decisions
  BY <1>2 DEF RunState
<1> HIDE DEF t
<1>8. IsInjective(t.calls) /\ CallIds(t) = CallIds(s) \cup {c} /\ IsPrefix(s.calls, t.calls)
  BY <1>2, <1>5, <1>7, OneCharged DEF Sound
<1>9. Bounded(t)
  BY <1>7 DEF Sound, Bounded
<1>10. CallIds(t) \subseteq D \cup S
  BY <1>8 DEF Sound
<1>11. Sound(t, D, S)
  BY <1>3, <1>6, <1>7, <1>8, <1>9, <1>10 DEF Sound
<1>12. Grows(s, t)
  <2>1. s.decisions \in Nat /\ s.seen \in Nat /\ t # None
    BY <1>2, <1>6, AutoRunAssumption DEF RunState
  <2> QED BY <1>3, <1>7, <1>8, <2>1 DEF Grows
<1>13. c \in Settled(t)
  BY <1>8 DEF Settled
<1> QED BY <1>1, <1>7, <1>11, <1>12, <1>13

LEMMA CallUnknown ==
  ASSUME NEW s, NEW D, NEW S, Sound(s, D, S), s.pending # None, NEW c \in Calls, s.pending.id = c, c \in D
  PROVE  LET t == MarkPendingCallUnknown(s, c)
         IN  /\ Sound(t, D, S) /\ Grows(s, t) /\ t.pending # None /\ t.pending.id = c
             /\ c \in Settled(t)
             /\ t.seen = s.seen /\ t.phase = s.phase /\ t.cycles = s.cycles
             /\ (t.done <=> s.done) /\ t.decisions = s.decisions
<1> DEFINE h == Archive(s, c, "UNKNOWN_AFTER_CRASH")
           a == [s.pending EXCEPT !.status = "UNKNOWN_AFTER_CRASH"]
           t == [s EXCEPT !.history = h, !.pending = a]
<1>2. s \in RunState /\ c \notin CallIds(s) /\ \A x, y \in s.history : x.id = y.id => x = y
  BY DEF Sound
<1>3. s.pending \in Attempt
  BY <1>2 DEF RunState
<1>4. /\ h \in SUBSET Attempt /\ s.history \subseteq h /\ \E x \in h : x.id = c
      /\ \A x, y \in h : x.id = y.id => x = y
  <2>1. "UNKNOWN_AFTER_CRASH" \in Statuses
    BY DEF Statuses
  <2> QED BY <1>2, <2>1, Archived
<1>5. a \in Attempt /\ a.id = c
  BY <1>3 DEF Attempt, Statuses
<1>1. t = MarkPendingCallUnknown(s, c)
  <2>1. MarkPendingCallUnknown(s, c) = [s EXCEPT !.history = h, !.pending.status = "UNKNOWN_AFTER_CRASH"]
    BY DEF MarkPendingCallUnknown
  <2>2. [s EXCEPT !.history = h, !.pending.status = "UNKNOWN_AFTER_CRASH"] = [s EXCEPT !.history = h, !.pending = a]
    <3> HIDE DEF h
    <3> QED BY <1>2, <1>3 DEF RunState
  <2> QED BY <2>1, <2>2
<1> HIDE DEF h, a
<1>6. t \in RunState
  BY <1>2, <1>4, <1>5 DEF RunState
<1>7. /\ t.calls = s.calls /\ t.history = h /\ t.pending = a
      /\ t.seen = s.seen /\ t.phase = s.phase /\ t.cycles = s.cycles /\ t.next = s.next
      /\ t.done = s.done /\ t.decisions = s.decisions
  BY <1>2 DEF RunState
<1> HIDE DEF t
<1>8. CallIds(t) = CallIds(s) /\ a # None
  BY <1>5, <1>7, AutoRunAssumption DEF CallIds
<1>9. Bounded(t) /\ IsInjective(t.calls) /\ CallIds(t) \subseteq D \cup S
  BY <1>7, <1>8 DEF Sound, Bounded
<1>10. Sound(t, D, S)
  BY <1>2, <1>4, <1>5, <1>6, <1>7, <1>8, <1>9 DEF Sound
<1>11. Grows(s, t)
  <2>1. s.decisions \in Nat /\ s.seen \in Nat /\ t # None
    BY <1>2, <1>6, AutoRunAssumption DEF RunState
  <2>2. IsPrefix(s.calls, s.calls)
    BY <1>2, PrefixOfItself DEF RunState
  <2> QED BY <1>4, <1>7, <2>1, <2>2 DEF Grows
<1>12. c \in Settled(t)
  BY <1>4, <1>7 DEF Settled
<1> QED BY <1>1, <1>5, <1>7, <1>8, <1>10, <1>11, <1>12

\* An answer, or its loss, settles the call that was sent.
LEMMA CallEnds ==
  ASSUME LeaseInv, CallsInv, NEW p \in Commands, CallAnswered(p) \/ CallLost(p)
  PROVE  CallsInv' /\ LedgerKept
<1>1. pc[p] = "sent" /\ pc[p] \notin Ended /\ UNCHANGED <<run, mem, dispatched, spent, orphaned, limit>>
  BY DEF CallAnswered, CallLost, Ended
<1>2. limit.routed
  BY <1>1 DEF LeaseInv, UnroutedIsFree, Unrouted
<1>3. /\ p \in Alive /\ run[p] \in Runs /\ work[p] \in Work
      /\ DOMAIN pc = Commands /\ DOMAIN mem = Commands /\ DOMAIN work = Commands /\ DOMAIN disk = Runs
      /\ Copy(pc[p], mem[p], disk[run[p]], work[p], dispatched, spent)
      /\ (disk[run[p]] # None => Sound(disk[run[p]], dispatched, spent))
  BY <1>1, Here
<1>4. PICK d, c : d = disk[run[p]] /\ c = work[p].id
  OBVIOUS
<1>5. /\ d # None /\ Sound(d, dispatched, spent) /\ c \in Calls /\ c \in dispatched
      /\ d.pending = [id |-> c, status |-> "DISPATCHED"]
  BY <1>1, <1>3, <1>4 DEF Copy, CallsInv, Typed1
<1>6. d.pending # None /\ d.pending.id = c
  <2>1. d.pending \in Attempt
    BY <1>5 DEF Attempt, Statuses
  <2> QED BY <1>5, <2>1, AutoRunAssumption
<1>7. PICK e : /\ e \in {CompleteKnownCall(d), MarkPendingCallUnknown(d, c)}
               /\ disk' = [disk EXCEPT ![run[p]] = e]
  BY <1>4 DEF CallAnswered, CallLost
<1>8. /\ Sound(e, dispatched, spent) /\ Grows(d, e) /\ c \in Settled(e)
      /\ e.pending # None => e.pending.id = c
      /\ e.seen = d.seen /\ e.phase = d.phase /\ e.cycles = d.cycles
      /\ (e.done <=> d.done) /\ e.decisions = d.decisions
  <2>1. CASE e = CompleteKnownCall(d)
    BY <1>5, <1>6, <2>1, CallCompleted
  <2>2. CASE e = MarkPendingCallUnknown(d, c)
    BY <1>5, <1>6, <2>2, CallUnknown
  <2> QED BY <1>7, <2>1, <2>2
<1>9. PICK l \in {"call", "settle"}, w \in Work :
        /\ pc' = [pc EXCEPT ![p] = l] /\ Put(work, work', Commands, p, w)
        /\ (w.strong <=> work[p].strong)
  BY ContinueLoop DEF CallAnswered, CallLost
<1>10. e # None
  BY <1>8, AutoRunAssumption DEF Sound
<1>11. Copy(l, mem[p], e, w, dispatched, spent)
  <2>1. pc[p] \in Looping /\ l \in Looping /\ l # "sent"
    BY <1>1 DEF Looping
  <2>2. e.pending # None => e.pending.id \in dispatched
    BY <1>5, <1>8
  <2>3. Copy(pc[p], mem[p], d, work[p], dispatched, spent)
    BY <1>3, <1>4
  <2>4. /\ l = "sent" => e.pending = [id |-> w.id, status |-> "DISPATCHED"] /\ w.id \in dispatched
        /\ l = "settle" => (e.pending # None => e.pending.id \in dispatched)
    BY <2>2
  <2>5. w.strong <=> work[p].strong
    BY <1>9
  <2> QED BY <1>8, <1>10, <2>1, <2>3, <2>4, <2>5, LoopCopy
<1>12. /\ Put(pc, pc', Commands, p, l) /\ Put(mem, mem', Commands, p, mem[p])
       /\ Put(disk, disk', Runs, run[p], e)
  BY <1>1, <1>3, <1>7, <1>9, PutOne, PutNothing
<1>13. l \in Labels \ Ended /\ l # "dispatch"
  BY DEF Labels, Ended
<1>14. NewCalls(p, l, w)
  BY <1>1, <1>13, NoNewCalls
<1>15. /\ Sound(e, dispatched', spent') /\ Copy(l, mem[p], e, w, dispatched', spent')
       /\ UNCHANGED <<run, limit, orphaned>> /\ Grows(disk[run[p]], e) /\ work[p].id \in Settled(e)
  BY <1>1, <1>4, <1>8, <1>11
<1> QED BY <1>2, <1>3, <1>9, <1>10, <1>12, <1>13, <1>14, <1>15, RunStep

\* What a command that observed a loop has in memory, and the file e with the observation.
Gathered(s, e, w, D, S) ==
  /\ s \in RunState /\ SameLedger(s, e) /\ s.calls = e.calls
  /\ s.phase = e.phase /\ s.cycles = e.cycles /\ ~s.done /\ ~e.done
  /\ Sound(e, D, S) /\ e.phase \in Implementing
  /\ e.pending # None => e.pending.id \in D
  /\ w.strong \/ s.cycles <= MaxRepairCycles

LEMMA Observes ==
  ASSUME LeaseInv, CallsInv, NEW p \in Commands, pc[p] = "settle"
  PROVE  \E d, e : /\ d = disk[run[p]] /\ d # None /\ e = Noted(d)
                   /\ Gathered(Observed(p), e, work[p], dispatched, spent) /\ Grows(d, e)
<1>1. pc[p] \notin Ended
  BY DEF Ended
<1>2. /\ Copy(pc[p], mem[p], disk[run[p]], work[p], dispatched, spent)
      /\ (disk[run[p]] # None => Sound(disk[run[p]], dispatched, spent))
  BY <1>1, Here
<1>3. PICK d, m : d = disk[run[p]] /\ m = mem[p]
  OBVIOUS
<1>4. /\ d # None /\ Sound(d, dispatched, spent) /\ d \in RunState /\ m \in RunState
      /\ InLoop(m, d, work[p]) /\ ~d.done /\ (d.pending # None => d.pending.id \in dispatched)
  BY <1>2, <1>3 DEF Copy, Looping, Sound
<1> DEFINE n == d.seen + 1
           e == [d EXCEPT !.seen = n]
           r == [m EXCEPT !.calls = d.calls, !.pending = d.pending, !.history = d.history,
                          !.decisions = d.decisions]
           k == r.seen + 1
           s == [r EXCEPT !.seen = k]
<1>5. n \in Nat /\ d.seen \in Nat /\ d.seen <= n
  BY <1>4 DEF RunState
<1>6. /\ e \in RunState /\ e.calls = d.calls /\ e.history = d.history /\ e.pending = d.pending
      /\ e.seen = n /\ e.phase = d.phase /\ e.cycles = d.cycles /\ e.next = d.next
      /\ (e.done <=> d.done) /\ e.decisions = d.decisions
  <2> HIDE DEF n
  <2> QED BY <1>4, <1>5, Seen
<1>7. /\ r \in RunState /\ r.calls = d.calls /\ r.pending = d.pending /\ r.history = d.history
      /\ r.decisions = d.decisions /\ r.seen = m.seen /\ r.phase = m.phase /\ r.cycles = m.cycles
      /\ r.done = m.done
  <2>1. d.calls \in Seq(Calls \cup {ByModelName}) /\ d.pending \in Attempt \cup {None}
        /\ d.history \in SUBSET Attempt /\ d.decisions \in Nat
    BY <1>4 DEF RunState
  <2>2. r \in RunState
    BY <1>4, <2>1 DEF RunState
  <2>3. /\ r.calls = d.calls /\ r.pending = d.pending /\ r.history = d.history
        /\ r.decisions = d.decisions /\ r.seen = m.seen /\ r.phase = m.phase /\ r.cycles = m.cycles
        /\ r.done = m.done
    BY <1>4 DEF RunState
  <2> QED BY <2>2, <2>3
<1>8. r = Reload(m, d)
  BY DEF Reload
<1>9. s = Observed(p)
  BY <1>3, <1>8 DEF Observed, Noted
<1> HIDE DEF r
<1>10. k = n /\ k \in Nat
  BY <1>4, <1>5, <1>7 DEF InLoop
<1>11. /\ s \in RunState /\ s.calls = r.calls /\ s.history = r.history /\ s.pending = r.pending
       /\ s.seen = k /\ s.phase = r.phase /\ s.cycles = r.cycles
       /\ (s.done <=> r.done) /\ s.decisions = r.decisions
  <2> HIDE DEF k
  <2> QED BY <1>7, <1>10, Seen
<1> HIDE DEF s, k
<1>12. e = Noted(d)
  BY DEF Noted
<1> HIDE DEF e, n
<1>13. Sound(e, dispatched, spent) /\ e # None
  BY <1>4, <1>6, SameIsSound, AutoRunAssumption
<1>14. SameLedger(s, e)
  BY <1>6, <1>7, <1>10, <1>11 DEF SameLedger
<1>15. Gathered(s, e, work[p], dispatched, spent)
  BY <1>4, <1>6, <1>7, <1>11, <1>13, <1>14 DEF Gathered, InLoop
<1>16. Grows(d, e)
  <2>1. IsPrefix(d.calls, d.calls) /\ d.decisions <= d.decisions
    BY <1>4, PrefixOfItself DEF RunState
  <2> QED BY <1>4, <1>5, <1>6, <1>13, <2>1 DEF Grows
<1> QED BY <1>3, <1>4, <1>9, <1>12, <1>15, <1>16

\* The copy changes its mind, never its ledger.
LEMMA FilesObserved ==
  ASSUME NEW s, NEW e, NEW w, NEW D, NEW S, Gathered(s, e, w, D, S), NEW c \in BOOLEAN
  PROVE  Gathered([s EXCEPT !.changed = c], e, w, D, S)
<1> DEFINE t == [s EXCEPT !.changed = c]
<1>1. s \in RunState
  BY DEF Gathered
<1>2. t \in RunState
  BY <1>1 DEF RunState
<1>3. /\ t.calls = s.calls /\ t.history = s.history /\ t.pending = s.pending
      /\ t.decisions = s.decisions /\ t.seen = s.seen /\ t.done = s.done
      /\ t.phase = s.phase /\ t.cycles = s.cycles
  BY <1>1 DEF RunState
<1> HIDE DEF t
<1>4. SameLedger(t, e)
  BY <1>3 DEF Gathered, SameLedger
<1>5. Gathered(t, e, w, D, S)
  BY <1>2, <1>3, <1>4 DEF Gathered
<1> QED BY <1>5 DEF t

LEMMA GatheredIsRephased ==
  ASSUME NEW s, NEW e, NEW w, NEW D, NEW S, Gathered(s, e, w, D, S), NEW t, Rephased(s, t), Bounded(t)
  PROVE  Sound(t, D, S) /\ SameLedger(t, e) /\ t.calls = e.calls
<1>1. Rephased(e, t)
  BY DEF Gathered, Rephased, SameLedger
<1>2. Sound(t, D, S)
  BY <1>1, RephasedIsSound DEF Gathered
<1> QED BY <1>1, <1>2 DEF Rephased

\* What may be settled: the copy t, saved or not, to go on from label l.
LEMMA SettleKeeps ==
  ASSUME LeaseInv, CallsInv, NEW p \in Commands, pc[p] = "settle", NEW t, NEW saved \in BOOLEAN,
         NEW l \in {"drive", "grant", "finish"}, NEW w \in Work, Settle(p, t, saved, l),
         Put(work, work', Commands, p, w), NEW s, NEW e, NEW d,
         d = disk[run[p]], d # None, e = Noted(d), Grows(d, e),
         Gathered(s, e, work[p], dispatched, spent), t.calls = e.calls, SameLedger(t, e),
         t \in RunState,
         l = "grant" => ~saved /\ t = s /\ (w.strong <=> work[p].strong),
         l # "grant" => Sound(t, dispatched, spent),
         l = "drive" => saved /\ ~t.done
  PROVE  CallsInv' /\ LedgerKept
<1>1. /\ pc[p] \notin Ended /\ pc[p] # "sent" /\ pc[p] \in Driving /\ limit.routed
      /\ l \in Labels \ Ended /\ l # "dispatch"
  BY DEF Ended, Driving, Labels, LeaseInv, UnroutedIsFree, Unrouted
<1>2. PICK f : f = IF saved THEN t ELSE e
  OBVIOUS
<1>3. /\ mem' = [mem EXCEPT ![p] = t] /\ pc' = [pc EXCEPT ![p] = l]
      /\ disk' = [disk EXCEPT ![run[p]] = f]
      /\ UNCHANGED <<run, dispatched, spent, orphaned, limit>>
  BY <1>2 DEF Settle, Goto
<1>4. /\ Sound(e, dispatched, spent) /\ ~e.done /\ e \in RunState /\ e # None /\ t # None
  BY AutoRunAssumption DEF Gathered, Sound
<1>5. f \in RunState /\ f # None /\ f.calls = e.calls /\ SameLedger(f, e)
  BY <1>2, <1>4 DEF SameLedger
<1>6. Sound(f, dispatched, spent)
  BY <1>2, <1>4
<1>7. Grows(d, f)
  <2>1. f.history = e.history /\ f.decisions = e.decisions /\ f.seen = e.seen
    BY <1>5 DEF SameLedger
  <2>2. d.done => f.done
    BY <1>4 DEF Grows
  <2> QED BY <1>5, <2>1, <2>2 DEF Grows
<1>8. SameLedger(t, f) /\ t.calls = f.calls /\ CallIds(t) \subseteq dispatched \cup spent
      /\ IsPrefix(f.calls, t.calls)
  <2>1. SameLedger(t, f) /\ t.calls = f.calls
    BY <1>5 DEF SameLedger
  <2>2. CallIds(t) = CallIds(e)
    BY DEF CallIds
  <2>3. IsPrefix(f.calls, f.calls)
    BY <1>5, PrefixOfItself DEF RunState
  <2> QED BY <1>4, <2>1, <2>2, <2>3 DEF Sound
<1>9. Copy(l, t, f, w, dispatched, spent)
  <2>1. CASE l = "grant"
    <3>1. t = s /\ f = e
      BY <1>2, <2>1
    <3>2. InLoop(t, f, w)
      BY <2>1, <3>1 DEF InLoop, Gathered, SameLedger
    <3> QED BY <1>4, <1>5, <1>8, <2>1, <3>1, <3>2 DEF Copy, Synced, Looping
  <2>2. CASE l = "drive"
    <3>1. t = f /\ ~f.done
      BY <1>2, <2>2
    <3> QED BY <1>5, <1>8, <2>2, <3>1 DEF Copy, Synced, Looping
  <2>3. CASE l = "finish"
    <3>1. f.done => t.done
      BY <1>2, <1>4
    <3> QED BY <1>5, <1>8, <2>3, <3>1 DEF Copy, Synced, Looping
  <2> QED BY <2>1, <2>2, <2>3
<1> QED BY <1>1, <1>3, <1>6, <1>7, <1>9, LoopStep

\* A run that stops after a loop.
LEMMA GatheredStops ==
  ASSUME NEW s, NEW e, NEW w, NEW D, NEW S, Gathered(s, e, w, D, S)
  PROVE  /\ Sound(Stopped(s), D, S) /\ SameLedger(Stopped(s), e) /\ Stopped(s).calls = e.calls
         /\ Stopped(s).done /\ Stopped(s) \in RunState
<1>1. s.cycles <= MaxRepairCycles + 1
  BY BoundedCycles DEF Gathered
<1>2. CallIds(s) = CallIds(e)
  BY DEF Gathered, CallIds
<1>3. /\ IsInjective(s.calls) /\ CallIds(s) \subseteq D \cup S
      /\ s.pending # None => s.pending.id \notin CallIds(s)
  BY <1>2 DEF Gathered, Sound, SameLedger
<1>4. /\ Sound(Stopped(s), D, S) /\ SameLedger(Stopped(s), e) /\ Stopped(s).calls = s.calls
      /\ Stopped(s).done
  BY <1>1, <1>3, StoppedIsSound DEF Gathered
<1> QED BY <1>4 DEF Gathered, Sound

\* A discovery with nothing to write to ends the run, or orders one repair by the strong model.
LEMMA GivenUp ==
  ASSUME NEW s \in RunState
  PROVE  LET t == [s EXCEPT !.flash = TRUE, !.done = TRUE]
         IN  Rephased(s, t) /\ t.phase = s.phase /\ t.cycles = s.cycles
<1> DEFINE t == [s EXCEPT !.flash = TRUE, !.done = TRUE]
<1>1. t \in RunState
  BY DEF RunState
<1>2. /\ t.calls = s.calls /\ t.history = s.history /\ t.pending = s.pending
      /\ t.decisions = s.decisions /\ t.seen = s.seen /\ t.done
      /\ t.phase = s.phase /\ t.cycles = s.cycles
  BY DEF RunState
<1> HIDE DEF t
<1>3. Rephased(s, t)
  BY <1>1, <1>2 DEF Rephased, SameLedger
<1> QED BY <1>2, <1>3 DEF t

LEMMA Escalated ==
  ASSUME NEW s \in RunState, NEW n \in Nat
  PROVE  LET t == [s EXCEPT !.flash = TRUE, !.next = TRUE, !.cycles = n, !.phase = "REPAIR_1"]
         IN  Rephased(s, t) /\ t.phase = "REPAIR_1" /\ t.cycles = n /\ t.next /\ (t.done <=> s.done)
<1> DEFINE t == [s EXCEPT !.flash = TRUE, !.next = TRUE, !.cycles = n, !.phase = "REPAIR_1"]
<1>1. t \in RunState
  BY DEF RunState, Phases
<1>2. /\ t.calls = s.calls /\ t.history = s.history /\ t.pending = s.pending
      /\ t.decisions = s.decisions /\ t.seen = s.seen /\ t.done = s.done
      /\ t.phase = "REPAIR_1" /\ t.cycles = n /\ t.next
  BY DEF RunState
<1> HIDE DEF t
<1>3. Rephased(s, t)
  BY <1>1, <1>2 DEF Rephased, SameLedger
<1> QED BY <1>2, <1>3 DEF t

LEMMA OneCycleMore ==
  ASSUME NEW n \in Nat, n <= MaxRepairCycles, NEW t, t.cycles = n + 1, t.phase = "REPAIR_1", t.next
  PROVE  Bounded(t)
<1>1. n + 1 <= MaxRepairCycles \/ n + 1 = MaxRepairCycles + 1
  BY AutoRunAssumption
<1> QED BY <1>1 DEF Bounded

LEMMA StageGateKeeps ==
  ASSUME LeaseInv, CallsInv, NEW p \in Commands, pc[p] = "settle", NEW s, NEW e, NEW d,
         d = disk[run[p]], d # None, e = Noted(d), Grows(d, e),
         Gathered(s, e, work[p], dispatched, spent), StageGate(p, s), UNCHANGED work
  PROVE  CallsInv' /\ LedgerKept
<1>1. s \in RunState /\ s.cycles \in Nat /\ ~s.done /\ s.phase \in Implementing
      /\ (work[p].strong \/ s.cycles <= MaxRepairCycles)
  BY DEF Gathered, RunState
<1>2. Put(work, work', Commands, p, work[p]) /\ work[p] \in Work
  BY PutNothing DEF CallsInv, Typed1
<1>3. CASE work[p].strong
  <2>1. Settle(p, Stopped(s), FALSE, "finish")
    BY <1>3 DEF StageGate
  <2>2. /\ Sound(Stopped(s), dispatched, spent) /\ SameLedger(Stopped(s), e)
        /\ Stopped(s).calls = e.calls /\ Stopped(s) \in RunState
    BY GatheredStops
  <2> QED BY <1>2, <2>1, <2>2, SettleKeeps
<1>4. CASE ~work[p].strong /\ ~limit.escalate
  <2> DEFINE t == [s EXCEPT !.flash = TRUE, !.done = TRUE]
  <2>1. Settle(p, t, FALSE, "finish")
    BY <1>4 DEF StageGate
  <2>2. Rephased(s, t) /\ t.phase = s.phase /\ t.cycles = s.cycles
    BY <1>1, GivenUp
  <2> HIDE DEF t
  <2>3. Bounded(t)
    BY <1>1, <1>4, <2>2 DEF Bounded
  <2>4. Sound(t, dispatched, spent) /\ SameLedger(t, e) /\ t.calls = e.calls /\ t \in RunState
    BY <2>2, <2>3, GatheredIsRephased DEF Rephased
  <2> QED BY <1>2, <2>1, <2>4, SettleKeeps
<1>5. CASE ~work[p].strong /\ limit.escalate
  <2> DEFINE n == s.cycles + 1
             t == [s EXCEPT !.flash = TRUE, !.next = TRUE, !.cycles = n, !.phase = "REPAIR_1"]
  <2>1. Settle(p, t, TRUE, "drive")
    BY <1>5 DEF StageGate
  <2>2. n \in Nat
    BY <1>1
  <2>3. Rephased(s, t) /\ t.phase = "REPAIR_1" /\ t.cycles = n /\ t.next /\ (t.done <=> s.done)
    <3> HIDE DEF n
    <3> QED BY <1>1, <2>2, Escalated
  <2> HIDE DEF t
  <2>4. Bounded(t)
    BY <1>1, <1>5, <2>3, OneCycleMore
  <2>5. Sound(t, dispatched, spent) /\ SameLedger(t, e) /\ t.calls = e.calls /\ t \in RunState /\ ~t.done
    BY <1>1, <2>3, <2>4, GatheredIsRephased DEF Rephased
  <2> QED BY <1>2, <2>1, <2>5, SettleKeeps
<1> QED BY <1>3, <1>4, <1>5

LEMMA SettleDiscoveryKeeps ==
  ASSUME LeaseInv, CallsInv, NEW p \in Commands, SettleDiscovery(p)
  PROVE  CallsInv' /\ LedgerKept
<1>1. pc[p] = "settle"
  BY DEF SettleDiscovery
<1>2. PICK d, e : /\ d = disk[run[p]] /\ d # None /\ e = Noted(d)
                  /\ Gathered(Observed(p), e, work[p], dispatched, spent) /\ Grows(d, e)
  BY <1>1, Observes
<1>3. PICK s : s = Observed(p)
  OBVIOUS
<1>4. Gathered(s, e, work[p], dispatched, spent)
  BY <1>2, <1>3
<1>5. work[p] \in Work /\ DOMAIN work = Commands
  BY DEF CallsInv, Typed1
<1>6. \/ /\ Settle(p, s, FALSE, "grant")
         /\ work' = [work EXCEPT ![p] = [FirstLoop EXCEPT !.failed = work[p].failed,
                                                         !.strong = work[p].strong]]
      \/ Settle(p, Stopped(s), FALSE, "finish") /\ UNCHANGED work
      \/ StageGate(p, s) /\ UNCHANGED work
  BY <1>3 DEF SettleDiscovery
<1>7. CASE /\ Settle(p, s, FALSE, "grant")
           /\ work' = [work EXCEPT ![p] = [FirstLoop EXCEPT !.failed = work[p].failed,
                                                           !.strong = work[p].strong]]
  <2> DEFINE w == [FirstLoop EXCEPT !.failed = work[p].failed, !.strong = work[p].strong]
  <2>1. w \in Work /\ w.strong = work[p].strong
    BY <1>5 DEF FirstLoop, Work
  <2>2. work' = [work EXCEPT ![p] = w]
    BY <1>7
  <2> HIDE DEF w
  <2>3. Put(work, work', Commands, p, w)
    BY <1>5, <2>2, PutOne
  <2>4. s \in RunState /\ SameLedger(s, e) /\ s.calls = e.calls
    BY <1>4 DEF Gathered
  <2> QED BY <1>1, <1>2, <1>4, <1>7, <2>1, <2>3, <2>4, SettleKeeps
<1>8. CASE Settle(p, Stopped(s), FALSE, "finish") /\ UNCHANGED work
  <2>1. /\ Sound(Stopped(s), dispatched, spent) /\ SameLedger(Stopped(s), e)
        /\ Stopped(s).calls = e.calls /\ Stopped(s) \in RunState
    BY <1>4, GatheredStops
  <2>2. Put(work, work', Commands, p, work[p])
    BY <1>5, <1>8, PutNothing
  <2> QED BY <1>1, <1>2, <1>4, <1>5, <1>8, <2>1, <2>2, SettleKeeps
<1>9. CASE StageGate(p, s) /\ UNCHANGED work
  BY <1>1, <1>2, <1>4, <1>9, StageGateKeeps
<1> QED BY <1>6, <1>7, <1>8, <1>9

LEMMA SettleWriterKeeps ==
  ASSUME LeaseInv, CallsInv, NEW p \in Commands, SettleWriter(p)
  PROVE  CallsInv' /\ LedgerKept
<1>1. pc[p] = "settle" /\ UNCHANGED work
  BY DEF SettleWriter
<1>2. PICK d, e : /\ d = disk[run[p]] /\ d # None /\ e = Noted(d)
                  /\ Gathered(Observed(p), e, work[p], dispatched, spent) /\ Grows(d, e)
  BY <1>1, Observes
<1>3. work[p] \in Work /\ DOMAIN work = Commands
  BY DEF CallsInv, Typed1
<1>4. \E dirty \in {mem[p].changed, TRUE} :
        LET s == [Observed(p) EXCEPT !.changed = dirty]
        IN  \/ \E saved \in BOOLEAN : Settle(p, Stopped(s), saved, "finish")
            \/ Settle(p, [s EXCEPT !.phase = "VERIFY"], TRUE, "drive")
  BY DEF SettleWriter
<1>5. PICK dirty \in {mem[p].changed, TRUE} :
        \/ \E saved \in BOOLEAN : Settle(p, Stopped([Observed(p) EXCEPT !.changed = dirty]), saved, "finish")
        \/ Settle(p, [[Observed(p) EXCEPT !.changed = dirty] EXCEPT !.phase = "VERIFY"], TRUE, "drive")
  BY <1>4
<1>6. dirty \in BOOLEAN
  <2>1. pc[p] \notin Ended
    BY <1>1 DEF Ended
  <2>2. mem[p] \in RunState
    BY <2>1, Here DEF Copy
  <2> QED BY <2>2 DEF RunState
<1>7. PICK s : s = [Observed(p) EXCEPT !.changed = dirty]
  OBVIOUS
<1>8. Gathered(s, e, work[p], dispatched, spent)
  BY <1>2, <1>6, <1>7, FilesObserved
<1>9. Put(work, work', Commands, p, work[p])
  BY <1>1, <1>3, PutNothing
<1>10. ASSUME NEW saved \in BOOLEAN, Settle(p, Stopped(s), saved, "finish")
       PROVE  CallsInv' /\ LedgerKept
  <2>1. /\ Sound(Stopped(s), dispatched, spent) /\ SameLedger(Stopped(s), e)
        /\ Stopped(s).calls = e.calls /\ Stopped(s) \in RunState
    BY <1>8, GatheredStops
  <2> QED BY <1>1, <1>2, <1>3, <1>8, <1>9, <1>10, <2>1, SettleKeeps
<1>11. CASE Settle(p, [s EXCEPT !.phase = "VERIFY"], TRUE, "drive")
  <2> DEFINE t == [s EXCEPT !.phase = "VERIFY"]
  <2>1. "VERIFY" \in Phases /\ s \in RunState
    BY <1>8 DEF Phases, Gathered
  <2>2. Rephased(s, t) /\ t.phase = "VERIFY" /\ t.cycles = s.cycles /\ t.next = s.next /\ (t.done <=> s.done)
    BY <2>1, PhaseChanged
  <2>3. Settle(p, t, TRUE, "drive")
    BY <1>11
  <2> HIDE DEF t
  <2>4. Bounded(t)
    <3>1. t.cycles \in Nat /\ t.cycles <= MaxRepairCycles + 1 /\ MaxRepairCycles \in Nat
      BY <1>8, <2>2, BoundedCycles, AutoRunAssumption DEF Gathered
    <3>2. t.cycles <= MaxRepairCycles \/ t.cycles = MaxRepairCycles + 1
      BY <3>1
    <3> QED BY <2>2, <3>2 DEF Bounded, Implementing
  <2>5. Sound(t, dispatched, spent) /\ SameLedger(t, e) /\ t.calls = e.calls /\ t \in RunState /\ ~t.done
    BY <1>8, <2>2, <2>4, GatheredIsRephased DEF Rephased, Gathered
  <2> QED BY <1>1, <1>2, <1>3, <1>8, <1>9, <2>3, <2>5, SettleKeeps
<1> QED BY <1>5, <1>7, <1>10, <1>11

-----------------------------------------------------------------------------
(* The theorems about the records.                                          *)

LEMMA InitCalls ==
  ASSUME Init
  PROVE  CallsInv
<1>1. Alive = {} /\ \A r \in Runs : disk[r] = None
  BY DEF Init, Alive, Ended
<1>2. Driven /\ Filed
  BY <1>1 DEF Driven, Filed
<1>3. dispatched \cup spent = 1..0
  BY DEF Init
<1>4. Known
  BY <1>3 DEF Known
<1>5. Ready /\ Kept
  BY DEF Init, Ready, Kept
<1>6. Typed1
  <2>1. FirstLoop \in Work
    BY DEF FirstLoop, Work
  <2> QED BY <2>1 DEF Init, Typed1
<1> QED BY <1>2, <1>4, <1>5, <1>6 DEF CallsInv

\* The records are not in the lease file.
LEMMA CallsUntouched ==
  ASSUME CallsInv, UNCHANGED <<pc, run, mem, work, disk, dispatched, spent, orphaned, limit>>
  PROVE  CallsInv' /\ LedgerKept
<1>1. Driven'
  BY DEF CallsInv, Driven, Alive
<1>2. Filed' /\ Known' /\ Kept' /\ Typed1'
  BY DEF CallsInv, Filed, Known, Kept, Typed1, Alive
<1>3. Ready'
  BY DEF CallsInv, Ready, NextCall
<1>4. LedgerKept
  <2> SUFFICES ASSUME NEW r \in Runs PROVE Grows(disk[r], disk'[r])
    BY DEF LedgerKept
  <2>1. CASE disk[r] = None
    BY <2>1 DEF Grows
  <2>2. CASE disk[r] # None
    <3>1. disk[r] \in RunState
      BY <2>2 DEF CallsInv, Filed, Sound
    <3> QED BY <3>1, GrowsItself
  <2> QED BY <2>1, <2>2
<1> QED BY <1>1, <1>2, <1>3, <1>4 DEF CallsInv

LEMMA StepKeepsCalls ==
  ASSUME LeaseInv, CallsInv, NEW p \in Commands, Step(p)
  PROVE  CallsInv' /\ LedgerKept
<1>1. CASE Classify(p)
  BY <1>1, ClassifyKeeps
<1>2. CASE \/ FindLease(p) \/ CreateOrLose(p) \/ WriteLease(p) \/ CaptureBaseline(p)
           \/ BeginAttempt(p) \/ ClearWriter(p)
  BY <1>2, LeaseStepsKeep
<1>3. CASE RecordPreflight(p)
  BY <1>3, RecordPreflightKeeps
<1>4. CASE \/ SkipScout(p) \/ NoArbiter(p) \/ VerifyFlaky(p) \/ VerifyPassed(p) \/ VerifyFailed(p)
           \/ ApplyDecision(p)
  BY <1>4, PhaseStepsKeep
<1>5. CASE RouteAttempt(p) \/ GrantWriter(p) \/ AssignWriter(p)
  BY <1>5, RouteAttemptKeeps, GrantKeeps
<1>6. CASE PrepareCall(p) \/ DispatchCall(p) \/ CallAnswered(p) \/ CallLost(p)
  BY <1>6, PrepareCallKeeps, DispatchCallKeeps, CallEnds
<1>7. CASE SettleDiscovery(p) \/ SettleWriter(p)
  BY <1>7, SettleDiscoveryKeeps, SettleWriterKeeps
<1>8. CASE GuardedCall(p) \/ GuardedReply(p)
  BY <1>8, GuardedCallKeeps, GuardedReplyKeeps
<1>9. CASE Finish(p) \/ Release(p) \/ GiveUp(p)
  BY <1>9, FinishKeeps, EndKeepsCalls
<1> QED BY <1>1, <1>2, <1>3, <1>4, <1>5, <1>6, <1>7, <1>8, <1>9 DEF Step

LEMMA NextKeepsCalls ==
  ASSUME LeaseInv, CallsInv, ~ResumeLive, [Next]_vars
  PROVE  CallsInv' /\ LedgerKept
<1>1. ASSUME NEW p \in Commands, Begin(p) \/ Step(p) \/ Crash(p)
      PROVE  CallsInv' /\ LedgerKept
  BY <1>1, BeginKeepsCalls, StepKeepsCalls, EndKeepsCalls
<1>2. CASE ClearLease
  BY <1>2, CallsUntouched DEF ClearLease
<1>3. CASE UNCHANGED vars
  BY <1>3, CallsUntouched DEF vars
<1> QED BY <1>1, <1>2, <1>3 DEF Next

\* The run a command drives is its own, or none before it begins.
RunTyped == run \in [Commands -> Runs \cup {None}]

LEMMA NextKeepsRunTyped ==
  ASSUME LeaseInv, RunTyped, [Next]_vars
  PROVE  RunTyped'
<1>1. ASSUME NEW p \in Commands, Begin(p) PROVE RunTyped'
  <2>1. PICK r \in limit.runs : run' = [run EXCEPT ![p] = r]
    BY <1>1 DEF Begin, RunTask, ResumeTask, RunPreflight, Open
  <2>2. r \in Runs
    BY AutoRunAssumption DEF LeaseInv, Shape
  <2> QED BY <2>1, <2>2 DEF RunTyped
<1>2. ASSUME NEW p \in Commands, Step(p) PROVE UNCHANGED run
  <2>1. CASE \/ Classify(p) \/ FindLease(p) \/ CreateOrLose(p) \/ WriteLease(p) \/ RecordPreflight(p)
             \/ CaptureBaseline(p) \/ SkipScout(p) \/ BeginAttempt(p) \/ ClearWriter(p)
    BY <2>1 DEF Classify, FindLease, CreateOrLose, WriteLease, RecordPreflight, CaptureBaseline,
                SkipScout, BeginAttempt, ClearWriter, Refused, Stop, Remember, Save, SaveRunState
  <2>2. CASE \/ RouteAttempt(p) \/ GrantWriter(p) \/ AssignWriter(p) \/ PrepareCall(p)
             \/ DispatchCall(p) \/ CallAnswered(p) \/ CallLost(p)
    BY <2>2 DEF RouteAttempt, GrantWriter, AssignWriter, PrepareCall, DispatchCall, CallAnswered,
                CallLost, Stop, Remember
  <2>3. CASE SettleDiscovery(p) \/ SettleWriter(p)
    BY <2>3 DEF SettleDiscovery, SettleWriter, StageGate, Settle
  <2>4. CASE GuardedCall(p) \/ GuardedReply(p)
    BY <2>4 DEF GuardedCall, GuardedReply, Stop, Remember, Save, SaveRunState
  <2>5. CASE NoArbiter(p) \/ VerifyFlaky(p) \/ VerifyPassed(p) \/ VerifyFailed(p) \/ ApplyDecision(p)
    BY <2>5 DEF NoArbiter, VerifyFlaky, VerifyPassed, VerifyFailed, ApplyDecision, OrderRepair,
                Stop, Remember, Save, SaveRunState
  <2>6. CASE Finish(p) \/ Release(p) \/ GiveUp(p)
    BY <2>6 DEF Finish, Release, GiveUp, Leave, Save, SaveRunState
  <2> QED BY <1>2, <2>1, <2>2, <2>3, <2>4, <2>5, <2>6 DEF Step
<1>3. ASSUME NEW p \in Commands, Crash(p) PROVE UNCHANGED run
  BY <1>3 DEF Crash, Leave
<1>4. ClearLease \/ UNCHANGED vars => UNCHANGED run
  BY DEF ClearLease, vars
<1>5. UNCHANGED run => RunTyped'
  BY DEF RunTyped
<1> QED BY <1>1, <1>2, <1>3, <1>4, <1>5 DEF Next

LEMMA CallsInvImpliesAccounted ==
  ASSUME LeaseInv, RunTyped, CallsInv
  PROVE  CallsAreAccounted
<1>1. TypeOK
  <2>1. \A p \in Commands : mem[p] = None \/ mem[p] \in RunState
    BY DEF CallsInv, Typed1, Driven, Copy
  <2>2. \A r \in Runs : disk[r] = None \/ disk[r] \in RunState
    BY DEF CallsInv, Filed, Sound
  <2> QED BY <2>1, <2>2 DEF TypeOK, LeaseTypeOK, LeaseInv, Shape, RunTyped, CallsInv, Typed1
<1>2. DispatchedIsAccounted
  <2> SUFFICES ASSUME NEW c \in dispatched \ orphaned
               PROVE  \E r \in Runs : disk[r] # None /\ c \in Accounted(disk[r])
    BY DEF DispatchedIsAccounted
  <2>1. CASE \E r \in Runs : disk[r] # None /\ c \in Settled(disk[r])
    BY <2>1 DEF Settled, Accounted
  <2>2. ASSUME NEW p \in Commands, pc[p] = "sent", work[p].id = c
        PROVE  \E r \in Runs : disk[r] # None /\ c \in Accounted(disk[r])
    <3>1. pc[p] \notin Ended
      BY <2>2 DEF Ended
    <3>2. run[p] \in Runs /\ Copy(pc[p], mem[p], disk[run[p]], work[p], dispatched, spent)
      BY <3>1, Here
    <3>3. PICK d : d = disk[run[p]]
      OBVIOUS
    <3>4. d # None /\ d.pending = [id |-> c, status |-> "DISPATCHED"]
      BY <2>2, <3>2, <3>3 DEF Copy
    <3>5. d.pending # None /\ d.pending.id = c
      <4>1. c \in Calls
        BY DEF CallsInv, Typed1
      <4>2. d.pending \in Attempt
        BY <3>4, <4>1 DEF Attempt, Statuses
      <4> QED BY <3>4, <4>2, AutoRunAssumption
    <3>6. c \in Accounted(d)
      BY <3>5 DEF Accounted
    <3> QED BY <3>2, <3>3, <3>4, <3>6
  <2> QED BY <2>1, <2>2 DEF CallsInv, Kept
<1>3. ChargedOnce
  BY DEF ChargedOnce, CallsInv, Filed, Sound
<1>4. RepairsBounded
  <2> SUFFICES ASSUME NEW r \in Runs, disk[r] # None PROVE disk[r].cycles <= MaxRepairCycles + 1
    BY DEF RepairsBounded
  <2>1. Sound(disk[r], dispatched, spent)
    BY DEF CallsInv, Filed
  <2> QED BY <2>1, BoundedCycles
<1> QED BY <1>1, <1>2, <1>3, <1>4 DEF CallsAreAccounted

LEMMA InvariantOfRecords ==
  ASSUME ~ResumeLive
  PROVE  Spec => [](LeaseInv /\ RunTyped /\ CallsInv)
<1>1. Init => LeaseInv /\ RunTyped /\ CallsInv
  <2>1. Init => RunTyped
    BY DEF Init, RunTyped
  <2> QED BY <2>1, InitImpliesLeaseInv, InitCalls
<1>2. LeaseInv /\ RunTyped /\ CallsInv /\ [Next]_vars => (LeaseInv /\ RunTyped /\ CallsInv)'
  BY NextKeepsLeaseInv, NextKeepsRunTyped, NextKeepsCalls
<1> QED BY <1>1, <1>2, PTL DEF Spec

\* What was paid for is on record (executor.ts, orchestrator.ts): when no run is resumed
\* that a live command drives, every call a provider was asked for is in the record of a
\* run unless its command crashed while it was under way, no call is charged twice and
\* the repairs stay within one of the configured number, for any number of runs, commands
\* and crashes.  Without the condition it is false: two copies of one record are saved.
THEOREM PaidCallsAreOnRecord ==
  ASSUME ~ResumeLive
  PROVE  Spec => []CallsAreAccounted
<1>1. LeaseInv /\ RunTyped /\ CallsInv => CallsAreAccounted
  BY CallsInvImpliesAccounted
<1> QED BY <1>1, InvariantOfRecords, PTL

\* A save takes nothing from a record (store.ts, saveRunState): under the same condition
\* the charges, attempts, decisions and observations of a record only grow, whichever
\* copy of it is saved, and a record that is done stays done.
THEOREM SavesLoseNothing ==
  ASSUME ~ResumeLive
  PROVE  Spec => LedgerGrows
<1> DEFINE Kind ==
      \A r \in Runs : disk[r] # None =>
        /\ IsPrefix(disk[r].calls, disk'[r].calls)
        /\ disk[r].history \subseteq disk'[r].history
        /\ disk[r].decisions <= disk'[r].decisions /\ disk[r].seen <= disk'[r].seen
        /\ disk[r].done => disk'[r].done
<1>1. LeaseInv /\ CallsInv /\ [Next]_vars => [Kind]_vars
  <2>1. LedgerKept => Kind
    BY DEF LedgerKept, Grows
  <2> QED BY <2>1, NextKeepsCalls
<1> QED BY <1>1, InvariantOfRecords, PTL DEF Spec, LedgerGrows
=============================================================================
