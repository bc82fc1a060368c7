---------------------------- MODULE TaskLifecycle ----------------------------
(***************************************************************************)
(* What an analysis task promises to the rest of Radar, whoever executes    *)
(* it: the states of docs/technical/offerflow-v0.8-v8-4-reliable-single-    *)
(* analysis-design.md, section 4, and the rule that a formal result appears *)
(* in the very step that makes its task succeeded, and in no other.         *)
(***************************************************************************)
EXTENDS Naturals

CONSTANTS Tasks     \* task ids

VARIABLES
  phase,      \* the status of each task, "absent" before it is created
  published   \* the tasks whose formal result can be read

lifecycleVars == <<phase, published>>

Phases == {"absent", "queued", "running", "succeeded", "failed", "cancelled"}

TypeOK == phase \in [Tasks -> Phases] /\ published \subseteq Tasks

Init ==
  /\ phase = [t \in Tasks |-> "absent"]
  /\ published = {}

Move(t, from, to) ==
  /\ phase[t] \in from
  /\ phase' = [phase EXCEPT ![t] = to]

Create(t) == Move(t, {"absent"}, "queued") /\ UNCHANGED published
Begin(t) == Move(t, {"queued"}, "running") /\ UNCHANGED published
Succeed(t) == Move(t, {"running"}, "succeeded") /\ published' = published \cup {t}
Fail(t) == Move(t, {"running"}, "failed") /\ UNCHANGED published
Cancel(t) == Move(t, {"queued", "running"}, "cancelled") /\ UNCHANGED published
Retry(t) == Move(t, {"failed"}, "queued") /\ UNCHANGED published

Next == \E t \in Tasks :
  Create(t) \/ Begin(t) \/ Succeed(t) \/ Fail(t) \/ Cancel(t) \/ Retry(t)

Spec == Init /\ [][Next]_lifecycleVars
=============================================================================
