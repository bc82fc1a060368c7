------------------------------- MODULE MCAutoRun -------------------------------
(* Instances of AutoRun for TLC. *)
EXTENDS AutoRun, TLC

Task(traits) ==
  [simple |-> "simple" \in traits, explicit |-> "explicit" \in traits, hard |-> "hard" \in traits,
   risky |-> "risky" \in traits, direct |-> "direct" \in traits]
Wide == Task({})
Plain == Task({"simple"})
Named == Task({"simple", "explicit"})
Single == Task({"simple", "explicit", "direct"})
Risky == Task({"explicit", "risky", "hard"})

Limit(routed, commands, runs, tasks, turns, retries, crashes, preflight, escalate) ==
  [routed |-> routed, commands |-> commands, runs |-> runs, tasks |-> tasks, turns |-> turns,
   retries |-> retries, crashes |-> crashes, preflight |-> preflight, escalate |-> escalate]
One == {CHOOSE r \in Runs : TRUE}
\* One command and long loops; two commands on two runs; resumed runs; the Claude command.
MCDeep == {Limit(TRUE, 1, One, {Named, Risky, Wide}, 1, 1, 0, FALSE, TRUE)}
MCTwoRuns == {Limit(TRUE, 2, Runs, {Named}, 1, 0, 0, TRUE, TRUE)}
MCResumed == {Limit(TRUE, 3, One, {Plain}, 1, 0, 2, TRUE, FALSE)}
MCGuarded == {Limit(FALSE, 3, One, {Named, Single, Risky, Wide}, 1, 0, 2, FALSE, TRUE)}
MCAll == MCDeep \cup MCTwoRuns \cup MCResumed \cup MCGuarded
=============================================================================
