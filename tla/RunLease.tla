------------------------------- MODULE RunLease -------------------------------
(***************************************************************************)
(* The lease of a repository, .cc-auto/run-lock.json (runLease.ts): one    *)
(* file that says which command line invocation drives which run and       *)
(* whether that run may write to the working tree.  The file is created    *)
(* exclusively and rewritten in place, so it is unreadable for a moment;   *)
(* every rewrite and the removal first check that the caller owns it.      *)
(***************************************************************************)
CONSTANTS Runs, Commands,
          Free, \* no lease file
          Torn  \* the content of a lease file that was opened and not yet written

VARIABLE lock   \* the lease file: Free, Torn or the lease

Lease == [run : Runs, pid : Commands, writer : BOOLEAN]

ASSUME LeaseAssumption == Free # Torn /\ Free \notin Lease /\ Torn \notin Lease

LeaseTypeOK == lock \in Lease \cup {Free, Torn}

\* checkOwnership: a file that cannot be read is nobody's.
Owns(r, p) ==
  /\ lock \notin {Free, Torn}
  /\ lock.run = r
  /\ lock.pid = p

\* Mutated: the file is created whether it exists or not.
CreateAnyLease == lock' = Torn

\* openSync(lockPath, 'wx'): fails when another process made the file first.
CreateLease ==
  /\ lock = Free
  /\ lock' = Torn

FillLease(r, p) == lock' = [run |-> r, pid |-> p, writer |-> FALSE]

\* The file is truncated; what it held goes on in the caller's memory.
TearLease(r, p) ==
  /\ Owns(r, p)
  /\ lock' = Torn

SetWriter(r, p, assigned) == lock' = [run |-> r, pid |-> p, writer |-> assigned]

ReleaseRunLease(r, p) == lock' = IF Owns(r, p) THEN Free ELSE lock

\* What the messages of acquireRunLease ask of the user, who looks before removing
\* the file: the process it names has ended or, when it names none, no command runs.
RemoveByHand(alive) ==
  /\ lock # Free
  /\ IF lock = Torn THEN alive = {} ELSE lock.pid \notin alive
  /\ lock' = Free
=============================================================================
