----------------------------- MODULE MCBatchCapture -----------------------------
(* Instances of BatchCapture for TLC. *)
EXTENDS BatchCapture, TLC

CONSTANTS j1, j2, j3

\* Two jobs look alike; the panel of one of them has no link.
MCLook == (j1 :> "engineer") @@ (j2 :> "engineer") @@ (j3 :> "designer")

Limit(mounts, user, site, faults) ==
  [mounts |-> mounts, user |-> user, site |-> site, faults |-> faults]
\* One overlay that is paused and whose submission fails, one whose cards move, and a
\* second overlay while the loop of the first still waits.
MCAll == {Limit(1, 4, 0, 1), Limit(1, 3, 1, 1), Limit(2, 3, 0, 0)}
MCCard == {Limit(1, 2, 1, 0)}
=============================================================================
