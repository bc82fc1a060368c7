----------------------------- MODULE MCDatabaseSync -----------------------------
(* Instances of DatabaseSync for TLC. *)
EXTENDS DatabaseSync, TLC

CONSTANTS m1, m2, server, other, script

\* A server and the script on one machine, a server on another that shares the directory.
MCHome == (server :> m1) @@ (other :> m2) @@ (script :> m1)

Upgraded == [Fresh EXCEPT !.schema = 3, !.meta = 3]
Limit(first, second, ops, writes, crashes, faults) ==
  [db |-> (m1 :> first) @@ (m2 :> second), ops |-> ops, writes |-> writes, crashes |-> crashes,
   faults |-> faults]
\* Writes under an export, a publication that fails, a corrupt or missing database, a
\* crash under the lock, and a database of a later schema.
MCAll == {Limit(Fresh, Fresh, 4, 2, 0, 0), Limit(None, Fresh, 4, 1, 0, 1),
          Limit(Fresh, Fresh, 4, 1, 1, 0), Limit(Upgraded, Fresh, 5, 1, 0, 0),
          Limit(Fresh, Fresh, 4, 0, 0, 2)}
=============================================================================
