------------------------------ MODULE DatabaseSync ------------------------------
(***************************************************************************)
(* The snapshot synchronisation (server/sync): processes -- servers and    *)
(* the script db:sync -- that keep a database in step with a pair of       *)
(* files, the snapshot and its manifest, in a directory several machines   *)
(* may share.  A process is sequential and its requests are synchronous,   *)
(* so the interleavings are between processes, at their file operations.   *)
(* A hash stands for the content it is of.                                 *)
(***************************************************************************)
EXTENDS Naturals

CONSTANTS Machines, Processes,
          Home,     \* the machine of each process
          Servers,  \* the processes that serve; the others are runs of the script
          Times,    \* values of updated_at
          None,
          Limits    \* what a behaviour may do, chosen at the start

VARIABLES db,       \* the database of each machine
          snapshot, \* the two files of the pair
          manifest,
          aside,    \* the files each process has renamed to make place for its own
          lock,     \* the lock file: who made it, and whether it is past its time
          pc, work, \* what each process does next, and what it has read
          torn,     \* what may have spoilt the pair since a publication last succeeded
                    \* alone: one was "cut" (by the end of its process, or two were under
                    \* way at once), or what cleans up after one "failed"
          taken,    \* a lock that was past its time has been removed
          lost,     \* machines whose corrupt database was put away and not yet recovered
          published, \* a publication has succeeded
          limit

files == <<snapshot, manifest, aside>>
history == <<torn, taken, lost, published>>
vars == <<db, files, lock, pc, work, history, limit>>

\* An application refers to its job (applications.job_id).
Tables == {"jobs", "applications"}
Row == [at : Times, by : Machines]
Rows == [Tables -> Row \cup {None}]
Empty == [t \in Tables |-> None]
Closed(rows) == rows["applications"] # None => rows["jobs"] # None

\* `schema' is the version of the last migration, `meta' what app_meta says it is.
Database == [rows : Rows, schema : {2, 3}, meta : {2, 3}, sound : BOOLEAN]
Lock == [by : Processes, old : BOOLEAN]
Content == [rows : Rows, meta : {2, 3}]
Fresh == [rows |-> Empty, schema |-> 2, meta |-> 2, sound |-> TRUE]

ASSUME SyncAssumption ==
  /\ Home \in [Processes -> Machines] /\ Servers \subseteq Processes /\ Times \subseteq Nat
  /\ None \notin Row /\ None \notin Content /\ None \notin Database /\ None \notin Lock
  \* A database a behaviour starts with is one the program may have left.
  /\ \A l \in Limits : /\ l.db \in [Machines -> Database \cup {None}]
                       /\ \A m \in Machines : l.db[m] # None => Closed(l.db[m].rows)

Operations == {"start", "recover", "import", "export", "run", "stop"}
Work == [op : Operations, read : Rows, content : Content \cup {None}, replaced : 0 .. 2,
         hadManifest : BOOLEAN]
Idle == [op |-> "start", read |-> Empty, content |-> None, replaced |-> 0, hadManifest |-> FALSE]

Undoing == {"dropSnapshot", "dropManifest", "backSnapshot", "backManifest"}
Publishing == {"asideManifest", "replace", "seal", "verify"} \cup Undoing
Locked == {"open", "tables", "rest", "snapshot", "manifest", "merge", "aside", "release"} \cup Publishing
Labels == {"down", "serving", "lock", "drop", "create"} \cup Locked
Runs == {p \in Processes : work[p].op = "run" /\ pc[p] \in Locked}

Goto(p, label) == pc' = [pc EXCEPT ![p] = label]
Rest(p) == IF p \in Servers THEN "serving" ELSE "down"
\* Where an operation goes when one of its parts is done, or has thrown.
AfterImport(p, ok) ==
  CASE work[p].op = "run"     -> IF ok THEN "tables" ELSE "release"
    [] work[p].op = "recover" -> IF ok THEN "serving" ELSE "down"
    [] OTHER                  -> "serving"
AfterExport(p) ==
  CASE work[p].op = "run"  -> "release"
    [] work[p].op = "stop" -> "down"
    [] OTHER               -> "serving"

Init ==
  /\ limit \in Limits
  /\ db = [m \in Machines |-> limit.db[m]]
  /\ snapshot = None /\ manifest = None
  /\ aside = [p \in Processes |-> [snapshot |-> None, manifest |-> None]]
  /\ lock = None
  /\ pc = [p \in Processes |-> "down"]
  /\ work = [p \in Processes |-> Idle]
  /\ torn = {} /\ taken = FALSE /\ lost = {} /\ published = FALSE

\* The database of a machine, made new where there is none.
Present(m) == IF db[m] = None THEN Fresh ELSE db[m]

Spend(what) == limit[what] > 0 /\ limit' = [limit EXCEPT ![what] = @ - 1]

-----------------------------------------------------------------------------
(* Starting and stopping. *)

\* A missing database is made new before anything is asked about it.
StartServer(p) ==
  LET m == Home[p]
      d == Present(m)
  IN  /\ pc[p] = "down" /\ p \in Servers
      /\ Spend("ops")
      /\ IF d.sound
         THEN /\ db' = [db EXCEPT ![m] = d]
              /\ work' = [work EXCEPT ![p] = [Idle EXCEPT !.op = "start"]]
              /\ Goto(p, IF snapshot = None THEN "serving" ELSE "snapshot")
              /\ UNCHANGED lost
         ELSE \* put away; without a snapshot the start fails here
              /\ db' = [db EXCEPT ![m] = IF snapshot = None THEN None ELSE Fresh]
              /\ lost' = lost \cup {m}
              /\ work' = [work EXCEPT ![p] = [Idle EXCEPT !.op = "recover"]]
              /\ Goto(p, IF snapshot = None THEN "down" ELSE "snapshot")
      /\ UNCHANGED <<files, lock, torn, taken, published>>

\* Routes of the server, the script, and the export of a server that closes.
Ask(p, op) ==
  /\ pc[p] = IF p \in Servers THEN "serving" ELSE "down"
  /\ p \notin Servers => op = "run"
  /\ Spend("ops")
  /\ work' = [work EXCEPT ![p] = [Idle EXCEPT !.op = op]]
  /\ Goto(p, CASE op = "run" -> "lock" [] op = "import" -> "snapshot" [] OTHER -> "tables")
  /\ UNCHANGED <<db, files, lock, history>>

\* What the user writes through the server.
WriteRow(p, t, at) ==
  LET m == Home[p]
      rows == [db[m].rows EXCEPT ![t] = [at |-> at, by |-> m]]
  IN  /\ pc[p] = "serving" /\ db[m] # None
      /\ db[m].rows[t] # None => db[m].rows[t].at < at
      /\ Closed(rows)
      /\ Spend("writes")
      /\ db' = [db EXCEPT ![m].rows = rows]
      /\ UNCHANGED <<files, lock, pc, work, history>>

-----------------------------------------------------------------------------
(* runSync: the lock around an import and an export. *)

FindLock(p) ==
  /\ pc[p] = "lock"
  /\ Goto(p, IF lock = None THEN "create" ELSE IF lock.old THEN "drop" ELSE Rest(p))
  /\ UNCHANGED <<db, files, lock, work, history, limit>>

\* The file that was past its time is removed by name, whoever's it is by now.
DropLock(p) ==
  /\ pc[p] = "drop"
  /\ IF lock = None THEN Goto(p, Rest(p)) ELSE Goto(p, "create")
  /\ lock' = None
  /\ taken' = TRUE
  /\ UNCHANGED <<db, files, work, torn, lost, published, limit>>

\* Mutated: the file is written over when it exists.
CreateAnyLock(p) ==
  /\ pc[p] = "create"
  /\ lock' = [by |-> p, old |-> FALSE]
  /\ Goto(p, "open")
  /\ UNCHANGED <<db, files, work, history, limit>>

CreateLock(p) ==
  /\ pc[p] = "create"
  /\ IF lock = None THEN lock' = [by |-> p, old |-> FALSE] /\ Goto(p, "open")
     ELSE UNCHANGED lock /\ Goto(p, Rest(p))
  /\ UNCHANGED <<db, files, work, history, limit>>

\* A missing database is made new; one that was upgraded or is not sound is refused.
OpenForRun(p) ==
  LET m == Home[p] IN
  /\ pc[p] = "open"
  /\ IF db[m] = None THEN db' = [db EXCEPT ![m] = Fresh] ELSE UNCHANGED db
  /\ Goto(p, IF db[m] # None /\ (db[m].schema > 2 \/ ~db[m].sound) THEN "release"
             ELSE IF snapshot = None THEN "tables" ELSE "snapshot")
  /\ UNCHANGED <<files, lock, work, history, limit>>

\* The file is removed whoever made it.
ReleaseLock(p) ==
  /\ pc[p] = "release"
  /\ lock' = None
  /\ Goto(p, Rest(p))
  /\ UNCHANGED <<db, files, work, history, limit>>

-----------------------------------------------------------------------------
(* importSnapshot. *)

ReadSnapshot(p) ==
  /\ pc[p] = "snapshot"
  /\ work' = [work EXCEPT ![p].content = snapshot]
  /\ Goto(p, IF snapshot = None THEN AfterImport(p, TRUE)
             ELSE IF manifest = None THEN AfterImport(p, FALSE) ELSE "manifest")
  /\ UNCHANGED <<db, files, lock, history, limit>>

ReadManifest(p) ==
  /\ pc[p] = "manifest"
  /\ Goto(p, IF manifest = work[p].content THEN "merge" ELSE AfterImport(p, FALSE))
  /\ UNCHANGED <<db, files, lock, work, history, limit>>

\* Mutated: the snapshot always wins.
RemoteWins(local, remote) == IF remote = None THEN local ELSE remote

\* A row that is missing is inserted, one that is older is replaced; what the snapshot
\* does not have stays.
MergeRow(local, remote) ==
  IF remote = None THEN local
  ELSE IF local = None THEN remote
  ELSE IF remote.at > local.at THEN remote ELSE local

Mergeable(d, rows) == d.schema = 2 /\ Closed(rows)

\* One transaction; app_meta is taken as it is. A missing database is made new for it.
Merge(p) ==
  LET m == Home[p]
      got == work[p].content
      d == Present(m)
      rows == [t \in Tables |-> MergeRow(d.rows[t], got.rows[t])]
      ok == Mergeable(d, rows)
  IN  /\ pc[p] = "merge"
      /\ db' = [db EXCEPT ![m] = IF ok THEN [d EXCEPT !.rows = rows, !.meta = got.meta] ELSE d]
      /\ lost' = IF ok THEN lost \ {m} ELSE lost
      /\ work' = [work EXCEPT ![p].content = None]
      /\ Goto(p, AfterImport(p, ok /\ d.sound))
      /\ UNCHANGED <<files, lock, torn, taken, published, limit>>

-----------------------------------------------------------------------------
(* exportSnapshot: the tables one after the other, then the pair by renames. *)

\* Nothing asks the doctor: of a damaged database the reads may succeed or throw.
Readable(d) == d # None /\ d.meta = d.schema

ReadJobs(p) ==
  LET d == db[Home[p]] IN
  /\ pc[p] = "tables"
  /\ \/ /\ Readable(d)
        /\ work' = [work EXCEPT ![p].read["jobs"] = d.rows["jobs"]]
        /\ Goto(p, "rest")
     \/ /\ Readable(d) => ~d.sound
        /\ UNCHANGED work /\ Goto(p, AfterExport(p))
  /\ UNCHANGED <<db, files, lock, history, limit>>

ReadRest(p) ==
  LET d == db[Home[p]] IN
  /\ pc[p] = "rest"
  /\ \/ /\ d # None
        /\ work' = [work EXCEPT ![p].content =
                     [rows |-> [work[p].read EXCEPT !["applications"] = d.rows["applications"]],
                      meta |-> d.meta]]
        /\ Goto(p, "aside")
     \/ /\ d # None => ~d.sound
        /\ UNCHANGED work /\ Goto(p, AfterExport(p))
  /\ UNCHANGED <<db, files, lock, history, limit>>

Cut(it) == IF it THEN {"cut"} ELSE {}

\* The file is renamed to a name of its own; so is the manifest, if it was there.
AsideSnapshot(p) ==
  /\ pc[p] = "aside"
  /\ aside' = [aside EXCEPT ![p] = [snapshot |-> snapshot, manifest |-> None]]
  /\ snapshot' = None
  /\ work' = [work EXCEPT ![p].hadManifest = manifest # None]
  /\ torn' = torn \cup Cut(\E q \in Processes : pc[q] \in Publishing)
  /\ Goto(p, "asideManifest")
  /\ UNCHANGED <<db, manifest, lock, taken, lost, published, limit>>

AsideManifest(p) ==
  /\ pc[p] = "asideManifest"
  /\ IF work[p].hadManifest /\ manifest = None THEN Goto(p, "dropSnapshot") ELSE Goto(p, "replace")
  /\ aside' = [aside EXCEPT ![p].manifest = IF work[p].hadManifest THEN manifest ELSE None]
  /\ manifest' = IF work[p].hadManifest THEN None ELSE manifest
  /\ UNCHANGED <<db, snapshot, lock, work, history, limit>>

ReplaceSnapshot(p) ==
  /\ pc[p] = "replace"
  /\ snapshot' = work[p].content
  /\ work' = [work EXCEPT ![p].replaced = 1]
  /\ Goto(p, "seal")
  /\ UNCHANGED <<db, manifest, aside, lock, history, limit>>

ReplaceManifest(p) ==
  /\ pc[p] = "seal"
  /\ manifest' = work[p].content
  /\ work' = [work EXCEPT ![p].replaced = 2]
  /\ Goto(p, "verify")
  /\ UNCHANGED <<db, snapshot, aside, lock, history, limit>>

NoAside == [snapshot |-> None, manifest |-> None]

\* The operation of a process that publishes is over; what it had put aside is removed.
EndPublication(p) ==
  /\ aside' = [aside EXCEPT ![p] = NoAside]
  /\ work' = [work EXCEPT ![p] = [Idle EXCEPT !.op = work[p].op]]
  /\ Goto(p, AfterExport(p))

Verified == snapshot # None /\ snapshot = manifest

VerifyPair(p) ==
  /\ pc[p] = "verify"
  /\ IF Verified
     THEN /\ EndPublication(p)
          /\ published' = TRUE
          /\ torn' = IF \E q \in Processes \ {p} : pc[q] \in Publishing THEN torn ELSE {}
     ELSE UNCHANGED <<aside, work, published, torn>> /\ Goto(p, "dropSnapshot")
  /\ UNCHANGED <<db, snapshot, manifest, lock, taken, lost, limit>>

\* A file operation fails; the first of them has nothing to undo.
PublishFails(p) ==
  /\ pc[p] \in {"aside", "asideManifest", "replace", "seal"}
  /\ Spend("faults")
  /\ Goto(p, IF pc[p] = "aside" THEN AfterExport(p) ELSE "dropSnapshot")
  /\ UNCHANGED <<db, files, lock, work, history>>

\* The pair is published, but one of the files put aside cannot be removed: everything is
\* undone, with the first of them when it was the second that could not be.
CleanupFails(p) ==
  /\ pc[p] = "verify" /\ Verified
  /\ Spend("faults")
  /\ \/ /\ aside[p].snapshot # None
        /\ UNCHANGED <<aside, torn>>
     \/ /\ aside[p].manifest # None
        /\ aside' = [aside EXCEPT ![p].snapshot = None]
        /\ torn' = torn \cup {"failed"}
  /\ Goto(p, "dropSnapshot")
  /\ UNCHANGED <<db, snapshot, manifest, lock, work, taken, lost, published>>

\* The undo: the files that took a place are removed, then those put aside return.
DropSnapshot(p) ==
  /\ pc[p] = "dropSnapshot"
  /\ snapshot' = IF work[p].replaced >= 1 THEN None ELSE snapshot
  /\ Goto(p, "dropManifest")
  /\ UNCHANGED <<db, manifest, aside, lock, work, history, limit>>

DropManifest(p) ==
  /\ pc[p] = "dropManifest"
  /\ manifest' = IF work[p].replaced >= 2 THEN None ELSE manifest
  /\ work' = [work EXCEPT ![p].replaced = 0] \* the loop over what was replaced is over
  /\ Goto(p, "backSnapshot")
  /\ UNCHANGED <<db, snapshot, aside, lock, history, limit>>

BackSnapshot(p) ==
  /\ pc[p] = "backSnapshot"
  /\ snapshot' = IF aside[p].snapshot # None THEN aside[p].snapshot ELSE snapshot
  /\ aside' = [aside EXCEPT ![p].snapshot = None]
  /\ Goto(p, "backManifest")
  /\ UNCHANGED <<db, manifest, lock, work, history, limit>>

\* Mutated: the manifest put aside is only removed.
LeaveManifest(p) ==
  /\ pc[p] = "backManifest"
  /\ EndPublication(p)
  /\ UNCHANGED <<db, snapshot, manifest, lock, history, limit>>

BackManifest(p) ==
  /\ pc[p] = "backManifest"
  /\ manifest' = IF aside[p].manifest # None THEN aside[p].manifest ELSE manifest
  /\ EndPublication(p)
  /\ UNCHANGED <<db, snapshot, lock, history, limit>>

\* One of these fails: the others are left out, and what is still aside is removed.
UndoFails(p) ==
  /\ \/ pc[p] = "dropSnapshot" /\ work[p].replaced >= 1 /\ snapshot # None
     \/ pc[p] = "dropManifest" /\ work[p].replaced >= 2 /\ manifest # None
     \/ pc[p] = "backSnapshot" /\ aside[p].snapshot # None
     \/ pc[p] = "backManifest" /\ aside[p].manifest # None
  /\ Spend("faults")
  /\ torn' = torn \cup {"failed"}
  /\ EndPublication(p)
  /\ UNCHANGED <<db, snapshot, manifest, lock, taken, lost, published>>

-----------------------------------------------------------------------------
(* Faults. *)

Crash(p) ==
  /\ pc[p] # "down"
  /\ Spend("crashes")
  /\ torn' = torn \cup Cut(pc[p] \in Publishing)
  /\ work' = [work EXCEPT ![p] = Idle]
  /\ Goto(p, "down")
  /\ UNCHANGED <<db, files, lock, taken, lost, published>>

\* A run is over long before its lock is past its time, unless it crashed.
AgeLock ==
  /\ lock # None
  /\ lock.by \notin Runs /\ ~lock.old
  /\ lock' = [lock EXCEPT !.old = TRUE]
  /\ UNCHANGED <<db, files, pc, work, history, limit>>

Corrupt(m) ==
  /\ db[m] # None /\ db[m].sound
  /\ Spend("faults")
  /\ db' = [db EXCEPT ![m].sound = FALSE]
  /\ UNCHANGED <<files, lock, pc, work, history>>

Step(p) ==
  \/ FindLock(p) \/ DropLock(p) \/ CreateLock(p) \/ OpenForRun(p) \/ ReleaseLock(p)
  \/ ReadSnapshot(p) \/ ReadManifest(p) \/ Merge(p) \/ ReadJobs(p) \/ ReadRest(p)
  \/ AsideSnapshot(p) \/ AsideManifest(p) \/ ReplaceSnapshot(p) \/ ReplaceManifest(p)
  \/ VerifyPair(p) \/ PublishFails(p) \/ CleanupFails(p)
  \/ DropSnapshot(p) \/ DropManifest(p) \/ BackSnapshot(p) \/ BackManifest(p) \/ UndoFails(p)

Next ==
  \/ \E p \in Processes :
       \/ StartServer(p) \/ Step(p) \/ Crash(p)
       \/ \E op \in {"import", "export", "run", "stop"} : Ask(p, op)
       \/ \E t \in Tables, at \in Times : WriteRow(p, t, at)
  \/ \E m \in Machines : Corrupt(m)
  \/ AgeLock

Spec == Init /\ [][Next]_vars

-----------------------------------------------------------------------------
TypeOK ==
  /\ db \in [Machines -> Database \cup {None}]
  /\ snapshot \in Content \cup {None}
  /\ manifest \in Content \cup {None}
  /\ aside \in [Processes -> [snapshot : Content \cup {None}, manifest : Content \cup {None}]]
  /\ lock \in Lock \cup {None}
  /\ pc \in [Processes -> Labels]
  /\ work \in [Processes -> Work]
  /\ lost \subseteq Machines

\* The references of every database hold, although a snapshot may have been read while
\* another process was writing and refer to a job it does not have (readSnapshotTable, the
\* deferred foreign keys of mergeTable).
ReferencesHold == \A m \in Machines : db[m] # None => Closed(db[m].rows)

\* Two runs of runSync never work at the same time, unless a lock that was past its time
\* has been taken over (acquireLock).
LockedRunsAreAlone == taken \/ \A p, q \in Runs : p = q

\* The databases are sound and the runs of runSync do not overlap.
IInv == TypeOK /\ ReferencesHold /\ LockedRunsAreAlone

\* The pair at rest: a snapshot with its own manifest, and there once it was published.
Whole == (\A p \in Processes : pc[p] \notin Publishing) =>
           snapshot = manifest /\ (published => snapshot # None)

\* A publication whose renames or check fail, or the removal of the first file it put
\* aside, leaves the pair that was there before. What may spoil it is the end of a process
\* that publishes, two that publish at once, and the failure of the undo itself or of the
\* removal of the second file; the next publication that succeeds alone makes it whole
\* again (publishSnapshotPairAtomically).
PairMatches == torn = {} => Whole

\* No import, run or start replaces a row by an older one or takes one away, unless the
\* database itself was corrupt and is replaced (mergeTable).
NothingNewerIsLost ==
  [][\A m \in Machines, t \in Tables :
       db[m] # None /\ db[m].sound /\ db[m].rows[t] # None =>
         /\ db'[m] # None /\ db'[m].rows[t] # None
         /\ db'[m].rows[t].at >= db[m].rows[t].at
         /\ db'[m].rows[t].at = db[m].rows[t].at => db'[m].rows[t] = db[m].rows[t]]_vars

\* Documented, and not so: a publication that fails does not replace the last valid pair.
FailureKeepsPair == "cut" \notin torn => Whole

\* A server whose corrupt database was put away serves only what a snapshot gave back:
\* "refusing to create an empty replacement silently" (bootstrap.ts).
NoSilentReplacement == \A p \in Servers : pc[p] = "serving" => Home[p] \notin lost
=============================================================================
