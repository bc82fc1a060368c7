--------------------------- MODULE DatabaseSyncProofs ---------------------------
(***************************************************************************)
(* For any number of machines, servers and scripts: the databases of the   *)
(* snapshot synchronisation stay sound, its runs exclude each other, the   *)
(* pair of files is published whole or not at all, and no step replaces a  *)
(* row by an older one.                                                    *)
(***************************************************************************)
EXTENDS DatabaseSync, TLAPS

\* The labels of the undo are labels of a publication.
USE DEF Undoing

-----------------------------------------------------------------------------
(* Types.                                                                   *)

\* A merged row is the local or the remote one; the local one stays unless it is older.
LEMMA MergeRowKeeps ==
  ASSUME NEW local \in Row \cup {None}, NEW remote \in Row \cup {None}
  PROVE  /\ MergeRow(local, remote) \in Row \cup {None}
         /\ local # None => /\ MergeRow(local, remote) # None
                            /\ MergeRow(local, remote) = local
                               \/ MergeRow(local, remote).at > local.at
BY SyncAssumption DEF MergeRow, Row

LEMMA IdleTyped ==
  ASSUME NEW o \in Operations
  PROVE  Idle \in Work /\ [Idle EXCEPT !.op = o] \in Work /\ Fresh \in Database
<1>1. Empty \in Rows
  BY DEF Empty, Rows
<1>2. Fresh \in Database
  BY <1>1 DEF Fresh, Database
<1>3. Idle \in Work
  BY <1>1 DEF Idle, Work, Operations
<1>4. [Idle EXCEPT !.op = o] \in Work
  BY <1>3 DEF Work
<1>5. QED
  BY <1>2, <1>3, <1>4

LEMMA InitialTypes ==
  ASSUME Init
  PROVE  TypeOK
<1>1. Idle \in Work
  BY IdleTyped DEF Operations
<1>2. db \in [Machines -> Database \cup {None}]
  BY SyncAssumption DEF Init
<1>3. QED
  BY <1>1, <1>2 DEF Init, TypeOK, Labels

\* What changes when a process only goes on.
LEMMA GoOn ==
  ASSUME TypeOK, NEW p \in Processes, NEW l \in Labels, pc' = [pc EXCEPT ![p] = l]
  PROVE  pc' \in [Processes -> Labels]
BY DEF TypeOK

\* Where an operation goes next is a label.
LEMMA NextLabels ==
  ASSUME NEW p \in Processes
  PROVE  /\ Rest(p) \in Labels
         /\ \A ok \in BOOLEAN : AfterImport(p, ok) \in Labels
         /\ AfterExport(p) \in Labels
BY DEF Rest, AfterImport, AfterExport, Labels, Locked

LEMMA PresentTyped ==
  ASSUME TypeOK, NEW m \in Machines
  PROVE  Present(m) \in Database
BY IdleTyped DEF Present, TypeOK, Operations

LEMMA StartTypes ==
  ASSUME TypeOK, NEW p \in Processes, StartServer(p)
  PROVE  TypeOK'
<1> DEFINE m == Home[p]
           d == Present(m)
<1>1. m \in Machines /\ Fresh \in Database
  BY SyncAssumption, IdleTyped DEF Operations
<1>2. d \in Database
  BY <1>1, PresentTyped
<1>3. db' \in [Machines -> Database \cup {None}]
  BY <1>1, <1>2 DEF TypeOK, StartServer
<1>4. PICK o \in {"start", "recover"} : work' = [work EXCEPT ![p] = [Idle EXCEPT !.op = o]]
  BY DEF StartServer
<1>5. work' \in [Processes -> Work]
  BY <1>4, IdleTyped DEF TypeOK, Operations
<1>6. PICK l \in Labels : pc' = [pc EXCEPT ![p] = l]
  BY DEF StartServer, Goto, Labels, Locked
<1>7. lost' \subseteq Machines
  BY <1>1 DEF StartServer, TypeOK
<1>8. QED
  BY <1>3, <1>5, <1>6, <1>7, GoOn DEF TypeOK, StartServer, files

\* A process asks for an operation.
LEMMA AskTypes ==
  ASSUME TypeOK, NEW p \in Processes, NEW op \in {"import", "export", "run", "stop"}, Ask(p, op)
  PROVE  TypeOK'
<1>1. work' \in [Processes -> Work]
  BY IdleTyped DEF Ask, TypeOK, Operations
<1>2. PICK l \in Labels : pc' = [pc EXCEPT ![p] = l]
  BY DEF Ask, Goto, Labels, Locked
<1>3. QED
  BY <1>1, <1>2, GoOn DEF TypeOK, Ask, files, history

LEMMA WriteRowRows ==
  ASSUME TypeOK, NEW p \in Processes, NEW t \in Tables, NEW at \in Times, WriteRow(p, t, at)
  PROVE  [db[Home[p]].rows EXCEPT ![t] = [at |-> at, by |-> Home[p]]] \in Rows
<1>1. Home[p] \in Machines /\ db[Home[p]] \in Database
  BY SyncAssumption DEF WriteRow, TypeOK
<1>2. db[Home[p]].rows \in Rows
  BY <1>1 DEF Database
<1>3. [at |-> at, by |-> Home[p]] \in Row
  BY <1>1 DEF Row
<1>4. QED
  BY <1>2, <1>3 DEF Rows

LEMMA WriteRowTypes ==
  ASSUME TypeOK, NEW p \in Processes, NEW t \in Tables, NEW at \in Times, WriteRow(p, t, at)
  PROVE  TypeOK'
<1> DEFINE m == Home[p]
           rows == [db[m].rows EXCEPT ![t] = [at |-> at, by |-> m]]
<1>1. m \in Machines /\ db[m] \in Database
  BY SyncAssumption DEF WriteRow, TypeOK
<1>4. rows \in Rows
  BY WriteRowRows
<1>5. db' = [db EXCEPT ![m].rows = rows]
  BY DEF WriteRow
<1> HIDE DEF m, rows
<1>6. [db[m] EXCEPT !.rows = rows] \in Database
  BY <1>1, <1>4 DEF Database
<1>7. db' \in [Machines -> Database \cup {None}]
  BY <1>1, <1>5, <1>6 DEF TypeOK
<1>8. QED
  BY <1>7 DEF TypeOK, WriteRow, files, history

LEMMA LockTypes ==
  ASSUME TypeOK, NEW p \in Processes,
         FindLock(p) \/ DropLock(p) \/ CreateLock(p) \/ ReleaseLock(p)
  PROVE  TypeOK'
<1>1. PICK l \in Labels : pc' = [pc EXCEPT ![p] = l]
  BY NextLabels DEF FindLock, DropLock, CreateLock, ReleaseLock, Goto, Labels, Locked
<1>2. lock' \in {lock, None, [by |-> p, old |-> FALSE]}
  BY DEF FindLock, DropLock, CreateLock, ReleaseLock
<1>3. [by |-> p, old |-> FALSE] \in Lock
  BY DEF Lock
<1>4. lock \in Lock \cup {None}
  BY DEF TypeOK
<1>5. lock' \in Lock \cup {None}
  BY <1>2, <1>3, <1>4
<1>6. UNCHANGED <<db, snapshot, manifest, aside, work, lost>>
  BY DEF FindLock, DropLock, CreateLock, ReleaseLock, files, history
<1>7. QED
  BY <1>1, <1>5, <1>6, GoOn DEF TypeOK

LEMMA OpenTypes ==
  ASSUME TypeOK, NEW p \in Processes, OpenForRun(p)
  PROVE  TypeOK'
<1>1. PICK l \in Labels : pc' = [pc EXCEPT ![p] = l]
  BY DEF OpenForRun, Goto, Labels, Locked
<1>2. Fresh \in Database /\ Home[p] \in Machines
  BY IdleTyped, SyncAssumption DEF Operations
<1>3. db' \in [Machines -> Database \cup {None}]
  BY <1>2 DEF OpenForRun, TypeOK
<1>4. QED
  BY <1>1, <1>3, GoOn DEF TypeOK, OpenForRun, files, history

\* The reads of a process go to its own work.
LEMMA ReadTypes ==
  ASSUME TypeOK, NEW p \in Processes,
         ReadSnapshot(p) \/ ReadManifest(p) \/ ReadJobs(p) \/ ReadRest(p)
  PROVE  TypeOK'
<1>1. PICK l \in Labels : pc' = [pc EXCEPT ![p] = l]
  BY NextLabels DEF ReadSnapshot, ReadManifest, ReadJobs, ReadRest, Goto, Labels, Locked
<1>2. UNCHANGED <<db, snapshot, manifest, aside, lock, lost>>
  BY DEF ReadSnapshot, ReadManifest, ReadJobs, ReadRest, files, history
<1>3. work[p] \in Work /\ Home[p] \in Machines
  BY SyncAssumption DEF TypeOK
<1>4. ASSUME ReadSnapshot(p) PROVE work' \in [Processes -> Work]
  <2>1. [work[p] EXCEPT !.content = snapshot] \in Work
    BY <1>3 DEF Work, TypeOK
  <2>2. QED
    BY <1>4, <2>1 DEF ReadSnapshot, TypeOK
<1>5. ASSUME ReadJobs(p) PROVE work' \in [Processes -> Work]
  <2> DEFINE d == db[Home[p]]
             read == [work[p].read EXCEPT !["jobs"] = d.rows["jobs"]]
  <2>1. CASE d # None /\ work' = [work EXCEPT ![p].read["jobs"] = d.rows["jobs"]]
    <3>1. d.rows \in Rows /\ work[p].read \in Rows
      BY <1>3, <2>1 DEF TypeOK, Database, Work
    <3>2. read \in Rows
      BY <3>1 DEF Rows, Tables
    <3>3. work' = [work EXCEPT ![p].read = read]
      BY <2>1
    <3> HIDE DEF read
    <3>4. [work[p] EXCEPT !.read = read] \in Work
      BY <1>3, <3>2 DEF Work
    <3>5. QED
      BY <3>3, <3>4 DEF TypeOK
  <2>2. CASE UNCHANGED work
    BY <2>2 DEF TypeOK
  <2>3. QED
    BY <1>5, <2>1, <2>2 DEF ReadJobs, Readable
<1>6. ASSUME ReadRest(p) PROVE work' \in [Processes -> Work]
  <2> DEFINE d == db[Home[p]]
             read == [work[p].read EXCEPT !["applications"] = d.rows["applications"]]
             content == [rows |-> read, meta |-> d.meta]
  <2>1. CASE d # None /\ work' = [work EXCEPT ![p].content = content]
    <3>1. d.rows \in Rows /\ work[p].read \in Rows /\ d.meta \in {2, 3}
      BY <1>3, <2>1 DEF TypeOK, Database, Work
    <3>2. read \in Rows
      BY <3>1 DEF Rows, Tables
    <3>3. content \in Content
      BY <3>1, <3>2 DEF Content
    <3>4. work' = [work EXCEPT ![p].content = content]
      BY <2>1
    <3> HIDE DEF content
    <3>5. [work[p] EXCEPT !.content = content] \in Work
      BY <1>3, <3>3 DEF Work
    <3>6. QED
      BY <3>4, <3>5 DEF TypeOK
  <2>2. CASE UNCHANGED work
    BY <2>2 DEF TypeOK
  <2>3. QED
    BY <1>6, <2>1, <2>2 DEF ReadRest
<1>7. work' \in [Processes -> Work]
  BY <1>4, <1>5, <1>6 DEF ReadManifest, TypeOK
<1>8. QED
  BY <1>1, <1>2, <1>7, GoOn DEF TypeOK

\* What a merge makes of a database.
MergedRows(m, got) == [t \in Tables |-> MergeRow(Present(m).rows[t], got.rows[t])]
MergedTo(m, got) ==
  IF Mergeable(Present(m), MergedRows(m, got))
  THEN [Present(m) EXCEPT !.rows = MergedRows(m, got), !.meta = got.meta]
  ELSE Present(m)

LEMMA MergedTyped ==
  ASSUME NEW m, NEW got \in Content, Present(m) \in Database
  PROVE  /\ MergedRows(m, got) \in Rows
         /\ MergedTo(m, got) \in Database
         /\ \/ MergedTo(m, got).rows = MergedRows(m, got) /\ Closed(MergedRows(m, got))
            \/ MergedTo(m, got) = Present(m)
<1>1. Present(m).rows \in Rows /\ got.rows \in Rows /\ got.meta \in {2, 3}
  BY DEF Database, Content
<1>2. MergedRows(m, got) \in Rows
  BY <1>1, MergeRowKeeps DEF MergedRows, Rows
<1>3. QED
  BY <1>1, <1>2 DEF MergedTo, Mergeable, Database

LEMMA MergeTypes ==
  ASSUME TypeOK, NEW p \in Processes, work[p].content # None, Merge(p)
  PROVE  TypeOK'
<1> DEFINE m == Home[p]
           got == work[p].content
<1>1. m \in Machines /\ work[p] \in Work
  BY SyncAssumption DEF TypeOK
<1>2. [work[p] EXCEPT !.content = None] \in Work
  BY <1>1 DEF Work
<1>3. work' \in [Processes -> Work]
  BY <1>2 DEF Merge, TypeOK
<1>4. PICK l \in Labels : pc' = [pc EXCEPT ![p] = l]
  BY <1>1, NextLabels DEF Merge, Goto, Mergeable
<1>5. db' \in [Machines -> Database \cup {None}]
  <2>1. Present(m) \in Database /\ got \in Content
    BY <1>1, PresentTyped DEF Work
  <2>2. MergedTo(m, got) \in Database
    BY <2>1, MergedTyped
  <2>3. db' = [db EXCEPT ![m] = MergedTo(m, got)]
    BY DEF Merge, MergedTo, MergedRows
  <2>4. QED
    BY <2>2, <2>3 DEF TypeOK
<1>6. lost' \subseteq Machines
  BY DEF Merge, TypeOK
<1>7. QED
  BY <1>3, <1>4, <1>5, <1>6, GoOn DEF TypeOK, Merge, files

\* The steps of a publication and of its undo.
Publishes(p) ==
  \/ AsideSnapshot(p) \/ AsideManifest(p) \/ ReplaceSnapshot(p) \/ ReplaceManifest(p)
  \/ VerifyPair(p) \/ PublishFails(p) \/ CleanupFails(p)
  \/ DropSnapshot(p) \/ DropManifest(p) \/ BackSnapshot(p) \/ BackManifest(p) \/ UndoFails(p)

LEMMA StepKinds ==
  ASSUME NEW p \in Processes, Step(p)
  PROVE  \/ FindLock(p) \/ DropLock(p) \/ CreateLock(p) \/ OpenForRun(p) \/ ReleaseLock(p)
         \/ ReadSnapshot(p) \/ ReadManifest(p) \/ Merge(p) \/ ReadJobs(p) \/ ReadRest(p)
         \/ Publishes(p)
BY DEF Step, Publishes

\* What none of them touches.
LEMMA PublishesLeaves ==
  ASSUME NEW p \in Processes, Publishes(p)
  PROVE  UNCHANGED <<db, lock, taken, lost>>
BY DEF Publishes, AsideSnapshot, AsideManifest, ReplaceSnapshot, ReplaceManifest, VerifyPair,
   PublishFails, CleanupFails, DropSnapshot, DropManifest, BackSnapshot, BackManifest,
   UndoFails, files, history

\* Where a publication goes on, or ends.
LEMMA PublishesGoes ==
  ASSUME NEW p \in Processes, Publishes(p)
  PROVE  \E l \in Publishing \cup {AfterExport(p)} : pc' = [pc EXCEPT ![p] = l]
BY DEF Publishes, AsideSnapshot, AsideManifest, ReplaceSnapshot, ReplaceManifest, VerifyPair,
   PublishFails, CleanupFails, DropSnapshot, DropManifest, BackSnapshot, BackManifest,
   UndoFails, EndPublication, Goto, Publishing, Undoing

\* What becomes of the work of a process that publishes.
LEMMA PublishesWork ==
  ASSUME TypeOK, NEW p \in Processes, Publishes(p)
  PROVE  /\ work' \in [Processes -> Work]
         /\ work'[p].op = work[p].op
         /\ \A q \in Processes : q # p => work'[q] = work[q]
<1>1. work[p] \in Work /\ work \in [Processes -> Work]
  BY DEF TypeOK
<1>2. /\ \A n \in 0 .. 2 : [work[p] EXCEPT !.replaced = n] \in Work
      /\ \A b \in BOOLEAN : [work[p] EXCEPT !.hadManifest = b] \in Work
      /\ work[p].op \in Operations
  BY <1>1 DEF Work
<1>3. CASE AsideSnapshot(p)
  <2>1. (manifest # None) \in BOOLEAN
    OBVIOUS
  <2>2. work' = [work EXCEPT ![p] = [work[p] EXCEPT !.hadManifest = manifest # None]]
    BY <1>3 DEF AsideSnapshot
  <2>3. QED
    BY <1>1, <1>2, <2>1, <2>2 DEF Work
<1>4. CASE ReplaceSnapshot(p) \/ ReplaceManifest(p) \/ DropManifest(p)
  <2>1. PICK n \in 0 .. 2 : work' = [work EXCEPT ![p] = [work[p] EXCEPT !.replaced = n]]
    BY <1>4 DEF ReplaceSnapshot, ReplaceManifest, DropManifest
  <2>2. QED
    BY <1>1, <1>2, <2>1 DEF Work
<1>5. CASE work' = [work EXCEPT ![p] = [Idle EXCEPT !.op = work[p].op]]
  <2>1. [Idle EXCEPT !.op = work[p].op] \in Work
    BY <1>2, IdleTyped
  <2>2. QED
    BY <1>1, <1>5, <2>1 DEF Idle
<1>6. CASE UNCHANGED work
  BY <1>1, <1>6
<1>7. QED
  BY <1>3, <1>4, <1>5, <1>6 DEF Publishes, AsideManifest, VerifyPair, PublishFails, CleanupFails,
     DropSnapshot, BackSnapshot, BackManifest, UndoFails, EndPublication

\* Publishing renames the files of the pair, a process's own and its content.
LEMMA PublishTypes ==
  ASSUME TypeOK, NEW p \in Processes, Publishes(p)
  PROVE  TypeOK'
<1>1. PICK l \in Labels : pc' = [pc EXCEPT ![p] = l]
  BY PublishesGoes, NextLabels DEF Labels, Locked
<1>2. /\ work[p].content \in Content \cup {None}
      /\ aside[p] \in [snapshot : Content \cup {None}, manifest : Content \cup {None}]
  BY DEF TypeOK, Work
<1>3. /\ snapshot' \in {snapshot, None, work[p].content, aside[p].snapshot}
      /\ manifest' \in {manifest, None, work[p].content, aside[p].manifest}
  BY DEF Publishes, AsideSnapshot, AsideManifest, ReplaceSnapshot, ReplaceManifest, VerifyPair,
     PublishFails, CleanupFails, DropSnapshot, DropManifest, BackSnapshot, BackManifest,
     UndoFails, files
<1>4. snapshot' \in Content \cup {None} /\ manifest' \in Content \cup {None}
  BY <1>2, <1>3 DEF TypeOK
<1>5. PICK x, y \in Content \cup {None} : aside' = [aside EXCEPT ![p] = [snapshot |-> x, manifest |-> y]]
  <2>1. CASE UNCHANGED aside
    BY <1>2, <2>1 DEF TypeOK
  <2>2. CASE aside' = [aside EXCEPT ![p] = NoAside]
    BY <2>2 DEF NoAside
  <2>3. CASE AsideSnapshot(p)
    BY <2>3 DEF AsideSnapshot, TypeOK
  <2>4. CASE \E m \in {None, manifest} : aside' = [aside EXCEPT ![p].manifest = m]
    <3>1. PICK m \in Content \cup {None} : aside' = [aside EXCEPT ![p].manifest = m]
      BY <2>4 DEF TypeOK
    <3>2. [aside[p] EXCEPT !.manifest = m] = [snapshot |-> aside[p].snapshot, manifest |-> m]
      BY <1>2
    <3>3. aside' = [aside EXCEPT ![p] = [aside[p] EXCEPT !.manifest = m]]
      BY <3>1
    <3>4. QED
      BY <1>2, <3>2, <3>3
  <2>5. CASE aside' = [aside EXCEPT ![p].snapshot = None]
    <3>1. [aside[p] EXCEPT !.snapshot = None] = [snapshot |-> None, manifest |-> aside[p].manifest]
      BY <1>2
    <3>2. aside' = [aside EXCEPT ![p] = [aside[p] EXCEPT !.snapshot = None]]
      BY <2>5
    <3>3. QED
      BY <1>2, <3>1, <3>2
  <2>6. QED
    BY <2>1, <2>2, <2>3, <2>4, <2>5 DEF Publishes, AsideManifest, ReplaceSnapshot,
       ReplaceManifest, VerifyPair, PublishFails, CleanupFails, DropSnapshot, DropManifest,
       BackSnapshot, BackManifest, UndoFails, EndPublication, files
<1>6. aside' \in [Processes -> [snapshot : Content \cup {None}, manifest : Content \cup {None}]]
  BY <1>5 DEF TypeOK
<1>7. QED
  BY <1>1, <1>4, <1>6, GoOn, PublishesLeaves, PublishesWork DEF TypeOK

LEMMA FaultTypes ==
  ASSUME TypeOK
  PROVE  /\ \A p \in Processes : Crash(p) => TypeOK'
         /\ AgeLock => TypeOK'
         /\ \A m \in Machines : Corrupt(m) => TypeOK'
<1>1. ASSUME NEW p \in Processes, Crash(p) PROVE TypeOK'
  <2>1. work' \in [Processes -> Work] /\ pc' \in [Processes -> Labels]
    BY <1>1, IdleTyped DEF Crash, Goto, TypeOK, Labels, Operations
  <2>2. QED
    BY <1>1, <2>1 DEF Crash, TypeOK, files
<1>2. ASSUME AgeLock PROVE TypeOK'
  <2>1. lock' \in Lock
    BY <1>2 DEF AgeLock, TypeOK, Lock
  <2>2. QED
    BY <1>2, <2>1 DEF AgeLock, TypeOK, files, history
<1>3. ASSUME NEW m \in Machines, Corrupt(m) PROVE TypeOK'
  <2>1. [db[m] EXCEPT !.sound = FALSE] \in Database
    BY <1>3 DEF Corrupt, TypeOK, Database
  <2>2. db' \in [Machines -> Database \cup {None}]
    BY <1>3, <2>1 DEF Corrupt, TypeOK
  <2>3. QED
    BY <1>3, <2>2 DEF Corrupt, TypeOK, files, history
<1>4. QED
  BY <1>1, <1>2, <1>3

-----------------------------------------------------------------------------
(* References.                                                              *)

\* The databases change by a write, a merge, the creation of an empty one or a fault, and
\* a merge is refused that would leave an application without its job.
LEMMA ReferenceStep ==
  ASSUME TypeOK, ReferencesHold, Next,
         \A p \in Processes : Merge(p) => work[p].content # None
  PROVE  ReferencesHold'
<1>1. Closed(Fresh.rows)
  BY SyncAssumption DEF Closed, Fresh, Empty, Tables
<1>2. ASSUME NEW p \in Processes, StartServer(p) \/ OpenForRun(p)
      PROVE  ReferencesHold'
  <2>1. \A n \in Machines : db'[n] = db[n] \/ db'[n] = Fresh \/ db'[n] = None
    BY <1>2 DEF StartServer, OpenForRun, Present, TypeOK
  <2>2. QED
    BY <1>1, <2>1 DEF ReferencesHold
<1>3. ASSUME NEW p \in Processes, NEW t \in Tables, NEW at \in Times, WriteRow(p, t, at)
      PROVE  ReferencesHold'
  <2> DEFINE rows == [db[Home[p]].rows EXCEPT ![t] = [at |-> at, by |-> Home[p]]]
  <2>1. Closed(rows) /\ db' = [db EXCEPT ![Home[p]].rows = rows] /\ db[Home[p]] \in Database
    BY <1>3, SyncAssumption DEF WriteRow, TypeOK
  <2> HIDE DEF rows
  <2>2. \A n \in Machines : db'[n] = db[n] \/ db'[n].rows = rows
    BY <2>1 DEF TypeOK, Database
  <2>3. QED
    BY <2>1, <2>2 DEF ReferencesHold
<1>4. ASSUME NEW p \in Processes, Merge(p)
      PROVE  ReferencesHold'
  <2> DEFINE m == Home[p]
             got == work[p].content
  <2>1. m \in Machines /\ Present(m) \in Database /\ got \in Content
    BY <1>4, SyncAssumption, PresentTyped DEF TypeOK, Work
  <2>2. db' = [db EXCEPT ![m] = MergedTo(m, got)]
    BY <1>4 DEF Merge, MergedTo, MergedRows
  <2>3. Closed(Present(m).rows)
    BY <1>1, <2>1 DEF Present, ReferencesHold
  <2>4. Closed(MergedTo(m, got).rows)
    BY <2>1, <2>3, MergedTyped
  <2>5. \A n \in Machines : db'[n] = db[n] \/ Closed(db'[n].rows)
    BY <2>2, <2>4 DEF TypeOK
  <2>6. QED
    BY <2>5 DEF ReferencesHold
<1>5. ASSUME NEW m \in Machines, Corrupt(m)
      PROVE  ReferencesHold'
  <2>1. \A n \in Machines : db'[n] = db[n] \/ (db[n] # None /\ db'[n].rows = db[n].rows)
    BY <1>5 DEF Corrupt, TypeOK, Database
  <2>2. QED
    BY <2>1 DEF ReferencesHold
<1>6. ASSUME UNCHANGED db PROVE ReferencesHold'
  BY <1>6 DEF ReferencesHold
<1>7. ASSUME NEW p \in Processes, Step(p) \/ Crash(p), ~Merge(p), ~OpenForRun(p)
      PROVE  UNCHANGED db
  BY <1>7, StepKinds, PublishesLeaves DEF FindLock, DropLock, CreateLock, ReleaseLock, ReadSnapshot,
     ReadManifest, ReadJobs, ReadRest, Crash
<1>8. ASSUME NEW p \in Processes, NEW op \in {"import", "export", "run", "stop"}, Ask(p, op)
      PROVE  UNCHANGED db
  BY <1>8 DEF Ask
<1>9. QED
  BY <1>2, <1>3, <1>4, <1>5, <1>6, <1>7, <1>8 DEF Next, AgeLock

-----------------------------------------------------------------------------
(* The lock.                                                                *)

\* Only runSync looks for the lock, and one that works under it has a lock of its own that
\* is not past its time.
LockLabels == {"lock", "drop", "create", "open", "release"}
OwnLock(p) == lock # None /\ lock.by = p /\ ~lock.old
LockInv ==
  /\ \A p \in Processes : pc[p] \in LockLabels => work[p].op = "run"
  /\ ~taken => \A p \in Runs : OwnLock(p)

LEMMA LockIsExclusive ==
  ASSUME LockInv
  PROVE  LockedRunsAreAlone
BY DEF LockInv, LockedRunsAreAlone, OwnLock

\* A process goes on without touching the lock: it does not come to work under it.
LEMMA LockQuiet ==
  ASSUME TypeOK, LockInv, NEW p \in Processes, NEW l \in Labels,
         UNCHANGED <<lock, taken>>, pc' = [pc EXCEPT ![p] = l],
         \A q \in Processes : q # p => work'[q].op = work[q].op,
         l \in Locked /\ work'[p].op = "run" => pc[p] \in Locked /\ work[p].op = "run",
         l \in LockLabels => work'[p].op = "run"
  PROVE  LockInv'
<1>1. pc'[p] = l /\ \A q \in Processes : q # p => pc'[q] = pc[q]
  BY DEF TypeOK
<1>2. Runs' \subseteq Runs
  BY <1>1 DEF Runs
<1>3. QED
  BY <1>1, <1>2 DEF LockInv, OwnLock

\* What the operation of a process is does not change on the way.
LEMMA OperationStays ==
  ASSUME TypeOK, NEW p \in Processes,
         \/ FindLock(p) \/ OpenForRun(p) \/ ReadSnapshot(p) \/ ReadManifest(p) \/ Merge(p)
         \/ ReadJobs(p) \/ ReadRest(p) \/ Publishes(p)
  PROVE  \A q \in Processes : work'[q].op = work[q].op
<1>1. work \in [Processes -> Work]
  BY DEF TypeOK
<1>2. CASE FindLock(p) \/ OpenForRun(p) \/ ReadManifest(p)
  BY <1>2 DEF FindLock, OpenForRun, ReadManifest
<1>3. CASE ReadSnapshot(p) \/ Merge(p) \/ ReadRest(p)
  <2>1. UNCHANGED work \/ \E c : work' = [work EXCEPT ![p].content = c]
    BY <1>3 DEF ReadSnapshot, Merge, ReadRest
  <2>2. QED
    BY <1>1, <2>1 DEF Work
<1>4. CASE ReadJobs(p)
  <2>1. UNCHANGED work \/ \E rows : work' = [work EXCEPT ![p].read = rows]
    BY <1>4 DEF ReadJobs
  <2>2. QED
    BY <1>1, <2>1 DEF Work
<1>5. CASE Publishes(p)
  BY <1>5, PublishesWork
<1>6. QED
  BY <1>2, <1>3, <1>4, <1>5

LEMMA LockStep ==
  ASSUME TypeOK, LockInv, Next
  PROVE  LockInv'
<1>1. ASSUME NEW p \in Processes,
             \/ FindLock(p) \/ OpenForRun(p) \/ ReadSnapshot(p) \/ ReadManifest(p) \/ Merge(p)
             \/ ReadJobs(p) \/ ReadRest(p)
      PROVE  LockInv'
  <2>1. \A q \in Processes : work'[q].op = work[q].op
    BY <1>1, OperationStays
  <2>2. UNCHANGED <<lock, taken>>
    BY <1>1 DEF FindLock, OpenForRun, ReadSnapshot, ReadManifest, Merge, ReadJobs, ReadRest, history
  <2>3. PICK l \in Labels :
          /\ pc' = [pc EXCEPT ![p] = l]
          /\ l \in Locked => pc[p] \in Locked
          /\ l \in LockLabels => pc[p] \in LockLabels \/ work[p].op = "run"
    <3>1. CASE FindLock(p)
      BY <3>1 DEF FindLock, Goto, Rest, Labels, Locked, LockLabels, Publishing
    <3>2. CASE OpenForRun(p)
      BY <3>2 DEF OpenForRun, Goto, Labels, Locked, LockLabels
    <3>3. CASE ReadSnapshot(p) \/ ReadManifest(p) \/ Merge(p)
      <4>1. pc[p] \in Locked
        BY <3>3 DEF ReadSnapshot, ReadManifest, Merge, Locked
      <4>2. PICK l \in Labels : pc' = [pc EXCEPT ![p] = l]
                                /\ (l \in LockLabels => work[p].op = "run")
        BY <3>3 DEF ReadSnapshot, ReadManifest, Merge, AfterImport, Goto, Labels, Locked, LockLabels,
           Mergeable
      <4>3. QED
        BY <4>1, <4>2
    <3>4. CASE ReadJobs(p) \/ ReadRest(p)
      BY <3>4 DEF ReadJobs, ReadRest, AfterExport, Goto, Labels, Locked, LockLabels
    <3>5. QED
      BY <1>1, <3>1, <3>2, <3>3, <3>4
  <2>4. QED
    BY <2>1, <2>2, <2>3, LockQuiet DEF LockInv
<1>2. ASSUME NEW p \in Processes, Publishes(p)
      PROVE  LockInv'
  <2>1. \A q \in Processes : work'[q].op = work[q].op
    BY <1>2, OperationStays
  <2>2. UNCHANGED <<lock, taken>>
    BY <1>2, PublishesLeaves
  <2>3. pc[p] \in Locked
    BY <1>2 DEF Publishes, AsideSnapshot, AsideManifest, ReplaceSnapshot, ReplaceManifest,
       VerifyPair, PublishFails, CleanupFails, DropSnapshot, DropManifest, BackSnapshot,
       BackManifest, UndoFails, Locked, Publishing, Undoing
  <2>4. PICK l \in Labels : pc' = [pc EXCEPT ![p] = l] /\ (l \in LockLabels => work[p].op = "run")
    BY <1>2, PublishesGoes DEF AfterExport, Labels, Locked, LockLabels, Publishing, Undoing
  <2>5. QED
    BY <2>1, <2>2, <2>3, <2>4, LockQuiet
<1>3. ASSUME NEW p \in Processes, DropLock(p)
      PROVE  LockInv'
  BY <1>3 DEF DropLock, LockInv, Goto, TypeOK, LockLabels, Rest
<1>4. ASSUME NEW p \in Processes, CreateLock(p)
      PROVE  LockInv'
  <2>1. CASE lock = None
    <3>1. lock' = [by |-> p, old |-> FALSE] /\ pc' = [pc EXCEPT ![p] = "open"]
          /\ UNCHANGED <<work, taken>> /\ pc[p] = "create"
      BY <1>4, <2>1 DEF CreateLock, Goto, history
    <3>2. OwnLock(p)'
      <4>1. lock' \in Lock /\ lock'.by = p /\ ~lock'.old
        BY <3>1 DEF Lock
      <4>2. QED
        BY <4>1, SyncAssumption DEF OwnLock
    <3>3. ~taken => \A q \in Processes : q \in Runs' => q = p
      BY <2>1, <3>1 DEF LockInv, OwnLock, Runs, TypeOK
    <3>4. QED
      BY <3>1, <3>2, <3>3 DEF LockInv, TypeOK, LockLabels, Runs
  <2>2. CASE lock # None
    <3>1. UNCHANGED <<lock, work, taken>> /\ pc' = [pc EXCEPT ![p] = Rest(p)]
      BY <1>4, <2>2 DEF CreateLock, Goto, history
    <3>2. Rest(p) \in {"serving", "down"}
      BY DEF Rest
    <3>3. QED
      BY <3>1, <3>2, LockQuiet DEF Labels, Locked, LockLabels, Publishing
  <2>3. QED
    BY <2>1, <2>2
<1>5. ASSUME NEW p \in Processes, ReleaseLock(p)
      PROVE  LockInv'
  <2>1. pc[p] = "release" /\ pc' = [pc EXCEPT ![p] = Rest(p)] /\ UNCHANGED <<work, taken>>
    BY <1>5 DEF ReleaseLock, Goto, history
  <2>2. Rest(p) \in {"serving", "down"}
    BY DEF Rest
  <2>3. p \in Runs
    BY <2>1 DEF LockInv, LockLabels, Runs, Locked
  <2>4. ~taken => \A q \in Runs : q = p
    BY <2>3 DEF LockInv, OwnLock
  <2>5. pc'[p] \notin Locked \cup LockLabels /\ \A q \in Processes : q # p => pc'[q] = pc[q]
    BY <2>1, <2>2 DEF TypeOK, Locked, LockLabels, Publishing
  <2>6. QED
    BY <2>1, <2>4, <2>5 DEF LockInv, Runs
<1>6. ASSUME NEW p \in Processes, StartServer(p)
      PROVE  LockInv'
  <2>1. PICK l \in {"serving", "snapshot", "down"} : pc' = [pc EXCEPT ![p] = l]
    BY <1>6 DEF StartServer, Goto
  <2>2. UNCHANGED <<lock, taken>>
    BY <1>6 DEF StartServer
  <2>3. work'[p].op # "run" /\ \A q \in Processes : q # p => work'[q] = work[q]
    BY <1>6 DEF StartServer, TypeOK, Idle
  <2>4. QED
    BY <2>1, <2>2, <2>3, LockQuiet DEF Labels, Locked, LockLabels
<1>7. ASSUME NEW p \in Processes, NEW op \in {"import", "export", "run", "stop"}, Ask(p, op)
      PROVE  LockInv'
  <2>1. PICK l \in {"lock", "snapshot", "tables"} :
          pc' = [pc EXCEPT ![p] = l] /\ (l = "lock" <=> op = "run")
    BY <1>7 DEF Ask, Goto
  <2>2. /\ UNCHANGED <<lock, taken>>
        /\ work' = [work EXCEPT ![p] = [Idle EXCEPT !.op = op]]
    BY <1>7 DEF Ask, Goto, history
  <2>3. work'[p].op = op /\ \A q \in Processes : q # p => work'[q] = work[q]
    BY <2>2 DEF TypeOK, Idle
  <2>4. QED
    BY <2>1, <2>2, <2>3, LockQuiet DEF Labels, Locked, LockLabels, Publishing
<1>8. ASSUME NEW p \in Processes, Crash(p)
      PROVE  LockInv'
  <2>1. pc' = [pc EXCEPT ![p] = "down"] /\ UNCHANGED <<lock, taken>>
        /\ work' = [work EXCEPT ![p] = Idle]
    BY <1>8 DEF Crash, Goto
  <2>2. QED
    BY <2>1, LockQuiet DEF TypeOK, Labels, Locked, LockLabels, Publishing
<1>9. ASSUME AgeLock
      PROVE  LockInv'
  BY <1>9 DEF AgeLock, LockInv, OwnLock, Runs, history
<1>10. ASSUME UNCHANGED <<lock, pc, work, taken>>
       PROVE  LockInv'
  BY <1>10 DEF LockInv, OwnLock, Runs
<1>11. ASSUME NEW p \in Processes, Step(p)
       PROVE  LockInv'
  BY <1>1, <1>2, <1>3, <1>4, <1>5, <1>11, StepKinds
<1>12. ASSUME NEW p \in Processes, NEW t \in Tables, NEW at \in Times, WriteRow(p, t, at)
       PROVE  LockInv'
  BY <1>10, <1>12 DEF WriteRow, history
<1>13. ASSUME NEW m \in Machines, Corrupt(m)
       PROVE  LockInv'
  BY <1>10, <1>13 DEF Corrupt, history
<1>14. QED
  BY <1>6, <1>7, <1>8, <1>9, <1>11, <1>12, <1>13 DEF Next

-----------------------------------------------------------------------------
(* The pair.                                                                *)

\* What two files must be to be left as the pair.
Sealed(s, m) == s = m /\ (published => s # None)

\* A file that was put aside returns, and one of this publication goes.
Restored(replaced, n, old, now) ==
  IF old # None THEN old ELSE IF replaced >= n THEN None ELSE now

\* What undoing the publication of a process would leave.
Undone(p) ==
  Sealed(Restored(work[p].replaced, 1, aside[p].snapshot, snapshot),
         Restored(work[p].replaced, 2, aside[p].manifest, manifest))

\* How far the publication of a process, or its undo, is.
Stage(p) ==
  /\ pc[p] = "asideManifest" =>
       /\ work[p].replaced = 0 /\ snapshot = None
       /\ aside[p].snapshot = manifest /\ aside[p].manifest = None
       /\ work[p].hadManifest <=> manifest # None
  /\ pc[p] = "replace" => work[p].replaced = 0 /\ snapshot = None /\ manifest = None
  /\ pc[p] = "seal" => work[p].replaced = 1 /\ snapshot = work[p].content /\ manifest = None
  /\ pc[p] = "verify" => /\ work[p].replaced = 2
                         /\ snapshot = work[p].content /\ manifest = work[p].content
  /\ pc[p] = "dropManifest" => (work[p].replaced >= 1 => snapshot = None)
  /\ pc[p] \in {"backSnapshot", "backManifest"} => work[p].replaced = 0
  /\ pc[p] = "backManifest" => aside[p].snapshot = None
  /\ Undone(p)

\* Where a process holds a content it has read.
Holds == {"manifest", "merge", "aside", "asideManifest", "replace", "seal", "verify"}
Publisher(p) == pc[p] \in Publishing

PairInv ==
  /\ \A p \in Processes : pc[p] \in Holds => work[p].content # None
  /\ \A p \in Processes : ~Publisher(p) => work[p].replaced = 0
  /\ torn = {} => /\ \A p, q \in Processes : Publisher(p) /\ Publisher(q) => p = q
                  /\ (\A p \in Processes : ~Publisher(p)) => Sealed(snapshot, manifest)
                  /\ \A p \in Processes : Publisher(p) => Stage(p)

LEMMA PairInvImpliesPairMatches ==
  ASSUME PairInv
  PROVE  PairMatches
BY DEF PairInv, PairMatches, Whole, Sealed, Publisher

\* A process that does not publish goes on elsewhere.
LEMMA PairQuiet ==
  ASSUME TypeOK, PairInv, NEW p \in Processes, NEW l \in Labels \ Publishing,
         UNCHANGED <<snapshot, manifest, aside, published>>,
         pc' = [pc EXCEPT ![p] = l], torn' = {} => torn = {} /\ ~Publisher(p),
         \A q \in Processes : q # p => work'[q] = work[q],
         work'[p].replaced = 0,
         l \in Holds => work'[p].content # None
  PROVE  PairInv'
<1>1. pc'[p] = l /\ \A q \in Processes : q # p => pc'[q] = pc[q]
  BY DEF TypeOK
<1>2. \A q \in Processes : Publisher(q)' <=> Publisher(q) /\ q # p
  BY <1>1 DEF Publisher
<1>3. \A q \in Processes : q # p => (Stage(q)' <=> Stage(q))
  BY <1>1 DEF Stage, Undone, Sealed, Restored
<1>4. QED
  BY <1>1, <1>2, <1>3 DEF PairInv, Sealed

\* A process that publishes alone takes the next step.
LEMMA PairStage ==
  ASSUME TypeOK, PairInv, NEW p \in Processes, NEW l \in Publishing,
         pc' = [pc EXCEPT ![p] = l],
         \A q \in Processes : q # p => work'[q] = work[q],
         l \in Holds => work'[p].content # None,
         torn' = {} => Stage(p)' /\ \A q \in Processes : Publisher(q) => q = p
  PROVE  PairInv'
<1>1. pc'[p] = l /\ \A q \in Processes : q # p => pc'[q] = pc[q]
  BY DEF TypeOK
<1>2. \A q \in Processes : Publisher(q)' <=> Publisher(q) \/ q = p
  BY <1>1 DEF Publisher
<1>3. QED
  BY <1>1, <1>2 DEF PairInv

\* A publication ends, done or undone.
LEMMA PairEnd ==
  ASSUME TypeOK, PairInv, NEW p \in Processes, Publisher(p) \/ pc[p] = "aside", EndPublication(p),
         torn' = {} => Sealed(snapshot, manifest)' /\ \A q \in Processes : Publisher(q) => q = p
  PROVE  PairInv'
<1>1. PICK l \in Labels \ (Publishing \cup Holds) : pc' = [pc EXCEPT ![p] = l]
  BY DEF EndPublication, Goto, AfterExport, Labels, Locked, Publishing, Holds
<1>2. pc'[p] = l /\ \A q \in Processes : q # p => pc'[q] = pc[q] /\ work'[q] = work[q]
  BY <1>1 DEF TypeOK, EndPublication
<1>3. work'[p].replaced = 0
  BY DEF TypeOK, Idle, EndPublication
<1>4. \A q \in Processes : Publisher(q)' <=> Publisher(q) /\ q # p
  BY <1>1, <1>2 DEF Publisher
<1>5. QED
  BY <1>1, <1>2, <1>3, <1>4 DEF PairInv

\* A failure, or a publication that is cut off, is remembered.
LEMMA TornStays ==
  ASSUME NEW it \in BOOLEAN
  PROVE  /\ torn \cup Cut(it) = {} => torn = {} /\ ~it
         /\ torn \cup {"failed"} # {}
BY DEF Cut

\* The steps up to the check: each puts a file where it belongs, or fails.
LEMMA ForwardSteps ==
  ASSUME TypeOK, PairInv, NEW p \in Processes,
         \/ AsideSnapshot(p) \/ AsideManifest(p) \/ ReplaceSnapshot(p) \/ ReplaceManifest(p)
         \/ PublishFails(p)
  PROVE  PairInv'
<1>1. work[p] \in Work
  BY DEF TypeOK
<1>2. ASSUME Publisher(p), torn = {}
      PROVE  Stage(p) /\ \A q \in Processes : Publisher(q) => q = p
  BY <1>2 DEF PairInv
<1>3. CASE AsideSnapshot(p)
  <2>1. /\ pc[p] = "aside" /\ pc' = [pc EXCEPT ![p] = "asideManifest"]
        /\ aside' = [aside EXCEPT ![p] = [snapshot |-> snapshot, manifest |-> None]]
        /\ snapshot' = None /\ UNCHANGED <<manifest, published>>
        /\ work' = [work EXCEPT ![p].hadManifest = manifest # None]
        /\ torn' = torn \cup Cut(\E q \in Processes : pc[q] \in Publishing)
    BY <1>3 DEF AsideSnapshot, Goto
  <2>2. work[p].replaced = 0 /\ work[p].content # None
    BY <2>1 DEF PairInv, Holds, Publisher, Publishing
  <2>3. /\ work'[p].replaced = 0 /\ work'[p].content = work[p].content
        /\ work'[p].hadManifest <=> manifest # None
        /\ \A q \in Processes : q # p => work'[q] = work[q]
    BY <2>1, <2>2 DEF TypeOK, Work
  <2>4. aside'[p].snapshot = snapshot /\ aside'[p].manifest = None
    BY <2>1 DEF TypeOK
  <2>5. pc'[p] = "asideManifest"
    BY <2>1 DEF TypeOK
  <2>6. ASSUME torn' = {} PROVE Stage(p)' /\ \A q \in Processes : ~Publisher(q)
    <3>1. torn = {} /\ \A q \in Processes : ~Publisher(q)
      BY <2>1, <2>6, TornStays DEF Publisher
    <3>2. Sealed(snapshot, manifest)
      BY <3>1 DEF PairInv
    <3>3. Undone(p)'
      BY <2>1, <2>3, <2>4, <3>2 DEF Undone, Sealed, Restored
    <3>4. QED
      BY <2>1, <2>3, <2>4, <2>5, <3>1, <3>2, <3>3 DEF Stage, Sealed
  <2>7. QED
    BY <2>1, <2>2, <2>3, <2>6, PairStage DEF Publishing
<1>4. CASE AsideManifest(p)
  <2>1. Publisher(p) /\ pc[p] = "asideManifest"
    BY <1>4 DEF AsideManifest, Publisher, Publishing
  <2>2. PICK l \in {"replace", "dropSnapshot"} :
          pc' = [pc EXCEPT ![p] = l]
          /\ (l = "dropSnapshot" <=> work[p].hadManifest /\ manifest = None)
    BY <1>4 DEF AsideManifest, Goto
  <2>3. UNCHANGED <<work, snapshot, torn, published>>
    BY <1>4 DEF AsideManifest, history
  <2>4. /\ manifest' = IF work[p].hadManifest THEN None ELSE manifest
        /\ aside'[p].snapshot = aside[p].snapshot
        /\ aside'[p].manifest = IF work[p].hadManifest THEN manifest ELSE None
    BY <1>4 DEF AsideManifest, TypeOK
  <2>5. pc'[p] = l
    BY <2>2 DEF TypeOK
  <2>6. ASSUME torn = {} PROVE Stage(p)'
    <3>1. Stage(p) /\ l = "replace"
      BY <1>2, <2>1, <2>2, <2>6 DEF Stage
    <3>2. work[p].replaced = 0 /\ snapshot' = None /\ manifest' = None
          /\ aside'[p].manifest = aside'[p].snapshot /\ aside'[p].snapshot = manifest
      BY <2>1, <2>3, <2>4, <3>1 DEF Stage
    <3>3. published => manifest # None
      BY <2>1, <3>1, <3>2 DEF Stage, Undone, Sealed, Restored
    <3>4. Undone(p)'
      BY <2>3, <3>2, <3>3 DEF Undone, Sealed, Restored
    <3>5. QED
      BY <2>3, <2>5, <3>1, <3>2, <3>4 DEF Stage
  <2>7. work[p].content # None
    BY <2>1 DEF PairInv, Holds
  <2>8. QED
    BY <1>2, <2>1, <2>2, <2>3, <2>6, <2>7, PairStage DEF Publishing
<1>5. CASE ReplaceSnapshot(p)
  <2>1. Publisher(p) /\ pc[p] = "replace" /\ work[p].content # None
    BY <1>5 DEF ReplaceSnapshot, Publisher, Publishing, PairInv, Holds
  <2>2. pc' = [pc EXCEPT ![p] = "seal"] /\ pc'[p] = "seal"
    BY <1>5 DEF ReplaceSnapshot, Goto, TypeOK
  <2>3. UNCHANGED <<manifest, aside, torn, published>> /\ snapshot' = work[p].content
    BY <1>5 DEF ReplaceSnapshot, history
  <2>4. work'[p].content = work[p].content /\ work'[p].replaced = 1
        /\ \A q \in Processes : q # p => work'[q] = work[q]
    BY <1>5 DEF ReplaceSnapshot, TypeOK, Work
  <2>5. ASSUME torn = {} PROVE Stage(p)'
    <3>1. work[p].replaced = 0 /\ snapshot = None /\ manifest = None /\ Undone(p)
      BY <1>2, <2>1, <2>5 DEF Stage
    <3>2. Undone(p)'
      BY <2>3, <2>4, <3>1 DEF Undone, Sealed, Restored
    <3>3. QED
      BY <2>2, <2>3, <2>4, <3>1, <3>2 DEF Stage
  <2>6. QED
    BY <1>2, <2>1, <2>2, <2>3, <2>4, <2>5, PairStage DEF Publishing
<1>6. CASE ReplaceManifest(p)
  <2>1. Publisher(p) /\ pc[p] = "seal" /\ work[p].content # None
    BY <1>6 DEF ReplaceManifest, Publisher, Publishing, PairInv, Holds
  <2>2. pc' = [pc EXCEPT ![p] = "verify"] /\ pc'[p] = "verify"
    BY <1>6 DEF ReplaceManifest, Goto, TypeOK
  <2>3. UNCHANGED <<snapshot, aside, torn, published>> /\ manifest' = work[p].content
    BY <1>6 DEF ReplaceManifest, history
  <2>4. work'[p].content = work[p].content /\ work'[p].replaced = 2
        /\ \A q \in Processes : q # p => work'[q] = work[q]
    BY <1>6 DEF ReplaceManifest, TypeOK, Work
  <2>5. ASSUME torn = {} PROVE Stage(p)'
    <3>1. work[p].replaced = 1 /\ manifest = None /\ snapshot = work[p].content /\ Undone(p)
      BY <1>2, <2>1, <2>5 DEF Stage
    <3>2. Undone(p)'
      BY <2>3, <2>4, <3>1 DEF Undone, Sealed, Restored
    <3>3. QED
      BY <2>2, <2>3, <2>4, <3>1, <3>2 DEF Stage
  <2>6. QED
    BY <1>2, <2>1, <2>2, <2>3, <2>4, <2>5, PairStage DEF Publishing
<1>7. CASE PublishFails(p)
  <2>1. UNCHANGED <<snapshot, manifest, aside, work, torn, published>>
    BY <1>7 DEF PublishFails, files, history
  <2>2. CASE pc[p] = "aside"
    <3>1. PICK l \in Labels \ (Publishing \cup Holds) : pc' = [pc EXCEPT ![p] = l]
      BY <1>7, <2>2 DEF PublishFails, Goto, AfterExport, Labels, Locked, Publishing, Holds
    <3>2. ~Publisher(p) /\ work[p].replaced = 0
      BY <2>2 DEF Publisher, Publishing, PairInv
    <3>3. QED
      BY <2>1, <3>1, <3>2, PairQuiet
  <2>3. CASE pc[p] # "aside"
    <3>1. /\ Publisher(p) /\ pc[p] \in {"asideManifest", "replace", "seal"}
          /\ pc' = [pc EXCEPT ![p] = "dropSnapshot"] /\ pc'[p] = "dropSnapshot"
      BY <1>7, <2>3 DEF PublishFails, Publisher, Publishing, Goto, TypeOK
    <3>2. torn = {} => Stage(p)'
      BY <1>2, <2>1, <3>1 DEF Stage, Undone, Sealed, Restored
    <3>3. QED
      BY <1>2, <2>1, <3>1, <3>2, PairStage DEF Publishing, Holds
  <2>4. QED
    BY <2>2, <2>3
<1>8. QED
  BY <1>3, <1>4, <1>5, <1>6, <1>7

\* The check, and what follows it: the end, or the undo file by file.
LEMMA BackwardSteps ==
  ASSUME TypeOK, PairInv, NEW p \in Processes,
         \/ VerifyPair(p) \/ CleanupFails(p) \/ DropSnapshot(p) \/ DropManifest(p)
         \/ BackSnapshot(p) \/ BackManifest(p) \/ UndoFails(p)
  PROVE  PairInv'
<1>1. work[p] \in Work
  BY DEF TypeOK
<1>3. Publisher(p)
  BY DEF VerifyPair, CleanupFails, DropSnapshot, DropManifest, BackSnapshot, BackManifest,
     UndoFails, Publisher, Publishing
<1>2. ASSUME torn = {}
      PROVE  Stage(p) /\ \A q \in Processes : Publisher(q) => q = p
  BY <1>2, <1>3 DEF PairInv
<1>4. CASE VerifyPair(p)
  <2>1. pc[p] = "verify" /\ UNCHANGED <<snapshot, manifest>>
    BY <1>4 DEF VerifyPair
  <2>2. CASE Verified
    <3>1. EndPublication(p) /\ torn' = IF \E q \in Processes \ {p} : pc[q] \in Publishing THEN torn ELSE {}
      BY <1>4, <2>2 DEF VerifyPair
    <3>2. torn' = {} => \A q \in Processes : Publisher(q) => q = p
      BY <1>2, <3>1 DEF Publisher
    <3>3. Sealed(snapshot, manifest)'
      BY <2>1, <2>2 DEF Sealed, Verified
    <3>4. QED
      BY <1>3, <3>1, <3>2, <3>3, PairEnd
  <2>3. CASE ~Verified
    <3>1. pc' = [pc EXCEPT ![p] = "dropSnapshot"] /\ UNCHANGED <<work, torn>>
      BY <1>4, <2>3 DEF VerifyPair, Goto
    <3>2. work[p].content # None
      BY <2>1 DEF PairInv, Holds
    <3>3. torn # {}
      BY <1>2, <2>1, <2>3, <3>2 DEF Stage, Verified
    <3>4. QED
      BY <3>1, <3>3, PairStage DEF Publishing, Holds
  <2>4. QED
    BY <2>2, <2>3
<1>5. CASE CleanupFails(p)
  <2>1. /\ pc[p] = "verify" /\ pc' = [pc EXCEPT ![p] = "dropSnapshot"] /\ pc'[p] = "dropSnapshot"
        /\ UNCHANGED <<snapshot, manifest, work, published>>
    BY <1>5 DEF CleanupFails, Goto, TypeOK
  <2>2. torn' = {} => UNCHANGED <<aside, torn>>
    BY <1>5, TornStays DEF CleanupFails
  <2>3. torn' = {} => Stage(p)'
    BY <1>2, <2>1, <2>2 DEF Stage, Undone, Sealed, Restored
  <2>4. QED
    BY <1>2, <2>1, <2>2, <2>3, PairStage DEF Publishing, Holds
<1>6. CASE DropSnapshot(p)
  <2>1. /\ pc[p] = "dropSnapshot" /\ pc' = [pc EXCEPT ![p] = "dropManifest"] /\ pc'[p] = "dropManifest"
        /\ snapshot' = IF work[p].replaced >= 1 THEN None ELSE snapshot
        /\ UNCHANGED <<manifest, aside, work, torn, published>>
    BY <1>6 DEF DropSnapshot, Goto, TypeOK, history
  <2>2. torn = {} => Undone(p)'
    BY <1>2, <2>1 DEF Stage, Undone, Sealed, Restored
  <2>3. torn = {} => Stage(p)'
    BY <2>1, <2>2 DEF Stage
  <2>4. QED
    BY <1>2, <2>1, <2>3, PairStage DEF Publishing, Holds
<1>7. CASE DropManifest(p)
  <2>1. /\ pc[p] = "dropManifest" /\ pc' = [pc EXCEPT ![p] = "backSnapshot"] /\ pc'[p] = "backSnapshot"
        /\ manifest' = IF work[p].replaced >= 2 THEN None ELSE manifest
        /\ UNCHANGED <<snapshot, aside, torn, published>>
    BY <1>7 DEF DropManifest, Goto, TypeOK, history
  <2>2. work'[p].replaced = 0 /\ \A q \in Processes : q # p => work'[q] = work[q]
    BY <1>1, <1>7 DEF DropManifest, TypeOK, Work
  <2>3. work[p].replaced \in 0 .. 2
    BY <1>1 DEF Work
  <2>4. torn = {} => Undone(p)'
    BY <1>2, <2>1, <2>2, <2>3 DEF Stage, Undone, Sealed, Restored
  <2>5. torn = {} => Stage(p)'
    BY <2>1, <2>2, <2>4 DEF Stage
  <2>6. QED
    BY <1>2, <2>1, <2>2, <2>5, PairStage DEF Publishing, Holds
<1>8. CASE BackSnapshot(p)
  <2>1. /\ pc[p] = "backSnapshot" /\ pc' = [pc EXCEPT ![p] = "backManifest"] /\ pc'[p] = "backManifest"
        /\ snapshot' = IF aside[p].snapshot # None THEN aside[p].snapshot ELSE snapshot
        /\ UNCHANGED <<manifest, work, torn, published>>
    BY <1>8 DEF BackSnapshot, Goto, TypeOK, history
  <2>2. aside'[p].snapshot = None /\ aside'[p].manifest = aside[p].manifest
    BY <1>8 DEF BackSnapshot, TypeOK
  <2>3. torn = {} => Undone(p)'
    BY <1>2, <2>1, <2>2 DEF Stage, Undone, Sealed, Restored
  <2>4. torn = {} => Stage(p)'
    BY <1>2, <2>1, <2>2, <2>3 DEF Stage
  <2>5. QED
    BY <1>2, <2>1, <2>4, PairStage DEF Publishing, Holds
<1>9. CASE BackManifest(p)
  <2>1. /\ pc[p] = "backManifest" /\ EndPublication(p)
        /\ manifest' = IF aside[p].manifest # None THEN aside[p].manifest ELSE manifest
        /\ UNCHANGED <<snapshot, torn, published>>
    BY <1>9 DEF BackManifest, history
  <2>2. torn = {} => Sealed(snapshot, manifest)'
    BY <1>2, <2>1 DEF Stage, Undone, Sealed, Restored
  <2>3. QED
    BY <1>2, <1>3, <2>1, <2>2, PairEnd
<1>10. CASE UndoFails(p)
  <2>1. EndPublication(p) /\ torn' # {}
    BY <1>10, TornStays DEF UndoFails
  <2>2. QED
    BY <1>3, <2>1, PairEnd
<1>11. QED
  BY <1>4, <1>5, <1>6, <1>7, <1>8, <1>9, <1>10

LEMMA PublishSteps ==
  ASSUME TypeOK, PairInv, NEW p \in Processes, Publishes(p)
  PROVE  PairInv'
BY ForwardSteps, BackwardSteps DEF Publishes

\* A process whose import or export is over holds nothing.
LEMMA OverLabels ==
  ASSUME NEW p \in Processes
  PROVE  /\ Rest(p) \in Labels \ (Publishing \cup Holds)
         /\ \A ok : AfterImport(p, ok) \in Labels \ (Publishing \cup Holds)
         /\ AfterExport(p) \in Labels \ (Publishing \cup Holds)
BY DEF Rest, AfterImport, AfterExport, Labels, Locked, Publishing, Holds

LEMMA PairStep ==
  ASSUME TypeOK, PairInv, Next
  PROVE  PairInv'
<1>1. ASSUME NEW p \in Processes,
             \/ FindLock(p) \/ DropLock(p) \/ CreateLock(p) \/ OpenForRun(p) \/ ReleaseLock(p)
             \/ ReadSnapshot(p) \/ ReadManifest(p) \/ Merge(p) \/ ReadJobs(p) \/ ReadRest(p)
      PROVE  PairInv'
  <2>1. UNCHANGED <<snapshot, manifest, aside, torn, published>>
    BY <1>1 DEF FindLock, DropLock, CreateLock, OpenForRun, ReleaseLock, ReadSnapshot,
       ReadManifest, Merge, ReadJobs, ReadRest, files, history
  <2>2. ~Publisher(p) /\ work[p].replaced = 0
    BY <1>1 DEF FindLock, DropLock, CreateLock, OpenForRun, ReleaseLock, ReadSnapshot,
       ReadManifest, Merge, ReadJobs, ReadRest, Publisher, Publishing, PairInv
  <2>3. \/ UNCHANGED work
        \/ \E c : work' = [work EXCEPT ![p].content = c]
        \/ \E rows : work' = [work EXCEPT ![p].read = rows]
    BY <1>1 DEF FindLock, DropLock, CreateLock, OpenForRun, ReleaseLock, ReadSnapshot,
       ReadManifest, Merge, ReadJobs, ReadRest
  <2>4. work'[p].replaced = 0 /\ \A q \in Processes : q # p => work'[q] = work[q]
    BY <2>2, <2>3 DEF TypeOK, Work
  <2>5. PICK l \in Labels \ Publishing :
          pc' = [pc EXCEPT ![p] = l] /\ (l \in Holds => work'[p].content # None)
    <3>1. CASE FindLock(p) \/ DropLock(p) \/ CreateLock(p) \/ OpenForRun(p) \/ ReleaseLock(p)
      BY <3>1 DEF FindLock, DropLock, CreateLock, OpenForRun, ReleaseLock, Rest, Goto, Labels,
         Locked, Publishing, Holds
    <3>2. CASE ReadSnapshot(p)
      <4>1. work'[p].content = snapshot
        BY <3>2 DEF ReadSnapshot, TypeOK, Work
      <4>2. QED
        BY <3>2, <4>1, OverLabels DEF ReadSnapshot, Goto, Labels, Locked, Publishing
    <3>3. CASE ReadManifest(p)
      <4>1. work'[p].content # None
        BY <3>3 DEF ReadManifest, PairInv, Holds
      <4>2. QED
        BY <3>3, <4>1, OverLabels DEF ReadManifest, Goto, Labels, Locked, Publishing
    <3>4. CASE Merge(p)
      BY <3>4, OverLabels DEF Merge, Goto
    <3>5. CASE ReadJobs(p)
      BY <3>5 DEF ReadJobs, AfterExport, Goto, Labels, Locked, Publishing, Holds
    <3>6. CASE ReadRest(p)
      <4> DEFINE read == [work[p].read EXCEPT !["applications"] = db[Home[p]].rows["applications"]]
      <4>1. CASE Goto(p, AfterExport(p))
        BY <3>6, <4>1, OverLabels DEF Goto
      <4>2. CASE /\ db[Home[p]] # None /\ Goto(p, "aside")
                 /\ work' = [work EXCEPT ![p].content = [rows |-> read, meta |-> db[Home[p]].meta]]
        <5>1. work' \in [Processes -> Work]
          BY <3>6, ReadTypes DEF TypeOK
        <5>2. work'[p].content = [rows |-> read, meta |-> db[Home[p]].meta]
          BY <4>2 DEF TypeOK, Work
        <5>3. work'[p].content # None
          <6>1. db[Home[p]] \in Database
            BY <4>2, SyncAssumption DEF TypeOK
          <6>2. db[Home[p]].rows \in Rows /\ db[Home[p]].meta \in {2, 3} /\ work[p].read \in Rows
            BY <6>1 DEF Database, TypeOK, Work
          <6>3. read \in Rows
            BY <6>2 DEF Rows, Tables
          <6>4. work'[p].content \in Content
            BY <5>2, <6>2, <6>3 DEF Content
          <6>5. QED
            BY <6>4, SyncAssumption
        <5>4. pc' = [pc EXCEPT ![p] = "aside"]
          BY <4>2 DEF Goto
        <5>5. QED
          BY <5>3, <5>4 DEF Labels, Locked, Publishing
      <4>3. QED
        BY <3>6, <4>1, <4>2 DEF ReadRest
    <3>7. QED
      BY <1>1, <3>1, <3>2, <3>3, <3>4, <3>5, <3>6
  <2>6. QED
    BY <2>1, <2>2, <2>4, <2>5, PairQuiet
<1>2. ASSUME NEW p \in Processes, StartServer(p)
      PROVE  PairInv'
  <2>1. UNCHANGED <<snapshot, manifest, aside, torn, published>> /\ ~Publisher(p)
    BY <1>2 DEF StartServer, files, Publisher, Publishing
  <2>2. work'[p].replaced = 0 /\ \A q \in Processes : q # p => work'[q] = work[q]
    <3>1. work'[p].replaced = 0 \/ UNCHANGED work
      BY <1>2 DEF StartServer, TypeOK, Idle
    <3>2. QED
      BY <1>2, <2>1, <3>1 DEF StartServer, TypeOK, PairInv
  <2>3. PICK l \in {"serving", "snapshot", "down"} : pc' = [pc EXCEPT ![p] = l]
    BY <1>2 DEF StartServer, Goto
  <2>4. QED
    BY <2>1, <2>2, <2>3, PairQuiet DEF Labels, Locked, Publishing, Holds
<1>3. ASSUME NEW p \in Processes, NEW op \in {"import", "export", "run", "stop"}, Ask(p, op)
      PROVE  PairInv'
  <2>1. UNCHANGED <<snapshot, manifest, aside, torn, published>> /\ ~Publisher(p)
    BY <1>3 DEF Ask, files, history, Publisher, Publishing, Rest
  <2>2. work'[p].replaced = 0 /\ \A q \in Processes : q # p => work'[q] = work[q]
    BY <1>3 DEF Ask, TypeOK, Idle
  <2>3. PICK l \in {"lock", "snapshot", "tables"} : pc' = [pc EXCEPT ![p] = l]
    BY <1>3 DEF Ask, Goto
  <2>4. QED
    BY <2>1, <2>2, <2>3, PairQuiet DEF Labels, Locked, Publishing, Holds
<1>4. ASSUME NEW p \in Processes, Crash(p)
      PROVE  PairInv'
  <2>1. UNCHANGED <<snapshot, manifest, aside, published>> /\ (torn' = {} => torn = {} /\ ~Publisher(p))
    BY <1>4, TornStays DEF Crash, files, Publisher
  <2>2. work'[p].replaced = 0 /\ \A q \in Processes : q # p => work'[q] = work[q]
    BY <1>4 DEF Crash, TypeOK, Idle
  <2>3. pc' = [pc EXCEPT ![p] = "down"]
    BY <1>4 DEF Crash, Goto
  <2>4. QED
    BY <2>1, <2>2, <2>3, PairQuiet DEF Labels, Locked, Publishing, Holds
<1>5. ASSUME UNCHANGED <<snapshot, manifest, aside, pc, work, torn, published>>
      PROVE  PairInv'
  BY <1>5 DEF PairInv, Publisher, Stage, Undone, Sealed, Restored
<1>6. ASSUME NEW p \in Processes, Step(p)
      PROVE  PairInv'
  BY <1>1, <1>6, PublishSteps, StepKinds
<1>7. ASSUME NEW p \in Processes, NEW t \in Tables, NEW at \in Times, WriteRow(p, t, at)
      PROVE  PairInv'
  BY <1>5, <1>7 DEF WriteRow, files, history
<1>8. ASSUME (\E m \in Machines : Corrupt(m)) \/ AgeLock
      PROVE  PairInv'
  BY <1>5, <1>8 DEF Corrupt, AgeLock, files, history
<1>9. QED
  BY <1>2, <1>3, <1>4, <1>6, <1>7, <1>8 DEF Next

-----------------------------------------------------------------------------
(* Rows.                                                                    *)

\* A sound database keeps its rows, and replaces one only by a newer one.
RowsKept ==
  \A m \in Machines, t \in Tables :
    db[m] # None /\ db[m].sound /\ db[m].rows[t] # None =>
      /\ db'[m] # None /\ db'[m].rows[t] # None
      /\ db'[m].rows[t].at >= db[m].rows[t].at
      /\ db'[m].rows[t].at = db[m].rows[t].at => db'[m].rows[t] = db[m].rows[t]

LEMMA RowsStep ==
  ASSUME TypeOK, PairInv, [Next]_vars
  PROVE  RowsKept
<1>1. ASSUME NEW m \in Machines, NEW t \in Tables, db[m] # None, db[m].rows[t] # None
      PROVE  db[m] \in Database /\ db[m].rows \in Rows /\ db[m].rows[t] \in Row
             /\ db[m].rows[t].at \in Nat
  <2>1. db[m] \in Database
    BY <1>1 DEF TypeOK
  <2>2. db[m].rows \in Rows
    BY <2>1 DEF Database
  <2>3. db[m].rows[t] \in Row
    BY <1>1, <2>2 DEF Rows
  <2>4. db[m].rows[t].at \in Times
    BY <2>3 DEF Row
  <2>5. QED
    BY <2>1, <2>2, <2>3, <2>4, SyncAssumption
<1>2. ASSUME \A m \in Machines :
               db[m] # None /\ db[m].sound => db'[m] # None /\ db'[m].rows = db[m].rows
      PROVE  RowsKept
  <2> SUFFICES ASSUME NEW m \in Machines, NEW t \in Tables,
                      db[m] # None, db[m].sound, db[m].rows[t] # None
               PROVE  /\ db'[m] # None /\ db'[m].rows[t] # None
                      /\ db'[m].rows[t].at >= db[m].rows[t].at
                      /\ db'[m].rows[t].at = db[m].rows[t].at => db'[m].rows[t] = db[m].rows[t]
    BY DEF RowsKept
  <2>1. db[m].rows[t].at \in Nat
    BY <1>1
  <2>2. QED
    BY <1>2, <2>1
<1>3. ASSUME NEW p \in Processes, StartServer(p) \/ OpenForRun(p)
      PROVE  RowsKept
  <2>1. \A m \in Machines : db[m] # None /\ db[m].sound => db'[m] = db[m]
    BY <1>3 DEF StartServer, OpenForRun, Present, TypeOK
  <2>2. QED
    BY <1>2, <2>1
<1>4. ASSUME NEW c \in Machines, Corrupt(c)
      PROVE  RowsKept
  <2>1. \A m \in Machines : db[m] # None => db'[m] # None /\ db'[m].rows = db[m].rows
    <3>1. [db[c] EXCEPT !.sound = FALSE] \in Database
      BY <1>4 DEF Corrupt, TypeOK, Database
    <3>2. [db[c] EXCEPT !.sound = FALSE].rows = db[c].rows
      BY <1>4 DEF Corrupt, TypeOK, Database
    <3>3. QED
      BY <1>4, <3>1, <3>2, SyncAssumption DEF Corrupt, TypeOK
  <2>2. QED
    BY <1>2, <2>1
<1>5. ASSUME NEW p \in Processes, NEW u \in Tables, NEW at \in Times, WriteRow(p, u, at)
      PROVE  RowsKept
  <2> DEFINE h == Home[p]
             rows == [db[h].rows EXCEPT ![u] = [at |-> at, by |-> h]]
  <2>1. /\ h \in Machines /\ db[h] \in Database /\ db[h].rows \in Rows
        /\ db[h].rows[u] # None => db[h].rows[u].at < at
        /\ at \in Nat /\ [at |-> at, by |-> h] # None
    <3>1. h \in Machines /\ db[h] \in Database
      BY <1>5, SyncAssumption DEF WriteRow, TypeOK
    <3>2. [at |-> at, by |-> h] \in Row
      BY <3>1 DEF Row
    <3>3. QED
      BY <1>5, <3>1, <3>2, SyncAssumption DEF WriteRow, Database
  <2>2. /\ rows[u] = [at |-> at, by |-> h]
        /\ \A t \in Tables : t # u => rows[t] = db[h].rows[t]
    BY <2>1 DEF Rows
  <2>3. db' = [db EXCEPT ![h].rows = rows]
    BY <1>5 DEF WriteRow
  <2> HIDE DEF rows, h
  <2>4. db'[h] \in Database /\ db'[h].rows = rows /\ \A m \in Machines : m # h => db'[m] = db[m]
    <3>1. rows \in Rows
      BY <1>5, WriteRowRows DEF rows, h
    <3>2. QED
      BY <2>1, <2>3, <3>1 DEF TypeOK, Database
  <2>5. QED
    BY <1>1, <2>1, <2>2, <2>4, SyncAssumption DEF RowsKept
<1>6. ASSUME NEW p \in Processes, Merge(p)
      PROVE  RowsKept
  <2> DEFINE h == Home[p]
             got == work[p].content
  <2>1. h \in Machines /\ got \in Content /\ Present(h) \in Database
    BY <1>6, SyncAssumption, PresentTyped DEF Merge, TypeOK, PairInv, Holds, Work
  <2>2. db' = [db EXCEPT ![h] = MergedTo(h, got)]
    BY <1>6 DEF Merge, MergedTo, MergedRows
  <2>3. /\ MergedTo(h, got) \in Database
        /\ MergedTo(h, got).rows = MergedRows(h, got) \/ MergedTo(h, got) = Present(h)
    BY <2>1, MergedTyped
  <2>4. SUFFICES ASSUME NEW m \in Machines, NEW t \in Tables, db[m] # None, db[m].rows[t] # None
                 PROVE  /\ db'[m] # None /\ db'[m].rows[t] # None
                        /\ db'[m].rows[t].at >= db[m].rows[t].at
                        /\ db'[m].rows[t].at = db[m].rows[t].at => db'[m].rows[t] = db[m].rows[t]
    BY DEF RowsKept
  <2>5. db[m].rows[t] \in Row /\ db[m].rows[t].at \in Nat
    BY <1>1, <2>4
  <2>6. CASE db'[m] = db[m]
    BY <2>4, <2>5, <2>6
  <2>7. CASE m = h /\ MergedTo(h, got).rows = MergedRows(h, got)
    <3> DEFINE new == MergeRow(db[m].rows[t], got.rows[t])
    <3>1. Present(h) = db[m]
      BY <2>4, <2>7 DEF Present
    <3>2. db'[m] \in Database /\ db'[m].rows[t] = new
      BY <2>1, <2>2, <2>3, <2>7, <3>1 DEF TypeOK, MergedRows
    <3>3. got.rows[t] \in Row \cup {None}
      BY <2>1 DEF Content, Rows
    <3>4. new \in Row /\ (new = db[m].rows[t] \/ new.at > db[m].rows[t].at)
      BY <2>4, <2>5, <3>3, MergeRowKeeps
    <3> HIDE DEF new
    <3>5. new.at \in Nat
      BY <3>4, SyncAssumption DEF Row
    <3>6. db'[m] # None /\ new # None
      BY <3>2, <3>4, SyncAssumption
    <3>7. new.at >= db[m].rows[t].at /\ (new.at = db[m].rows[t].at => new = db[m].rows[t])
      BY <2>5, <3>4, <3>5
    <3>8. QED
      BY <3>2, <3>6, <3>7
  <2>8. QED
    BY <2>2, <2>3, <2>4, <2>6, <2>7 DEF Present, TypeOK
<1>7. CASE UNCHANGED db
  BY <1>2, <1>7
<1>8. ASSUME NEW p \in Processes, Step(p) \/ Crash(p), ~Merge(p), ~OpenForRun(p)
      PROVE  UNCHANGED db
  BY <1>8, StepKinds, PublishesLeaves DEF FindLock, DropLock, CreateLock, ReleaseLock, ReadSnapshot,
     ReadManifest, ReadJobs, ReadRest, Crash
<1>9. ASSUME NEW p \in Processes, NEW op \in {"import", "export", "run", "stop"}, Ask(p, op)
      PROVE  UNCHANGED db
  BY <1>9 DEF Ask
<1>10. QED
  BY <1>3, <1>4, <1>5, <1>6, <1>7, <1>8, <1>9 DEF Next, AgeLock, vars

-----------------------------------------------------------------------------
(* The theorems.                                                            *)

SyncInv == TypeOK /\ ReferencesHold /\ LockInv /\ PairInv

LEMMA InitialSyncInv ==
  ASSUME Init
  PROVE  SyncInv
<1>1. TypeOK
  BY InitialTypes
<1>2. ReferencesHold
  BY SyncAssumption DEF Init, ReferencesHold
<1>3. LockInv
  BY DEF Init, LockInv, LockLabels, Runs, Locked, Publishing
<1>4. PairInv
  BY DEF Init, PairInv, Holds, Publisher, Publishing, Idle, Sealed
<1>5. QED
  BY <1>1, <1>2, <1>3, <1>4 DEF SyncInv

LEMMA TypeStep ==
  ASSUME TypeOK, Next, \A p \in Processes : Merge(p) => work[p].content # None
  PROVE  TypeOK'
<1>1. ASSUME NEW p \in Processes, Step(p)
      PROVE  TypeOK'
  BY <1>1, StepKinds, LockTypes, OpenTypes, ReadTypes, MergeTypes, PublishTypes
<1>2. QED
  BY <1>1, StartTypes, FaultTypes, AskTypes, WriteRowTypes DEF Next

LEMMA SyncInvStep ==
  ASSUME SyncInv, [Next]_vars
  PROVE  SyncInv'
<1>1. \A p \in Processes : Merge(p) => work[p].content # None
  BY DEF SyncInv, PairInv, Holds, Merge
<1>2. CASE Next
  BY <1>1, <1>2, TypeStep, ReferenceStep, LockStep, PairStep DEF SyncInv
<1>3. CASE UNCHANGED vars
  <2>1. TypeOK' /\ ReferencesHold'
    BY <1>3 DEF vars, files, history, SyncInv, TypeOK, ReferencesHold
  <2>2. LockInv'
    BY <1>3 DEF vars, files, history, SyncInv, LockInv, OwnLock, Runs
  <2>3. PairInv'
    BY <1>3 DEF vars, files, history, SyncInv, PairInv, Publisher, Stage, Undone, Sealed, Restored
  <2>4. QED
    BY <2>1, <2>2, <2>3 DEF SyncInv
<1>4. QED
  BY <1>2, <1>3

LEMMA SyncInvHolds == Spec => []SyncInv
<1>1. Init => SyncInv
  BY InitialSyncInv
<1>2. SyncInv /\ [Next]_vars => SyncInv'
  BY SyncInvStep
<1>3. QED
  BY <1>1, <1>2, PTL DEF Spec

\* The databases and files stay well-typed, no import leaves an application without its
\* job (importSnapshot.ts), and two runs of runSync are under way at once only after a
\* lock past its time was taken over (syncRunner.ts), whatever fails or crashes.
THEOREM DatabasesAreSound == Spec => []IInv
<1>1. SyncInv => IInv
  BY LockIsExclusive DEF SyncInv, IInv
<1>2. QED
  BY <1>1, SyncInvHolds, PTL

\* Whichever rename or check of a publication fails, or the removal of the first file it put
\* aside, its undo leaves the snapshot its manifest speaks of, and a pair once published does
\* not disappear, as long as no process died publishing, no two published at once and no
\* undo or later removal failed since a publication last succeeded alone
\* (publishSnapshotPairAtomically).
THEOREM PairIsWhole == Spec => []PairMatches
<1>1. SyncInv => PairMatches
  BY PairInvImpliesPairMatches DEF SyncInv
<1>2. QED
  BY <1>1, SyncInvHolds, PTL

\* No start, import or run takes a row of a sound database away or puts an older one in its
\* place (mergeTable), for any number of machines that share the directory.
THEOREM RowsAreKept == Spec => NothingNewerIsLost
<1>1. SyncInv /\ [Next]_vars => RowsKept
  BY RowsStep DEF SyncInv
<1>2. RowsKept => [RowsKept]_vars
  OBVIOUS
<1>3. Spec => [][RowsKept]_vars
  BY <1>1, SyncInvHolds, PTL DEF Spec
<1>4. QED
  BY <1>3 DEF NothingNewerIsLost, RowsKept
=============================================================================
