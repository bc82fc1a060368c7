--------------------------- MODULE BatchCaptureProofs ---------------------------
(***************************************************************************)
(* Proofs about BatchCapture, for any jobs, looks, overlays and limits.    *)
(***************************************************************************)
EXTENDS BatchCapture, FiniteSetTheorems, TLAPS

Stages == {"absent", "open", "asleep", "again", "wait", "sending", "over"}
Slot == [job : Jobs, status : Status]
Work == [at : {"none", "session", "adding", "done"}, next : Nat, submitted : Nat, failed : Nat,
         answer : {"none", "stored"}]

\* The loop has worked off the first k items of its queue and no other; the next is in
\* flight while it waits.  Unless a card has left the list each has a result.
WorkedTo(k, stg, que, res, gone) ==
  /\ k \in 0..Len(que)
  /\ \A i \in DOMAIN que : que[i].status \in Terminal <=> i <= k
  /\ stg # "over" => \A i \in DOMAIN que : que[i].status = "observing" <=> stg = "wait" /\ i = k + 1
  /\ stg = "wait" => k + 1 <= Len(que)
  /\ \A i \in DOMAIN res : res[i].order <= k
  /\ ~gone => Len(res) = k

\* A text that is not blocked is the job's own, or of a job without a link that looks like it.
TrueText(item) ==
  item.content \notin {None, item.job} =>
    item.content \notin Linked /\ Look[item.content] = Look[item.job]

InOrder(items) == \A i, k \in DOMAIN items : i < k => items[i].order < items[k].order

\* Results are about the items of the queue, in their order.
ReadFrom(que, res) ==
  /\ res \in Seq(Item) /\ InOrder(res)
  /\ \A i \in DOMAIN res : /\ res[i].order \in DOMAIN que
                           /\ que[res[i].order].job = res[i].job
                           /\ TrueText(res[i])

\* The worker stores results in their order, and counts those it has gone past.
SentFrom(res, wrk, str) ==
  /\ wrk \in Work /\ str \in Seq(Item) /\ InOrder(str)
  /\ wrk.next <= Len(res) + 1 /\ wrk.next = wrk.submitted + wrk.failed + 1
  /\ \A i \in DOMAIN str : \E m \in DOMAIN res : m < wrk.next /\ str[i] = res[m]
  /\ wrk.submitted <= Len(str) /\ Len(str) <= wrk.submitted + wrk.failed

\* What an overlay is doing fits what it has.
PhaseFits(stg, trn, que, res, wrk) ==
  /\ stg \in Stages /\ trn \in 0..MaxIterations
  /\ stg = "wait" => trn < MaxIterations
  /\ stg \in {"absent", "open"} => que = <<>> /\ res = <<>>
  /\ wrk.at # "none" => stg \in {"sending", "over"}

QueueSound(stg, que, res, gone) ==
  /\ que \in Seq(Slot) /\ Len(que) <= MaxBatch
  /\ ReadFrom(que, res)
  /\ \E k \in 0..Len(que) : WorkedTo(k, stg, que, res, gone)

ChosenSound(sel) == sel \in Seq(Jobs) /\ Len(sel) <= MaxBatch

OverlaySound(o) ==
  /\ ChosenSound(selection[o])
  /\ PhaseFits(stage[o], turns[o], queue[o], results[o], worker[o])
  /\ QueueSound(stage[o], queue[o], results[o], moved)
  /\ SentFrom(results[o], worker[o], stored[o])
  /\ worker[o].at # "none" /\ ~moved /\ o \notin capped => Len(results[o]) = Len(queue[o])

PageSound ==
  /\ cards \subseteq Jobs /\ loading \subseteq Jobs /\ panel \in Jobs \cup {None}
  /\ mounted \in Overlays \cup {None}
  /\ moved \in BOOLEAN /\ (~moved => cards = Jobs)

Typed ==
  /\ selection \in [Overlays -> Seq(Jobs)] /\ stage \in [Overlays -> Stages]
  /\ paused \in [Overlays -> BOOLEAN] /\ turns \in [Overlays -> Nat]
  /\ queue \in [Overlays -> Seq(Slot)] /\ results \in [Overlays -> Seq(Item)]
  /\ worker \in [Overlays -> Work] /\ stored \in [Overlays -> Seq(Item)]

BatchInv == PageSound /\ Typed /\ \A o \in Overlays : OverlaySound(o)

-----------------------------------------------------------------------------
(* What the parts of the invariant say together.                           *)

LEMMA SerialFollows ==
  ASSUME NEW stg \in Stages, NEW que \in Seq(Slot), NEW k \in Nat, NEW res, NEW gone,
         WorkedTo(k, stg, que, res, gone), stg # "over"
  PROVE  Cardinality({i \in DOMAIN que : que[i].status = "observing"}) = IF stg = "wait" THEN 1 ELSE 0
<1> DEFINE S == {i \in DOMAIN que : que[i].status = "observing"}
<1>1. \A i \in DOMAIN que : que[i].status = "observing" <=> stg = "wait" /\ i = k + 1
  BY DEF WorkedTo
<1>2. CASE stg = "wait"
  <2>1. k + 1 \in DOMAIN que
    BY <1>2 DEF WorkedTo
  <2>2. S = {k + 1}
    BY <1>1, <1>2, <2>1
  <2>3. Cardinality(S) = 1
    <3> HIDE DEF S
    <3>1. PICK n : n = k + 1
      OBVIOUS
    <3>2. Cardinality({n}) = 1
      BY FS_Singleton
    <3> QED BY <2>2, <3>1, <3>2
  <2> QED BY <1>2, <2>3
<1>3. CASE stg # "wait"
  <2>1. S = {}
    BY <1>1, <1>3
  <2>2. Cardinality(S) = 0
    <3> HIDE DEF S
    <3> QED BY <2>1, FS_EmptySet
  <2> QED BY <1>3, <2>2
<1> QED BY <1>2, <1>3

\* The invariant has in it what the runs check.
LEMMA BatchInvIsSound == BatchInv => IInv /\ CompleteUnlessMoved
<1> SUFFICES ASSUME BatchInv PROVE IInv /\ CompleteUnlessMoved
  OBVIOUS
<1>1. TypeOK
  <2>1. ASSUME NEW o \in Overlays
        PROVE  /\ stage[o] \in {"absent", "open", "asleep", "again", "wait", "sending", "over"}
               /\ turns[o] \in 0 .. MaxIterations
               /\ Len(selection[o]) <= MaxBatch
               /\ \A i \in DOMAIN queue[o] : queue[o][i] \in [job : Jobs, status : Status]
               /\ \A i \in DOMAIN results[o] : results[o][i] \in Item
    <3>1. OverlaySound(o)
      BY DEF BatchInv
    <3>2. stage[o] \in Stages /\ turns[o] \in 0..MaxIterations /\ Len(selection[o]) <= MaxBatch
      BY <3>1 DEF OverlaySound, PhaseFits, ChosenSound
    <3>3. queue[o] \in Seq(Slot) /\ results[o] \in Seq(Item)
      BY <3>1 DEF OverlaySound, QueueSound, ReadFrom
    <3>4. \A i \in DOMAIN queue[o] : queue[o][i] \in Slot
      BY <3>3
    <3>5. \A i \in DOMAIN results[o] : results[o][i] \in Item
      BY <3>3
    <3> QED BY <3>2, <3>4, <3>5 DEF Stages, Slot
  <2> QED BY <2>1 DEF TypeOK, BatchInv, PageSound
<1>2. Serial
  <2> SUFFICES ASSUME NEW o \in Overlays, stage[o] # "over"
               PROVE  Cardinality({i \in DOMAIN queue[o] : queue[o][i].status = "observing"})
                        = IF stage[o] = "wait" THEN 1 ELSE 0
    BY DEF Serial
  <2>1. OverlaySound(o)
    BY DEF BatchInv
  <2>2. stage[o] \in Stages /\ queue[o] \in Seq(Slot) /\ Len(queue[o]) \in Nat
    BY <2>1 DEF OverlaySound, PhaseFits, QueueSound
  <2>3. PICK k \in 0..Len(queue[o]) : WorkedTo(k, stage[o], queue[o], results[o], moved)
    BY <2>1 DEF OverlaySound, QueueSound
  <2>4. k \in Nat
    BY <2>2
  <2> QED BY <2>2, <2>3, <2>4, SerialFollows
<1>3. PreviewIsTrue
  <2> SUFFICES ASSUME NEW o \in Overlays, NEW i \in DOMAIN stored[o], NEW k \in DOMAIN stored[o]
               PROVE  /\ i < k => stored[o][i].order < stored[o][k].order
                      /\ queue[o][stored[o][i].order].job = stored[o][i].job
                      /\ TrueText(stored[o][i])
    BY DEF PreviewIsTrue, TrueText
  <2>1. OverlaySound(o)
    BY DEF BatchInv
  <2>2. InOrder(stored[o]) /\ \E m \in DOMAIN results[o] : stored[o][i] = results[o][m]
    BY <2>1 DEF OverlaySound, SentFrom
  <2>3. \A m \in DOMAIN results[o] :
           queue[o][results[o][m].order].job = results[o][m].job /\ TrueText(results[o][m])
    BY <2>1 DEF OverlaySound, QueueSound, ReadFrom
  <2> QED BY <2>2, <2>3 DEF InOrder
<1>4. CountsAreBounds
  BY DEF CountsAreBounds, BatchInv, OverlaySound, SentFrom
<1>5. CompleteUnlessMoved
  BY DEF CompleteUnlessMoved, BatchInv, OverlaySound
<1> QED BY <1>1, <1>2, <1>3, <1>4, <1>5 DEF IInv

LEMMA BatchInvInit == Init => BatchInv
<1> SUFFICES ASSUME Init PROVE BatchInv
  OBVIOUS
<1>1. PageSound
  BY DEF Init, PageSound
<1>3. Typed
  <2>1. NoWork \in Work
    BY DEF NoWork, Work
  <2> HIDE DEF NoWork
  <2> QED BY <2>1 DEF Init, Typed, Stages
<1>2. ASSUME NEW o \in Overlays
      PROVE  OverlaySound(o)
  <2>1. /\ selection[o] = <<>> /\ stage[o] = "absent" /\ turns[o] = 0 /\ queue[o] = <<>>
        /\ results[o] = <<>> /\ worker[o] = NoWork /\ stored[o] = <<>>
    BY DEF Init
  <2>2. NoWork \in Work /\ NoWork.at = "none" /\ NoWork.next = 1 /\ NoWork.submitted = 0 /\ NoWork.failed = 0
    BY DEF NoWork, Work
  <2>3. ChosenSound(<<>>)
    BY BatchAssumption DEF ChosenSound
  <2>4. PhaseFits("absent", 0, <<>>, <<>>, NoWork)
    BY <2>2, BatchAssumption DEF PhaseFits, Stages
  <2>5. ReadFrom(<<>>, <<>>)
    BY DEF ReadFrom, InOrder
  <2>6. WorkedTo(0, "absent", <<>>, <<>>, moved)
    BY DEF WorkedTo
  <2>7. QueueSound("absent", <<>>, <<>>, moved)
    BY <2>5, <2>6, BatchAssumption DEF QueueSound
  <2>8. SentFrom(<<>>, NoWork, <<>>)
    BY <2>2 DEF SentFrom, InOrder
  <2> QED BY <2>1, <2>2, <2>3, <2>4, <2>7, <2>8 DEF OverlaySound
<1> QED BY <1>1, <1>2, <1>3 DEF BatchInv

-----------------------------------------------------------------------------
(* One step, of one overlay or of the page.                                *)

\* An overlay that a step leaves alone stays sound, whatever the page does.
LEMMA OthersStay ==
  ASSUME BatchInv, NEW o \in Overlays,
         selection'[o] = selection[o], stage'[o] = stage[o], turns'[o] = turns[o],
         queue'[o] = queue[o], results'[o] = results[o], worker'[o] = worker[o],
         stored'[o] = stored[o], moved => moved', o \in capped => o \in capped'
  PROVE  OverlaySound(o)'
<1>1. OverlaySound(o)
  BY DEF BatchInv
<1>2. QueueSound(stage[o], queue[o], results[o], moved')
  <2>1. PICK k \in 0..Len(queue[o]) : WorkedTo(k, stage[o], queue[o], results[o], moved)
    BY <1>1 DEF OverlaySound, QueueSound
  <2>2. WorkedTo(k, stage[o], queue[o], results[o], moved')
    BY <2>1 DEF WorkedTo
  <2> QED BY <1>1, <2>1, <2>2 DEF OverlaySound, QueueSound
<1>3. PhaseFits(stage[o], turns[o], queue[o], results[o], worker[o])
  BY <1>1 DEF OverlaySound
<1>4. ChosenSound(selection[o]) /\ SentFrom(results[o], worker[o], stored[o])
  BY <1>1 DEF OverlaySound
<1>5. worker[o].at # "none" /\ ~moved' /\ o \notin capped' => Len(results[o]) = Len(queue[o])
  BY <1>1 DEF OverlaySound
<1> QED BY <1>2, <1>3, <1>4, <1>5 DEF OverlaySound

\* A step of the page itself.
LEMMA PageStep ==
  ASSUME BatchInv, PageSound', moved => moved',
         UNCHANGED <<selection, stage, loop, submission, capped>>
  PROVE  BatchInv'
<1>1. Typed'
  BY DEF BatchInv, Typed, loop, submission
<1>2. \A o \in Overlays : OverlaySound(o)'
  BY OthersStay DEF loop, submission
<1> QED BY <1>1, <1>2 DEF BatchInv

\* A step of one overlay.
LEMMA OverlayStep ==
  ASSUME BatchInv, PageSound', Typed', NEW o \in Overlays, OverlaySound(o)',
         moved => moved', \A p \in Overlays \ {o} : p \in capped => p \in capped',
         \A p \in Overlays \ {o} :
           /\ selection'[p] = selection[p] /\ stage'[p] = stage[p] /\ turns'[p] = turns[p]
           /\ queue'[p] = queue[p] /\ results'[p] = results[p] /\ worker'[p] = worker[p]
           /\ stored'[p] = stored[p]
  PROVE  BatchInv'
<1>1. \A p \in Overlays \ {o} : OverlaySound(p)'
  BY OthersStay
<1> QED BY <1>1 DEF BatchInv

\* An overlay changes its stage between those in which nothing is in flight or sent.
LEMMA StageMoves ==
  ASSUME NEW stg \in Stages, NEW new \in Stages, NEW trn, NEW trn2 \in 0..MaxIterations, NEW que, NEW res, NEW wrk,
         NEW gone, PhaseFits(stg, trn, que, res, wrk), QueueSound(stg, que, res, gone),
         stg \notin {"wait"}, new \notin {"wait", "absent", "open"}, 
         wrk.at # "none" => new \in {"sending", "over"}, stg = "over" => new = "over"
  PROVE  PhaseFits(new, trn2, que, res, wrk) /\ QueueSound(new, que, res, gone)
<1>1. PhaseFits(new, trn2, que, res, wrk)
  BY DEF PhaseFits
<1>2. PICK k \in 0..Len(que) : WorkedTo(k, stg, que, res, gone)
  BY DEF QueueSound
<1>3. WorkedTo(k, new, que, res, gone)
  BY <1>2 DEF WorkedTo
<1> QED BY <1>1, <1>2, <1>3 DEF QueueSound

\* Leaving what is in flight behind.
LEMMA StageOver ==
  ASSUME NEW stg \in Stages, NEW trn, NEW que, NEW res, NEW wrk,
         NEW gone, PhaseFits(stg, trn, que, res, wrk), QueueSound(stg, que, res, gone)
  PROVE  PhaseFits("over", trn, que, res, wrk) /\ QueueSound("over", que, res, gone)
<1>1. PhaseFits("over", trn, que, res, wrk)
  BY DEF PhaseFits, Stages
<1>2. PICK k \in 0..Len(que) : WorkedTo(k, stg, que, res, gone)
  BY DEF QueueSound
<1>3. WorkedTo(k, "over", que, res, gone)
  BY <1>2 DEF WorkedTo
<1> QED BY <1>1, <1>2, <1>3 DEF QueueSound

\* The user chooses among the cards, and never more than fit a batch.
LEMMA Chooses ==
  ASSUME NEW sel, ChosenSound(sel), NEW j \in Jobs
  PROVE  /\ Len(sel) < MaxBatch => ChosenSound(Append(sel, j))
         /\ \A i \in DOMAIN sel : ChosenSound(RemoveAt(sel, i))
         /\ ChosenSound(<<>>)
<1>1. sel \in Seq(Jobs) /\ Len(sel) \in Nat /\ Len(sel) <= MaxBatch /\ MaxBatch \in Nat
  BY BatchAssumption DEF ChosenSound
<1>2. Len(sel) < MaxBatch => ChosenSound(Append(sel, j))
  <2>1. Append(sel, j) \in Seq(Jobs) /\ Len(Append(sel, j)) = Len(sel) + 1
    BY <1>1
  <2> QED BY <1>1, <2>1 DEF ChosenSound
<1>3. ASSUME NEW i \in DOMAIN sel
      PROVE  ChosenSound(RemoveAt(sel, i))
  <2>1. i \in 1..Len(sel)
    BY <1>1
  <2>2. SubSeq(sel, 1, i - 1) \in Seq(Jobs) /\ Len(SubSeq(sel, 1, i - 1)) = i - 1
    BY <1>1, <2>1
  <2>3. SubSeq(sel, i + 1, Len(sel)) \in Seq(Jobs) /\ Len(SubSeq(sel, i + 1, Len(sel))) = Len(sel) - i
    BY <1>1, <2>1
  <2>4. RemoveAt(sel, i) \in Seq(Jobs) /\ Len(RemoveAt(sel, i)) = (i - 1) + (Len(sel) - i)
    BY <2>2, <2>3 DEF RemoveAt
  <2> QED BY <1>1, <2>1, <2>4 DEF ChosenSound
<1>4. ChosenSound(<<>>)
  BY <1>1 DEF ChosenSound
<1> QED BY <1>2, <1>3, <1>4

-----------------------------------------------------------------------------
(* The user and the site.                                                  *)

LEMMA MountKeeps ==
  ASSUME BatchInv, NEW o \in Overlays, Mount(o)
  PROVE  BatchInv'
<1>1. OverlaySound(o) /\ Typed /\ PageSound
  BY DEF BatchInv
<1>2. stage[o] = "absent" /\ stage' = [stage EXCEPT ![o] = "open"] /\ mounted' = o
      /\ UNCHANGED <<page, selection, loop, submission, history>>
  BY DEF Mount, Stage
<1>3. Typed' /\ PageSound'
  <2>1. Typed'
    BY <1>1, <1>2 DEF Typed, Stages, loop, submission
  <2>2. PageSound'
    BY <1>1, <1>2 DEF PageSound, page, history
  <2> QED BY <2>1, <2>2
<1>4. stage'[o] = "open" /\ \A p \in Overlays \ {o} : stage'[p] = stage[p]
  BY <1>1, <1>2 DEF Typed
<1>5. OverlaySound(o)'
  <2>1. PhaseFits("open", turns[o], queue[o], results[o], worker[o])
    BY <1>1, <1>2 DEF OverlaySound, PhaseFits, Stages
  <2>2. PICK k \in 0..Len(queue[o]) : WorkedTo(k, stage[o], queue[o], results[o], moved)
    BY <1>1 DEF OverlaySound, QueueSound
  <2>3. WorkedTo(k, "open", queue[o], results[o], moved)
    BY <1>2, <2>2 DEF WorkedTo
  <2>4. QueueSound("open", queue[o], results[o], moved)
    BY <1>1, <2>2, <2>3 DEF OverlaySound, QueueSound
  <2> QED BY <1>1, <1>2, <1>4, <2>1, <2>4 DEF OverlaySound, loop, submission, history
<1> QED BY <1>2, <1>3, <1>4, <1>5, OverlayStep DEF loop, submission, history

\* The user changes the selection.
LEMMA SelectionKeeps ==
  ASSUME BatchInv, NEW o \in Overlays, NEW chosen, ChosenSound(chosen),
         selection' = [selection EXCEPT ![o] = chosen],
         UNCHANGED <<page, mounted, stage, loop, submission, history>>
  PROVE  BatchInv'
<1>1. OverlaySound(o) /\ Typed /\ PageSound
  BY DEF BatchInv
<1>2. Typed' /\ PageSound'
  <2>1. Typed'
    BY <1>1 DEF Typed, ChosenSound, loop, submission
  <2>2. PageSound'
    BY <1>1 DEF PageSound, page, history
  <2> QED BY <2>1, <2>2
<1>3. selection'[o] = chosen /\ \A p \in Overlays \ {o} : selection'[p] = selection[p]
  BY <1>1 DEF Typed
<1>4. OverlaySound(o)'
  BY <1>1, <1>3 DEF OverlaySound, loop, submission, history
<1> QED BY <1>2, <1>3, <1>4, OverlayStep DEF loop, submission, history

LEMMA ToggleKeeps ==
  ASSUME BatchInv, NEW o \in Overlays, NEW j \in Jobs, Toggle(o, j)
  PROVE  BatchInv'
<1>1. ChosenSound(selection[o])
  BY DEF BatchInv, OverlaySound
<1>2. CASE \E i \in DOMAIN selection[o] :
             selection' = [selection EXCEPT ![o] = RemoveAt(selection[o], i)]
  <2>1. PICK i \in DOMAIN selection[o] :
          selection' = [selection EXCEPT ![o] = RemoveAt(selection[o], i)]
    BY <1>2
  <2>2. ChosenSound(RemoveAt(selection[o], i))
    BY <1>1, Chooses
  <2> QED BY <2>1, <2>2, SelectionKeeps DEF Toggle
<1>3. CASE Len(selection[o]) < MaxBatch
           /\ selection' = [selection EXCEPT ![o] = Append(selection[o], j)]
  <2>1. ChosenSound(Append(selection[o], j))
    BY <1>1, <1>3, Chooses
  <2> QED BY <1>3, <2>1, SelectionKeeps DEF Toggle
<1> QED BY <1>2, <1>3 DEF Toggle

LEMMA ClearKeeps ==
  ASSUME BatchInv, NEW o \in Overlays, Clear(o)
  PROVE  BatchInv'
<1>1. ChosenSound(<<>>)
  BY BatchAssumption DEF ChosenSound
<1> QED BY <1>1, SelectionKeeps DEF Clear

LEMMA StartKeeps ==
  ASSUME BatchInv, NEW o \in Overlays, Start(o)
  PROVE  BatchInv'
<1> DEFINE sel == selection[o]
           new == [i \in DOMAIN sel |-> [job |-> sel[i], status |-> "queued"]]
<1>1. OverlaySound(o) /\ Typed /\ PageSound
  BY DEF BatchInv
<1>2. /\ stage[o] = "open" /\ stage' = [stage EXCEPT ![o] = "again"]
      /\ queue' = [queue EXCEPT ![o] = new]
      /\ UNCHANGED <<page, mounted, selection, paused, turns, results, submission, history>>
  BY DEF Start, Stage
<1>3. sel \in Seq(Jobs) /\ Len(sel) \in Nat /\ DOMAIN sel = 1..Len(sel) /\ Len(sel) <= MaxBatch
  BY <1>1 DEF OverlaySound, ChosenSound
<1>4. /\ new \in Seq(Slot) /\ Len(new) = Len(sel)
      /\ \A i \in DOMAIN new : new[i].status = "queued"
  <2>1. \A i \in DOMAIN sel : [job |-> sel[i], status |-> "queued"] \in Slot
    BY <1>3 DEF Slot, Status
  <2>2. new \in [1..Len(sel) -> Slot]
    BY <1>3, <2>1
  <2>3. \A i \in DOMAIN new : new[i].status = "queued"
    OBVIOUS
  <2> HIDE DEF new
  <2> QED BY <1>3, <2>2, <2>3
<1> HIDE DEF new
<1>5. Typed' /\ PageSound'
  <2>1. Typed'
    BY <1>1, <1>2, <1>4 DEF Typed, Stages, submission
  <2>2. PageSound'
    BY <1>1, <1>2 DEF PageSound, page, history
  <2> QED BY <2>1, <2>2
<1>6. /\ stage'[o] = "again" /\ queue'[o] = new
      /\ \A p \in Overlays \ {o} : stage'[p] = stage[p] /\ queue'[p] = queue[p]
  BY <1>1, <1>2 DEF Typed
<1>7. results[o] = <<>> /\ worker[o].at = "none"
  BY <1>1, <1>2 DEF OverlaySound, PhaseFits
<1>8. OverlaySound(o)'
  <2>1. PhaseFits("again", turns[o], new, results[o], worker[o])
    BY <1>1, <1>7 DEF OverlaySound, PhaseFits, Stages
  <2>2. WorkedTo(0, "again", new, results[o], moved)
    BY <1>3, <1>4, <1>7 DEF WorkedTo, Terminal
  <2>3. ReadFrom(new, results[o])
    BY <1>7 DEF ReadFrom, InOrder
  <2>4. 0 \in 0..Len(new)
    BY <1>3, <1>4
  <2>5. QueueSound("again", new, results[o], moved)
    BY <1>3, <1>4, <2>2, <2>3, <2>4 DEF QueueSound
  <2> QED BY <1>1, <1>2, <1>6, <1>7, <2>1, <2>5 DEF OverlaySound, submission, history
<1> QED BY <1>2, <1>5, <1>6, <1>8, OverlayStep DEF submission, history

LEMMA TogglePauseKeeps ==
  ASSUME BatchInv, NEW o \in Overlays, TogglePause(o)
  PROVE  BatchInv'
<1>1. Typed /\ PageSound
  BY DEF BatchInv
<1>2. Typed'
  BY <1>1 DEF TogglePause, Typed, submission
<1>3. PageSound'
  BY <1>1 DEF TogglePause, PageSound, page, history
<1>4. \A p \in Overlays : OverlaySound(p)'
  BY OthersStay DEF TogglePause, submission, history
<1> QED BY <1>2, <1>3, <1>4 DEF BatchInv

LEMMA TeardownKeeps ==
  ASSUME BatchInv, NEW o \in Overlays, Teardown(o)
  PROVE  BatchInv'
<1>1. OverlaySound(o) /\ Typed /\ PageSound
  BY DEF BatchInv
<1>2. /\ stage' = [stage EXCEPT ![o] = IF stage[o] = "open" THEN "over" ELSE stage[o]]
      /\ mounted' = None /\ UNCHANGED <<page, selection, loop, submission, history>>
  BY DEF Teardown, Stage
<1>3. PageSound'
  BY <1>1, <1>2 DEF PageSound, page, history
<1>4. /\ \A p \in Overlays \ {o} : stage'[p] = stage[p]
      /\ stage'[o] = (IF stage[o] = "open" THEN "over" ELSE stage[o]) /\ stage[o] \in Stages
  BY <1>1, <1>2 DEF Typed
<1>5. Typed'
  BY <1>1, <1>2, <1>4 DEF Typed, loop, submission, Stages
<1>6. OverlaySound(o)'
  <2>1. CASE stage[o] # "open"
    BY <1>2, <1>4, <2>1, OthersStay DEF loop, submission, history
  <2>2. CASE stage[o] = "open"
    <3>1. PhaseFits("over", turns[o], queue[o], results[o], worker[o])
          /\ QueueSound("over", queue[o], results[o], moved)
      BY <1>1, <1>4, StageOver DEF OverlaySound
    <3> QED BY <1>1, <1>2, <1>4, <2>2, <3>1 DEF OverlaySound, loop, submission, history
  <2> QED BY <2>1, <2>2
<1> QED BY <1>2, <1>3, <1>4, <1>5, <1>6, OverlayStep DEF loop, submission, history

LEMMA LeaveKeeps ==
  ASSUME BatchInv, Leave
  PROVE  BatchInv'
<1>1. Typed /\ PageSound
  BY DEF BatchInv
<1>2. /\ stage' = [o \in Overlays |-> IF stage[o] = "absent" THEN "absent" ELSE "over"]
      /\ cards' = Jobs /\ panel' = None /\ loading' = {} /\ mounted' = None
      /\ UNCHANGED <<selection, loop, submission, history>>
  BY DEF Leave
<1>3. PageSound'
  BY <1>1, <1>2 DEF PageSound, history
<1>4. Typed'
  BY <1>1, <1>2 DEF Typed, loop, submission, Stages
<1>5. ASSUME NEW o \in Overlays
      PROVE  OverlaySound(o)'
  <2>1. OverlaySound(o) /\ stage[o] \in Stages
        /\ stage'[o] = (IF stage[o] = "absent" THEN "absent" ELSE "over")
    BY <1>1, <1>2 DEF BatchInv, Typed
  <2>2. CASE stage[o] = "absent"
    BY <1>2, <2>1, <2>2, OthersStay DEF loop, submission, history
  <2>3. CASE stage[o] # "absent"
    <3>1. PhaseFits("over", turns[o], queue[o], results[o], worker[o])
          /\ QueueSound("over", queue[o], results[o], moved)
      BY <2>1, StageOver DEF OverlaySound
    <3> QED BY <1>2, <2>1, <2>3, <3>1 DEF OverlaySound, loop, submission, history
  <2> QED BY <2>2, <2>3
<1> QED BY <1>3, <1>4, <1>5 DEF BatchInv

LEMMA SiteKeeps ==
  ASSUME BatchInv, NEW j \in Jobs, OpenJob(j) \/ ShowDetail(j) \/ RemoveCard(j)
  PROVE  BatchInv'
<1>1. PageSound
  BY DEF BatchInv
<1>2. CASE OpenJob(j)
  <2>1. PageSound'
    BY <1>1, <1>2 DEF OpenJob, PageSound, history
  <2> QED BY <1>2, <2>1, PageStep DEF OpenJob, history
<1>3. CASE ShowDetail(j)
  <2>1. PageSound'
    BY <1>1, <1>3 DEF ShowDetail, PageSound, history
  <2> QED BY <1>3, <2>1, PageStep DEF ShowDetail, history
<1>4. CASE RemoveCard(j)
  <2>1. PageSound'
    BY <1>1, <1>4 DEF RemoveCard, PageSound
  <2> QED BY <1>4, <2>1, PageStep DEF RemoveCard
<1> QED BY <1>2, <1>3, <1>4

-----------------------------------------------------------------------------
(* The queue of one overlay.                                               *)

Marked(que, i, s) == [que EXCEPT ![i].status = s]

LEMMA MarkedIs ==
  ASSUME NEW que \in Seq(Slot), NEW i \in DOMAIN que, NEW s \in Status
  PROVE  /\ Marked(que, i, s) \in Seq(Slot) /\ Len(Marked(que, i, s)) = Len(que)
         /\ DOMAIN Marked(que, i, s) = DOMAIN que
         /\ Marked(que, i, s)[i].status = s
         /\ \A m \in DOMAIN que : Marked(que, i, s)[m].job = que[m].job
         /\ \A m \in DOMAIN que : m # i => Marked(que, i, s)[m].status = que[m].status
<1> DEFINE new == [que[i] EXCEPT !.status = s]
<1>1. que[i] \in Slot
  OBVIOUS
<1>2. new \in Slot /\ new.status = s /\ new.job = que[i].job
  BY <1>1 DEF Slot
<1>3. Marked(que, i, s) = [que EXCEPT ![i] = new]
  BY DEF Marked
<1> HIDE DEF new
<1>4. Marked(que, i, s)[i] = new /\ \A m \in DOMAIN que : m # i => Marked(que, i, s)[m] = que[m]
  BY <1>3
<1>5. Marked(que, i, s) \in Seq(Slot) /\ Len(Marked(que, i, s)) = Len(que)
      /\ DOMAIN Marked(que, i, s) = DOMAIN que
  BY <1>2, <1>3
<1> QED BY <1>2, <1>4, <1>5

\* The first item that was not worked off is worked off.
LEMMA NextIsMarked ==
  ASSUME NEW k \in Nat, NEW stg, stg # "over", NEW que \in Seq(Slot), NEW res, NEW gone,
         WorkedTo(k, stg, que, res, gone), k + 1 <= Len(que), NEW s \in Terminal
  PROVE  LET m == Marked(que, k + 1, s)
         IN  /\ k + 1 \in 0..Len(m)
             /\ \A i \in DOMAIN m : m[i].status \in Terminal <=> i <= k + 1
             /\ \A i \in DOMAIN m : m[i].status # "observing"
<1> DEFINE m == Marked(que, k + 1, s)
<1>1. k + 1 \in DOMAIN que /\ s \in Status /\ s # "observing" /\ Len(que) \in Nat /\ DOMAIN que = 1..Len(que)
  BY DEF Status, Terminal
<1>2. /\ Len(m) = Len(que) /\ DOMAIN m = DOMAIN que /\ m[k + 1].status = s
      /\ \A i \in DOMAIN que : i # k + 1 => m[i].status = que[i].status
  BY <1>1, MarkedIs
<1> HIDE DEF m
<1>3. ASSUME NEW i \in DOMAIN m
      PROVE  (m[i].status \in Terminal <=> i <= k + 1) /\ m[i].status # "observing"
  <2>1. CASE i = k + 1
    BY <1>1, <1>2, <2>1
  <2>2. CASE i # k + 1
    <3>1. (que[i].status \in Terminal <=> i <= k) /\ (que[i].status = "observing" <=> stg = "wait" /\ i = k + 1)
      BY <1>2, <1>3 DEF WorkedTo
    <3>2. i \in Nat /\ (i <= k <=> i <= k + 1)
      BY <1>1, <1>2, <2>2
    <3> QED BY <1>2, <2>2, <3>1, <3>2
  <2> QED BY <2>1, <2>2
<1> QED BY <1>1, <1>2, <1>3 DEF m

\* Its card has gone: it fails, without a result.
LEMMA NextIsLost ==
  ASSUME NEW k \in Nat, NEW stg, stg # "over", NEW que, NEW res,
         que \in Seq(Slot), Len(que) <= MaxBatch, ReadFrom(que, res),
         WorkedTo(k, stg, que, res, TRUE), k + 1 <= Len(que), NEW s \in Terminal,
         NEW new \in {"asleep", "again"}
  PROVE  QueueSound(new, Marked(que, k + 1, s), res, TRUE)
<1> DEFINE m == Marked(que, k + 1, s)
<1>1. k + 1 \in DOMAIN que /\ s \in Status
  BY DEF Status, Terminal
<1>2. /\ m \in Seq(Slot) /\ Len(m) = Len(que) /\ DOMAIN m = DOMAIN que
      /\ \A i \in DOMAIN que : m[i].job = que[i].job
  BY <1>1, MarkedIs
<1>3. /\ k + 1 \in 0..Len(m)
      /\ \A i \in DOMAIN m : m[i].status \in Terminal <=> i <= k + 1
      /\ \A i \in DOMAIN m : m[i].status # "observing"
  BY NextIsMarked
<1> HIDE DEF m
<1>4. ReadFrom(m, res)
  BY <1>2 DEF ReadFrom
<1>5. \A i \in DOMAIN res : res[i].order <= k + 1
  <2> SUFFICES ASSUME NEW i \in DOMAIN res PROVE res[i].order <= k + 1
    OBVIOUS
  <2>1. res[i].order <= k /\ res[i].order \in DOMAIN que
    BY DEF WorkedTo, ReadFrom
  <2>2. res[i].order \in Nat
    BY <2>1
  <2> QED BY <2>1, <2>2
<1>6. WorkedTo(k + 1, new, m, res, TRUE)
  BY <1>3, <1>5 DEF WorkedTo
<1> QED BY <1>2, <1>3, <1>4, <1>6 DEF QueueSound, m

\* It is read: the result joins those of the items before it.
LEMMA NextIsRead ==
  ASSUME NEW k \in Nat, NEW stg, stg # "over", NEW que, NEW res, NEW gone \in BOOLEAN,
         que \in Seq(Slot), Len(que) <= MaxBatch, ReadFrom(que, res),
         WorkedTo(k, stg, que, res, gone), k + 1 <= Len(que), NEW s \in Terminal,
         NEW item \in Item, item.order = k + 1, item.job = que[k + 1].job, TrueText(item),
         NEW new \in {"asleep", "again"}
  PROVE  QueueSound(new, Marked(que, k + 1, s), Append(res, item), gone)
<1> DEFINE m == Marked(que, k + 1, s)
           r == Append(res, item)
<1>1. k + 1 \in DOMAIN que /\ s \in Status
  BY DEF Status, Terminal
<1>2. /\ m \in Seq(Slot) /\ Len(m) = Len(que) /\ DOMAIN m = DOMAIN que
      /\ \A i \in DOMAIN que : m[i].job = que[i].job
  BY <1>1, MarkedIs
<1>3. /\ k + 1 \in 0..Len(m)
      /\ \A i \in DOMAIN m : m[i].status \in Terminal <=> i <= k + 1
      /\ \A i \in DOMAIN m : m[i].status # "observing"
  BY NextIsMarked
<1>4. res \in Seq(Item) /\ Len(res) \in Nat /\ DOMAIN res = 1..Len(res)
  BY DEF ReadFrom
<1>5. /\ r \in Seq(Item) /\ Len(r) = Len(res) + 1 /\ DOMAIN r = 1..(Len(res) + 1)
      /\ r[Len(res) + 1] = item /\ \A i \in DOMAIN res : r[i] = res[i]
      /\ \A i \in DOMAIN r : i \in DOMAIN res \/ i = Len(res) + 1
  BY <1>4
<1> HIDE DEF m, r
<1>6. \A i \in DOMAIN res : res[i].order <= k /\ res[i].order \in Nat
  BY DEF WorkedTo, ReadFrom
<1>7. InOrder(r)
  <2> SUFFICES ASSUME NEW i \in DOMAIN r, NEW l \in DOMAIN r, i < l
               PROVE  r[i].order < r[l].order
    BY DEF InOrder
  <2>1. i \in DOMAIN res
    BY <1>4, <1>5
  <2>2. CASE l \in DOMAIN res
    BY <1>5, <2>1, <2>2 DEF ReadFrom, InOrder
  <2>3. CASE l = Len(res) + 1
    BY <1>5, <1>6, <2>1, <2>3
  <2> QED BY <1>5, <2>2, <2>3
<1>8. ASSUME NEW i \in DOMAIN r
      PROVE  r[i].order \in DOMAIN m /\ m[r[i].order].job = r[i].job /\ TrueText(r[i])
  <2>1. CASE i \in DOMAIN res
    <3>1. res[i].order \in DOMAIN que /\ que[res[i].order].job = res[i].job /\ TrueText(res[i])
      BY <2>1 DEF ReadFrom
    <3> QED BY <1>2, <1>5, <2>1, <3>1
  <2>2. CASE i = Len(res) + 1
    BY <1>1, <1>2, <1>5, <2>2
  <2> QED BY <1>5, <2>1, <2>2
<1>9. ReadFrom(m, r)
  BY <1>5, <1>7, <1>8 DEF ReadFrom
<1>10. \A i \in DOMAIN r : r[i].order <= k + 1
  <2> SUFFICES ASSUME NEW i \in DOMAIN r PROVE r[i].order <= k + 1
    OBVIOUS
  <2>1. CASE i \in DOMAIN res
    BY <1>5, <1>6, <2>1
  <2>2. CASE i = Len(res) + 1
    BY <1>5, <2>2
  <2> QED BY <1>5, <2>1, <2>2
<1>11. ~gone => Len(r) = k + 1
  BY <1>4, <1>5 DEF WorkedTo
<1>12. WorkedTo(k + 1, new, m, r, gone)
  BY <1>3, <1>10, <1>11 DEF WorkedTo
<1> QED BY <1>2, <1>3, <1>9, <1>12 DEF QueueSound, m, r

-----------------------------------------------------------------------------
(* The loop of an overlay.                                                 *)

\* What its invariant says of an overlay whose loop runs.
LEMMA LoopFacts ==
  ASSUME BatchInv, NEW o \in Overlays
  PROVE  /\ queue[o] \in Seq(Slot) /\ Len(queue[o]) <= MaxBatch /\ Len(queue[o]) \in Nat
         /\ ReadFrom(queue[o], results[o]) /\ stage[o] \in Stages /\ turns[o] \in 0..MaxIterations
         /\ \E k \in Nat : WorkedTo(k, stage[o], queue[o], results[o], moved)
         /\ Looping(o) => worker[o].at = "none"
<1>1. OverlaySound(o)
  BY DEF BatchInv
<1>2. queue[o] \in Seq(Slot) /\ Len(queue[o]) <= MaxBatch /\ Len(queue[o]) \in Nat
      /\ ReadFrom(queue[o], results[o])
  BY <1>1 DEF OverlaySound, QueueSound
<1>3. PICK k \in 0..Len(queue[o]) : WorkedTo(k, stage[o], queue[o], results[o], moved)
  BY <1>1 DEF OverlaySound, QueueSound
<1>4. k \in Nat
  BY <1>2
<1>5. stage[o] \in Stages /\ turns[o] \in 0..MaxIterations /\ (Looping(o) => worker[o].at = "none")
  BY <1>1 DEF OverlaySound, PhaseFits, Looping
<1> QED BY <1>2, <1>3, <1>4, <1>5

\* What is pending is what was not worked off, so the next is the first of it.
LEMMA NextIsFirst ==
  ASSUME BatchInv, NEW o \in Overlays, stage[o] \in {"asleep", "again"}, NEW k \in Nat,
         WorkedTo(k, stage[o], queue[o], results[o], moved)
  PROVE  /\ Pending(o) = {i \in DOMAIN queue[o] : k < i}
         /\ Pending(o) # {} => NextPending(o) = k + 1 /\ k + 1 <= Len(queue[o])
<1>1. queue[o] \in Seq(Slot) /\ Len(queue[o]) \in Nat /\ DOMAIN queue[o] = 1..Len(queue[o])
  BY LoopFacts
<1>2. ASSUME NEW i \in DOMAIN queue[o]
      PROVE  queue[o][i].status = "queued" <=> k < i
  <2>1. queue[o][i] \in Slot /\ i \in Nat
    BY <1>1
  <2>2. queue[o][i].status \in Status
    BY <2>1 DEF Slot
  <2>3. (queue[o][i].status \in Terminal <=> i <= k) /\ queue[o][i].status # "observing"
    BY DEF WorkedTo
  <2>4. queue[o][i].status = "queued" <=> queue[o][i].status \notin Terminal
    BY <2>2, <2>3 DEF Status, Terminal
  <2> QED BY <2>1, <2>3, <2>4
<1>3. Pending(o) = {i \in DOMAIN queue[o] : k < i}
  BY <1>2 DEF Pending
<1>4. ASSUME Pending(o) # {}
      PROVE  NextPending(o) = k + 1 /\ k + 1 <= Len(queue[o])
  <2>1. k + 1 \in Pending(o) /\ k + 1 <= Len(queue[o])
    BY <1>1, <1>3, <1>4
  <2>2. \A i \in Pending(o) : i \in Nat /\ k + 1 <= i
    BY <1>1, <1>3
  <2>3. NextPending(o) \in Pending(o) /\ \A i \in Pending(o) : NextPending(o) <= i
    BY <2>1, <2>2 DEF NextPending
  <2>4. NextPending(o) <= k + 1 /\ k + 1 <= NextPending(o) /\ NextPending(o) \in Nat
    BY <2>1, <2>2, <2>3
  <2> QED BY <2>1, <2>4
<1> QED BY <1>3, <1>4

\* Results that come after what the worker has gone past change nothing for it.
LEMMA SentStays ==
  ASSUME NEW res \in Seq(Item), NEW wrk, NEW str, SentFrom(res, wrk, str), NEW item \in Item
  PROVE  SentFrom(Append(res, item), wrk, str)
<1> DEFINE r == Append(res, item)
<1>1. Len(res) \in Nat /\ Len(r) = Len(res) + 1 /\ \A m \in DOMAIN res : m \in DOMAIN r /\ r[m] = res[m]
  OBVIOUS
<1> HIDE DEF r
<1>2. wrk.next \in Nat
  BY DEF SentFrom, Work
<1>3. wrk.next <= Len(r) + 1
  BY <1>1, <1>2 DEF SentFrom
<1>4. \A i \in DOMAIN str : \E m \in DOMAIN r : m < wrk.next /\ str[i] = r[m]
  BY <1>1 DEF SentFrom
<1> QED BY <1>3, <1>4 DEF SentFrom, r

LEMMA PollKeeps ==
  ASSUME BatchInv, NEW o \in Overlays, Poll(o)
  PROVE  BatchInv'
<1>1. OverlaySound(o) /\ Typed /\ PageSound
  BY DEF BatchInv
<1>2. /\ stage[o] \in {"asleep", "again"} /\ turns[o] < MaxIterations
      /\ stage' = [stage EXCEPT ![o] = "asleep"] /\ turns' = [turns EXCEPT ![o] = turns[o] + 1]
      /\ UNCHANGED <<page, mounted, selection, paused, queue, results, submission, history>>
  BY DEF Poll, Turn, Counted, Stage
<1>3. turns[o] \in Nat /\ turns[o] \in 0..MaxIterations /\ MaxIterations \in Nat
  BY <1>1, BatchAssumption, LoopFacts DEF Typed
<1>4. Typed' /\ PageSound'
  <2>1. Typed'
    BY <1>1, <1>2, <1>3 DEF Typed, Stages, submission
  <2>2. PageSound'
    BY <1>1, <1>2 DEF PageSound, page, history
  <2> QED BY <2>1, <2>2
<1>5. /\ stage'[o] = "asleep" /\ turns'[o] = turns[o] + 1
      /\ \A p \in Overlays \ {o} : stage'[p] = stage[p] /\ turns'[p] = turns[p]
  BY <1>1, <1>2 DEF Typed
<1>6. PhaseFits("asleep", turns[o] + 1, queue[o], results[o], worker[o])
      /\ QueueSound("asleep", queue[o], results[o], moved)
  <2>1. PICK t \in 0..MaxIterations : t = turns[o] + 1
    BY <1>2, <1>3
  <2>2. worker[o].at = "none" /\ stage[o] \in Stages
    BY <1>2, LoopFacts DEF Looping
  <2>3. PhaseFits("asleep", t, queue[o], results[o], worker[o])
        /\ QueueSound("asleep", queue[o], results[o], moved)
    BY <1>1, <1>2, <2>2, StageMoves DEF OverlaySound, Stages
  <2> QED BY <2>1, <2>3
<1>7. OverlaySound(o)'
  BY <1>1, <1>2, <1>5, <1>6 DEF OverlaySound, submission, history
<1> QED BY <1>2, <1>4, <1>5, <1>7, OverlayStep DEF submission, history

LEMMA ClickKeeps ==
  ASSUME BatchInv, NEW o \in Overlays, ClickCard(o)
  PROVE  BatchInv'
<1>1. OverlaySound(o) /\ Typed /\ PageSound
  BY DEF BatchInv
<1>2. /\ stage[o] \in {"asleep", "again"} /\ turns[o] < MaxIterations /\ Pending(o) # {}
      /\ loading' = loading \cup {queue[o][NextPending(o)].job}
      /\ queue' = [queue EXCEPT ![o][NextPending(o)].status = "observing"]
      /\ stage' = [stage EXCEPT ![o] = "wait"]
      /\ UNCHANGED <<cards, panel, mounted, selection, paused, turns, results, submission, history>>
  BY DEF ClickCard, Turn, Stage
<1>3. /\ queue[o] \in Seq(Slot) /\ Len(queue[o]) <= MaxBatch /\ Len(queue[o]) \in Nat
      /\ ReadFrom(queue[o], results[o])
  BY LoopFacts
<1>4. PICK k \in Nat : WorkedTo(k, stage[o], queue[o], results[o], moved)
  BY LoopFacts
<1>5. NextPending(o) = k + 1 /\ k + 1 <= Len(queue[o]) /\ k + 1 \in DOMAIN queue[o]
  <2>1. NextPending(o) = k + 1 /\ k + 1 <= Len(queue[o])
    BY <1>2, <1>4, NextIsFirst
  <2> QED BY <1>3, <2>1
<1> DEFINE m == Marked(queue[o], k + 1, "observing")
<1>6. /\ m \in Seq(Slot) /\ Len(m) = Len(queue[o]) /\ DOMAIN m = DOMAIN queue[o]
      /\ m[k + 1].status = "observing"
      /\ \A i \in DOMAIN queue[o] : m[i].job = queue[o][i].job
      /\ \A i \in DOMAIN queue[o] : i # k + 1 => m[i].status = queue[o][i].status
  <2>1. "observing" \in Status
    BY DEF Status
  <2> QED BY <1>3, <1>5, <2>1, MarkedIs
<1>7. queue' = [queue EXCEPT ![o] = m]
  BY <1>2, <1>5 DEF Marked
<1> HIDE DEF m
<1>8. Typed' /\ PageSound'
  <2>1. Typed'
    BY <1>1, <1>2, <1>6, <1>7 DEF Typed, Stages, submission
  <2>2. queue[o][k + 1] \in Slot
    BY <1>3, <1>5
  <2>3. queue[o][k + 1].job \in Jobs
    BY <2>2 DEF Slot
  <2>4. PageSound'
    BY <1>1, <1>2, <1>5, <2>3 DEF PageSound, history
  <2> QED BY <2>1, <2>4
<1>9. /\ stage'[o] = "wait" /\ queue'[o] = m
      /\ \A p \in Overlays \ {o} : stage'[p] = stage[p] /\ queue'[p] = queue[p]
  BY <1>1, <1>2, <1>7 DEF Typed
<1>10. PhaseFits("wait", turns[o], m, results[o], worker[o])
  <2>1. worker[o].at = "none" /\ turns[o] \in 0..MaxIterations
    BY <1>2, LoopFacts DEF Looping
  <2> QED BY <1>2, <2>1 DEF PhaseFits, Stages
<1>11. QueueSound("wait", m, results[o], moved)
  <2>1. ReadFrom(m, results[o])
    BY <1>3, <1>6 DEF ReadFrom
  <2>2. ASSUME NEW i \in DOMAIN m
        PROVE  (m[i].status \in Terminal <=> i <= k) /\ (m[i].status = "observing" <=> i = k + 1)
    <3>1. CASE i = k + 1
      BY <1>6, <3>1 DEF Terminal
    <3>2. CASE i # k + 1
      <4>1. (queue[o][i].status \in Terminal <=> i <= k) /\ queue[o][i].status # "observing"
        BY <1>2, <1>4, <1>6, <2>2 DEF WorkedTo
      <4> QED BY <1>6, <2>2, <3>2, <4>1
    <3> QED BY <3>1, <3>2
  <2>3. WorkedTo(k, "wait", m, results[o], moved) /\ k \in 0..Len(m)
    BY <1>4, <1>5, <1>6, <2>2 DEF WorkedTo
  <2> QED BY <1>3, <1>6, <2>1, <2>3 DEF QueueSound
<1>12. OverlaySound(o)'
  <2>1. worker[o].at = "none"
    BY <1>2, LoopFacts DEF Looping
  <2> QED BY <1>1, <1>2, <1>9, <1>10, <1>11, <2>1 DEF OverlaySound, submission, history
<1> QED BY <1>2, <1>8, <1>9, <1>12, OverlayStep DEF submission, history

LEMMA CaptureKeeps ==
  ASSUME BatchInv, NEW o \in Overlays, NEW k \in Nat, stage[o] \in {"asleep", "again", "wait"},
         WorkedTo(k, stage[o], queue[o], results[o], moved), k + 1 <= Len(queue[o]),
         turns[o] < MaxIterations, NEW shown \in Jobs \cup {None}, Capture(o, k + 1, shown),
         UNCHANGED <<page, mounted, selection, paused, submission, history>>
  PROVE  BatchInv'
<1>1. OverlaySound(o) /\ Typed /\ PageSound
  BY DEF BatchInv
<1>2. /\ queue[o] \in Seq(Slot) /\ Len(queue[o]) <= MaxBatch /\ Len(queue[o]) \in Nat
      /\ ReadFrom(queue[o], results[o]) /\ results[o] \in Seq(Item)
      /\ turns[o] \in Nat /\ MaxIterations \in Nat /\ MaxBatch \in Nat
      /\ worker[o].at = "none" /\ k + 1 \in DOMAIN queue[o]
  <2>1. /\ queue[o] \in Seq(Slot) /\ Len(queue[o]) <= MaxBatch /\ Len(queue[o]) \in Nat
        /\ ReadFrom(queue[o], results[o]) /\ worker[o].at = "none"
    BY LoopFacts DEF Looping
  <2>2. results[o] \in Seq(Item) /\ turns[o] \in Nat
    BY <1>1 DEF Typed
  <2> QED BY <2>1, <2>2, BatchAssumption
<1> DEFINE j     == queue[o][k + 1].job
           match == IdentityMatch(j, shown)
           s     == IF match THEN "captured" ELSE "failed"
           item  == [order |-> k + 1, job |-> j, content |-> IF match THEN shown ELSE None]
           new   == IF Running(o) /\ Pending(o) \ {k + 1} # {} THEN "asleep" ELSE "again"
           m     == Marked(queue[o], k + 1, s)
           r     == Append(results[o], item)
<1>3. /\ queue' = [queue EXCEPT ![o] = m]
      /\ results' = [results EXCEPT ![o] = r]
      /\ turns' = [turns EXCEPT ![o] = turns[o] + 1]
      /\ stage' = [stage EXCEPT ![o] = new]
  BY DEF Capture, Counted, Stage, Marked
<1>4. s \in Terminal /\ s \in Status /\ new \in {"asleep", "again"}
  BY DEF Terminal, Status
<1>5. /\ item \in Item /\ item.order = k + 1 /\ item.job = j /\ TrueText(item)
  <2>1. queue[o][k + 1] \in Slot
    BY <1>2
  <2>2. j \in Jobs
    BY <2>1 DEF Slot
  <2>3. k + 1 \in 1..MaxBatch
    BY <1>2
  <2>4. (IF match THEN shown ELSE None) \in Jobs \cup {None}
    OBVIOUS
  <2>5. item \in Item
    BY <2>2, <2>3, <2>4 DEF Item
  <2>6. item.content \notin {None, j} => item.content = shown /\ match
    OBVIOUS
  <2>7. match => shown # None /\ IF shown \in Linked THEN shown = j ELSE Look[shown] = Look[j]
    BY DEF IdentityMatch
  <2>8. item.order = k + 1 /\ item.job = j
    OBVIOUS
  <2>9. TrueText(item)
    <3> HIDE DEF item, match, j
    <3> QED BY <2>6, <2>7, <2>8 DEF TrueText
  <2> QED BY <2>5, <2>8, <2>9
<1> HIDE DEF item, s, new
<1>6. /\ m \in Seq(Slot) /\ Len(m) = Len(queue[o])
  BY <1>2, <1>4, MarkedIs
<1>7. r \in Seq(Item) /\ SentFrom(r, worker[o], stored[o])
  <2>1. r \in Seq(Item)
    BY <1>2, <1>5
  <2>2. SentFrom(results[o], worker[o], stored[o])
    BY <1>1 DEF OverlaySound
  <2> QED BY <1>2, <1>5, <2>1, <2>2, SentStays
<1>8. QueueSound(new, m, r, moved)
  <2>1. moved \in BOOLEAN /\ stage[o] # "over"
    BY <1>1 DEF PageSound
  <2> QED BY <1>2, <1>4, <1>5, <2>1, NextIsRead
<1> HIDE DEF m, r
<1>9. Typed' /\ PageSound'
  <2>1. Typed'
    BY <1>1, <1>2, <1>3, <1>4, <1>6, <1>7 DEF Typed, Stages, submission
  <2>2. PageSound'
    BY <1>1 DEF PageSound, page, history
  <2> QED BY <2>1, <2>2
<1>10. /\ stage'[o] = new /\ queue'[o] = m /\ results'[o] = r /\ turns'[o] = turns[o] + 1
       /\ \A p \in Overlays \ {o} : /\ stage'[p] = stage[p] /\ queue'[p] = queue[p]
                                    /\ results'[p] = results[p] /\ turns'[p] = turns[p]
  BY <1>1, <1>3 DEF Typed
<1>11. PhaseFits(new, turns[o] + 1, m, r, worker[o])
  <2>1. turns[o] + 1 \in 0..MaxIterations
    BY <1>2
  <2> QED BY <1>2, <1>4, <2>1 DEF PhaseFits, Stages
<1>12. OverlaySound(o)'
  BY <1>1, <1>2, <1>7, <1>8, <1>10, <1>11 DEF OverlaySound, submission, history
<1> QED BY <1>9, <1>10, <1>12, OverlayStep DEF submission, history

LEMMA CardGoneKeeps ==
  ASSUME BatchInv, NEW o \in Overlays, CardGone(o)
  PROVE  BatchInv'
<1>1. OverlaySound(o) /\ Typed /\ PageSound
  BY DEF BatchInv
<1>2. /\ stage[o] \in {"asleep", "again"} /\ turns[o] < MaxIterations /\ Pending(o) # {}
      /\ queue[o][NextPending(o)].job \notin cards
      /\ queue' = [queue EXCEPT ![o][NextPending(o)].status = "failed"]
      /\ turns' = [turns EXCEPT ![o] = turns[o] + 1]
      /\ stage' = [stage EXCEPT ![o] = "again"]
      /\ UNCHANGED <<page, mounted, selection, paused, results, submission, history>>
  BY DEF CardGone, Turn, Stage, Counted
<1>3. /\ queue[o] \in Seq(Slot) /\ Len(queue[o]) <= MaxBatch /\ Len(queue[o]) \in Nat
      /\ ReadFrom(queue[o], results[o]) /\ worker[o].at = "none"
      /\ turns[o] \in Nat /\ MaxIterations \in Nat
  BY <1>1, <1>2, LoopFacts, BatchAssumption DEF Looping, Typed
<1>4. PICK k \in Nat : WorkedTo(k, stage[o], queue[o], results[o], moved)
  BY LoopFacts
<1>5. NextPending(o) = k + 1 /\ k + 1 <= Len(queue[o]) /\ k + 1 \in DOMAIN queue[o]
  <2>1. NextPending(o) = k + 1 /\ k + 1 <= Len(queue[o])
    BY <1>2, <1>4, NextIsFirst
  <2> QED BY <1>3, <2>1
<1> DEFINE m == Marked(queue[o], k + 1, "failed")
<1>6. "failed" \in Terminal /\ "failed" \in Status
  BY DEF Terminal, Status
<1>7. m \in Seq(Slot)
  BY <1>3, <1>5, <1>6, MarkedIs
<1>8. moved = TRUE
  <2>1. queue[o][k + 1] \in Slot
    BY <1>3, <1>5
  <2>2. queue[o][k + 1].job \in Jobs
    BY <2>1 DEF Slot
  <2> QED BY <1>1, <1>2, <1>5, <2>2 DEF PageSound
<1>9. QueueSound("again", m, results[o], TRUE)
  <2>1. WorkedTo(k, stage[o], queue[o], results[o], TRUE)
    BY <1>4 DEF WorkedTo
  <2>2. stage[o] # "over"
    BY <1>2
  <2> QED BY <1>3, <1>5, <1>6, <2>1, <2>2, NextIsLost
<1>10. queue' = [queue EXCEPT ![o] = m]
  BY <1>2, <1>5 DEF Marked
<1> HIDE DEF m
<1>11. Typed' /\ PageSound'
  <2>1. Typed'
    <3>1. queue' \in [Overlays -> Seq(Slot)]
      BY <1>1, <1>7, <1>10 DEF Typed
    <3>2. turns' \in [Overlays -> Nat] /\ stage' \in [Overlays -> Stages]
      BY <1>1, <1>2, <1>3 DEF Typed, Stages
    <3> QED BY <1>1, <1>2, <3>1, <3>2 DEF Typed, submission
  <2>2. PageSound'
    BY <1>1, <1>2 DEF PageSound, page, history
  <2> QED BY <2>1, <2>2
<1>12. /\ stage'[o] = "again" /\ queue'[o] = m /\ turns'[o] = turns[o] + 1
       /\ \A p \in Overlays \ {o} : /\ stage'[p] = stage[p] /\ queue'[p] = queue[p]
                                    /\ turns'[p] = turns[p]
  BY <1>1, <1>2, <1>10 DEF Typed
<1>13. PhaseFits("again", turns[o] + 1, m, results[o], worker[o])
  <2>1. turns[o] + 1 \in 0..MaxIterations
    BY <1>2, <1>3
  <2> QED BY <1>3, <2>1 DEF PhaseFits, Stages
<1>14. moved' = TRUE
  BY <1>2, <1>8 DEF history
<1>15. OverlaySound(o)'
  BY <1>1, <1>2, <1>3, <1>9, <1>12, <1>13, <1>14 DEF OverlaySound, submission
<1> QED BY <1>2, <1>11, <1>12, <1>15, OverlayStep DEF submission, history

LEMMA AlreadyMatchedKeeps ==
  ASSUME BatchInv, NEW o \in Overlays, AlreadyMatched(o)
  PROVE  BatchInv'
<1>1. /\ stage[o] \in {"asleep", "again"} /\ turns[o] < MaxIterations /\ 1 \in Pending(o)
      /\ Capture(o, 1, panel)
      /\ UNCHANGED <<page, mounted, selection, paused, submission, history>>
  BY DEF AlreadyMatched, Turn
<1>2. PICK k \in Nat : WorkedTo(k, stage[o], queue[o], results[o], moved)
  BY LoopFacts
<1>3. k = 0 /\ 1 <= Len(queue[o])
  <2>1. Pending(o) = {i \in DOMAIN queue[o] : k < i}
    BY <1>1, <1>2, NextIsFirst
  <2>2. 1 \in DOMAIN queue[o] /\ k < 1
    BY <1>1, <2>1
  <2>3. queue[o] \in Seq(Slot)
    BY LoopFacts
  <2> QED BY <2>2, <2>3
<1>4. panel \in Jobs \cup {None} /\ k + 1 = 1
  BY <1>3 DEF BatchInv, PageSound
<1> QED BY <1>1, <1>2, <1>3, <1>4, CaptureKeeps

LEMMA ObservedKeeps ==
  ASSUME BatchInv, NEW o \in Overlays, Observed(o)
  PROVE  BatchInv'
<1>1. PICK i \in DOMAIN queue[o] : queue[o][i].status = "observing" /\ Capture(o, i, panel)
  BY DEF Observed
<1>2. stage[o] = "wait" /\ UNCHANGED <<page, mounted, selection, paused, submission, history>>
  BY DEF Observed
<1>3. PICK k \in Nat : WorkedTo(k, stage[o], queue[o], results[o], moved)
  BY LoopFacts
<1>4. i = k + 1 /\ k + 1 <= Len(queue[o])
  BY <1>1, <1>2, <1>3 DEF WorkedTo
<1>5. turns[o] < MaxIterations
  BY <1>2 DEF BatchInv, OverlaySound, PhaseFits
<1>6. panel \in Jobs \cup {None}
  BY DEF BatchInv, PageSound
<1> QED BY <1>1, <1>2, <1>3, <1>4, <1>5, <1>6, CaptureKeeps

\* A queue that is worked off has a result for each item, unless a card has gone.
LEMMA AllProcessedIsWhole ==
  ASSUME BatchInv, NEW o \in Overlays, AllProcessed(o), ~moved
  PROVE  Len(results[o]) = Len(queue[o])
<1>1. queue[o] \in Seq(Slot) /\ Len(queue[o]) \in Nat
  BY LoopFacts
<1>2. PICK k \in 0..Len(queue[o]) : WorkedTo(k, stage[o], queue[o], results[o], moved)
  BY DEF BatchInv, OverlaySound, QueueSound
<1>3. k = Len(queue[o])
  <2> SUFFICES ASSUME k # Len(queue[o]) PROVE FALSE
    OBVIOUS
  <2>1. k + 1 \in DOMAIN queue[o] /\ ~(k + 1 <= k)
    BY <1>1
  <2>2. queue[o][k + 1].status \notin Terminal
    BY <1>2, <2>1 DEF WorkedTo
  <2> QED BY <2>1, <2>2 DEF AllProcessed
<1> QED BY <1>2, <1>3 DEF WorkedTo

WorkAt(w, at) == [w EXCEPT !.at = at]

LEMMA WorkAtIs ==
  ASSUME NEW w \in Work, NEW at \in {"none", "session", "adding", "done"}
  PROVE  /\ WorkAt(w, at) \in Work /\ WorkAt(w, at).at = at /\ WorkAt(w, at).next = w.next
         /\ WorkAt(w, at).submitted = w.submitted /\ WorkAt(w, at).failed = w.failed
BY DEF WorkAt, Work

\* The worker gets on with an overlay that has handed over its results.
LEMMA WorkMoves ==
  ASSUME BatchInv, NEW o \in Overlays, worker[o].at # "none", NEW w \in Work, w.at # "none",
         NEW str, SentFrom(results[o], w, str),
         worker' = [worker EXCEPT ![o] = w], stored' = [stored EXCEPT ![o] = str],
         UNCHANGED <<others, stage>>
  PROVE  BatchInv'
<1>1. OverlaySound(o) /\ Typed /\ PageSound
  BY DEF BatchInv
<1>2. str \in Seq(Item)
  BY DEF SentFrom
<1>3. Typed' /\ PageSound'
  <2>1. worker' \in [Overlays -> Work] /\ stored' \in [Overlays -> Seq(Item)]
    BY <1>1, <1>2 DEF Typed
  <2>2. Typed'
    BY <1>1, <2>1 DEF Typed, others, loop
  <2>3. PageSound'
    BY <1>1 DEF PageSound, others, page, history
  <2> QED BY <2>2, <2>3
<1>4. /\ worker'[o] = w /\ stored'[o] = str
      /\ \A p \in Overlays \ {o} : worker'[p] = worker[p] /\ stored'[p] = stored[p]
  BY <1>1 DEF Typed
<1>5. PhaseFits(stage[o], turns[o], queue[o], results[o], w)
  BY <1>1 DEF OverlaySound, PhaseFits
<1>6. OverlaySound(o)'
  BY <1>1, <1>4, <1>5 DEF OverlaySound, others, loop, history
<1> QED BY <1>3, <1>4, <1>6, OverlayStep DEF others, loop, history

\* Only where the worker is changes, not what it has gone past.
LEMMA WorkerAtMoves ==
  ASSUME BatchInv, NEW o \in Overlays, worker[o].at # "none", NEW w \in Work, w.at # "none",
         w.next = worker[o].next, w.submitted = worker[o].submitted, w.failed = worker[o].failed,
         worker' = [worker EXCEPT ![o] = w], UNCHANGED <<others, stage, stored>>
  PROVE  BatchInv'
<1>1. SentFrom(results[o], worker[o], stored[o]) /\ Typed
  BY DEF BatchInv, OverlaySound
<1>2. SentFrom(results[o], w, stored[o])
  BY <1>1 DEF SentFrom
<1>3. stored' = [stored EXCEPT ![o] = stored[o]]
  BY <1>1 DEF Typed
<1> QED BY <1>2, <1>3, WorkMoves

LEMMA WorkerEnds ==
  ASSUME BatchInv, NEW o \in Overlays,
         \/ CreateSession(o) \/ SessionFails(o) \/ WorkerDies(o) \/ OpenPreview(o)
  PROVE  BatchInv'
<1>1. worker[o] \in Work
  BY DEF BatchInv, Typed
<1>2. CASE OpenPreview(o)
  <2> DEFINE w == [worker[o] EXCEPT !.at = "done", !.answer = "stored"]
  <2>1. /\ w \in Work /\ w.at = "done" /\ w.next = worker[o].next
        /\ w.submitted = worker[o].submitted /\ w.failed = worker[o].failed
    BY <1>1 DEF Work
  <2>2. worker' = [worker EXCEPT ![o] = w] /\ worker[o].at # "none" /\ UNCHANGED <<others, stage, stored>>
    BY <1>2 DEF OpenPreview
  <2> HIDE DEF w
  <2> QED BY <2>1, <2>2, WorkerAtMoves
<1>3. CASE CreateSession(o) \/ SessionFails(o) \/ WorkerDies(o)
  <2>1. PICK at \in {"adding", "done"} : worker' = [worker EXCEPT ![o] = WorkAt(worker[o], at)]
    BY <1>3 DEF CreateSession, SessionFails, WorkerDies, WorkAt
  <2>2. worker[o].at # "none" /\ UNCHANGED <<others, stage, stored>>
    BY <1>3 DEF CreateSession, SessionFails, WorkerDies
  <2>3. /\ WorkAt(worker[o], at) \in Work /\ WorkAt(worker[o], at).at # "none"
        /\ WorkAt(worker[o], at).next = worker[o].next
        /\ WorkAt(worker[o], at).submitted = worker[o].submitted
        /\ WorkAt(worker[o], at).failed = worker[o].failed
    BY <1>1, <2>1, WorkAtIs
  <2> QED BY <2>1, <2>2, <2>3, WorkerAtMoves
<1> QED BY <1>2, <1>3

\* The worker goes past a result, which it could store or not.
Passed(w)  == [w EXCEPT !.next = w.next + 1, !.submitted = w.submitted + 1]
Skipped(w) == [w EXCEPT !.next = w.next + 1, !.failed = w.failed + 1]

LEMMA PassedIs ==
  ASSUME NEW w \in Work
  PROVE  /\ Passed(w) \in Work /\ Passed(w).at = w.at /\ Passed(w).next = w.next + 1
         /\ Passed(w).submitted = w.submitted + 1 /\ Passed(w).failed = w.failed
         /\ Skipped(w) \in Work /\ Skipped(w).at = w.at /\ Skipped(w).next = w.next + 1
         /\ Skipped(w).submitted = w.submitted /\ Skipped(w).failed = w.failed + 1
<1> DEFINE n == w.next + 1
           m == w.submitted + 1
           f == w.failed + 1
<1>1. n \in Nat /\ m \in Nat /\ f \in Nat
  BY DEF Work
<1>2. Passed(w) = [w EXCEPT !.next = n, !.submitted = m]
      /\ Skipped(w) = [w EXCEPT !.next = n, !.failed = f]
  BY DEF Passed, Skipped
<1>3. /\ Passed(w).at = w.at /\ Passed(w).next = w.next + 1
      /\ Passed(w).submitted = w.submitted + 1 /\ Passed(w).failed = w.failed
  BY DEF Passed, Work
<1>4. /\ Skipped(w).at = w.at /\ Skipped(w).next = w.next + 1
      /\ Skipped(w).submitted = w.submitted /\ Skipped(w).failed = w.failed + 1
  BY DEF Skipped, Work
<1> HIDE DEF n, m, f
<1>5. Passed(w) \in Work
  BY <1>1, <1>2 DEF Work
<1>6. Skipped(w) \in Work
  BY <1>1, <1>2 DEF Work
<1> QED BY <1>3, <1>4, <1>5, <1>6

\* What is stored, and the counts, are so again when they fit the item gone past.
LEMMA SentFurther ==
  ASSUME NEW res, NEW w \in Work, NEW str \in Seq(Item), NEW next \in Nat, InOrder(str),
         w.next = next + 1, next <= Len(res), Len(res) \in Nat,
         next + 1 = w.submitted + w.failed + 1,
         w.submitted <= Len(str), Len(str) <= w.submitted + w.failed,
         \A i \in DOMAIN str : \E m \in DOMAIN res : m < next + 1 /\ str[i] = res[m]
  PROVE  SentFrom(res, w, str)
<1>1. w.next <= Len(res) + 1
  OBVIOUS
<1> QED BY <1>1 DEF SentFrom

LEMMA CountsFit ==
  ASSUME NEW next \in Nat, NEW s \in Nat, NEW f \in Nat, NEW n \in Nat,
         next = s + f + 1, s <= n, n <= s + f
  PROVE  /\ next + 1 = (s + 1) + f + 1 /\ s + 1 <= n + 1 /\ n + 1 <= (s + 1) + f
         /\ next + 1 = s + (f + 1) + 1 /\ s <= n + 1 /\ n + 1 <= s + (f + 1)
         /\ s <= n /\ n <= s + (f + 1)
OBVIOUS

LEMMA AddItemKeeps ==
  ASSUME BatchInv, NEW o \in Overlays, AddItem(o)
  PROVE  BatchInv'
<1> DEFINE w == worker[o]
           res == results[o]
           item == res[w.next]
           good == Passed(w)
           bad == Skipped(w)
           more == Append(stored[o], item)
<1>1. /\ w \in Work /\ SentFrom(res, w, stored[o]) /\ stored[o] \in Seq(Item) /\ res \in Seq(Item)
      /\ InOrder(res)
  BY DEF BatchInv, Typed, OverlaySound, QueueSound, ReadFrom
<1>2. w.at = "adding" /\ w.next <= Len(res) /\ UNCHANGED <<others, stage>>
  BY DEF AddItem
<1>3. w.next \in Nat /\ w.submitted \in Nat /\ w.failed \in Nat
      /\ w.next = w.submitted + w.failed + 1 /\ Len(res) \in Nat /\ Len(stored[o]) \in Nat
      /\ w.submitted <= Len(stored[o]) /\ Len(stored[o]) <= w.submitted + w.failed
  BY <1>1 DEF Work, SentFrom
<1>4. w.next \in DOMAIN res /\ item \in Item
  BY <1>1, <1>2, <1>3
<1>5. /\ good \in Work /\ good.at = "adding" /\ good.next = w.next + 1
      /\ good.submitted = w.submitted + 1 /\ good.failed = w.failed
  BY <1>1, <1>2, PassedIs
<1>6. /\ bad \in Work /\ bad.at = "adding" /\ bad.next = w.next + 1
      /\ bad.submitted = w.submitted /\ bad.failed = w.failed + 1
  BY <1>1, <1>2, PassedIs
<1>7. /\ more \in Seq(Item) /\ Len(more) = Len(stored[o]) + 1
      /\ InOrder(more) /\ \A i \in DOMAIN more : \E m \in DOMAIN res : m < w.next + 1 /\ more[i] = res[m]
  <2>1. /\ more \in Seq(Item) /\ Len(more) = Len(stored[o]) + 1
        /\ more[Len(stored[o]) + 1] = item /\ \A i \in DOMAIN stored[o] : more[i] = stored[o][i] /\ i \in Nat
        /\ \A i \in DOMAIN more : i \in DOMAIN stored[o] \/ i = Len(stored[o]) + 1
        /\ \A i \in DOMAIN stored[o] : i < Len(stored[o]) + 1
        /\ DOMAIN more = 1..(Len(stored[o]) + 1)
    BY <1>1, <1>4
  <2>2. \A i \in DOMAIN stored[o] : \E m \in DOMAIN res : m < w.next /\ stored[o][i] = res[m]
    BY <1>1 DEF SentFrom
  <2> HIDE DEF more
  <2>3. ASSUME NEW i \in DOMAIN more
        PROVE  \E m \in DOMAIN res : m < w.next + 1 /\ more[i] = res[m]
    <3>1. CASE i \in DOMAIN stored[o]
      <4>1. PICK m \in DOMAIN res : m < w.next /\ stored[o][i] = res[m]
        BY <2>2, <3>1
      <4>2. m \in Nat
        BY <1>1
      <4> QED BY <1>3, <2>1, <3>1, <4>1, <4>2
    <3>2. CASE i = Len(stored[o]) + 1
      <4>1. w.next < w.next + 1
        BY <1>3
      <4>2. more[i] = res[w.next]
        BY <2>1, <3>2
      <4> QED BY <1>4, <4>1, <4>2
    <3> QED BY <2>1, <3>1, <3>2
  <2>4. ASSUME NEW i \in DOMAIN more, NEW l \in DOMAIN more, i < l
        PROVE  more[i].order < more[l].order
    <3>1. i \in DOMAIN stored[o]
      BY <1>3, <2>1, <2>4
    <3>2. CASE l \in DOMAIN stored[o]
      BY <1>1, <2>1, <2>4, <3>1, <3>2 DEF SentFrom, InOrder
    <3>3. CASE l = Len(stored[o]) + 1
      <4>1. PICK m \in DOMAIN res : m < w.next /\ stored[o][i] = res[m]
        BY <2>2, <3>1
      <4>2. res[m].order < item.order
        BY <1>1, <1>4, <4>1 DEF InOrder
      <4> QED BY <2>1, <3>1, <3>3, <4>1, <4>2
    <3> QED BY <2>1, <3>2, <3>3
  <2> QED BY <2>1, <2>3, <2>4 DEF InOrder
<1>71. LET f == w.failed
           d == w.submitted
           n == Len(stored[o])
       IN  /\ w.next + 1 = (d + 1) + f + 1 /\ d + 1 <= n + 1 /\ n + 1 <= (d + 1) + f
           /\ w.next + 1 = d + (f + 1) + 1 /\ d <= n + 1 /\ n + 1 <= d + (f + 1)
           /\ d <= n /\ n <= d + (f + 1)
  BY <1>3, CountsFit
<1>72. Len(more) = Len(stored[o]) + 1
  BY <1>7
<1>8. \A i \in DOMAIN stored[o] : \E m \in DOMAIN res : m < w.next + 1 /\ stored[o][i] = res[m]
  <2> SUFFICES ASSUME NEW i \in DOMAIN stored[o]
               PROVE  \E m \in DOMAIN res : m < w.next + 1 /\ stored[o][i] = res[m]
    OBVIOUS
  <2>1. PICK m \in DOMAIN res : m < w.next /\ stored[o][i] = res[m]
    BY <1>1 DEF SentFrom
  <2>2. m \in Nat
    BY <1>1
  <2> QED BY <1>3, <2>1, <2>2
<1>9. InOrder(stored[o])
  BY <1>1 DEF SentFrom
<1>10. \/ worker' = [worker EXCEPT ![o] = good] /\ stored' = [stored EXCEPT ![o] = more]
       \/ worker' = [worker EXCEPT ![o] = bad] /\ stored' = [stored EXCEPT ![o] = more]
       \/ worker' = [worker EXCEPT ![o] = bad] /\ stored' = stored
  BY DEF AddItem, Passed, Skipped
<1> HIDE DEF good, bad, more
<1>11. SentFrom(res, good, more)
  <2>1. /\ w.next + 1 = good.submitted + good.failed + 1
        /\ good.submitted <= Len(more) /\ Len(more) <= good.submitted + good.failed
    BY <1>5, <1>71, <1>72
  <2> QED BY <1>2, <1>3, <1>5, <1>7, <2>1, SentFurther
<1>12. SentFrom(res, bad, more)
  <2>1. /\ w.next + 1 = bad.submitted + bad.failed + 1
        /\ bad.submitted <= Len(more) /\ Len(more) <= bad.submitted + bad.failed
    BY <1>6, <1>71, <1>72
  <2> QED BY <1>2, <1>3, <1>6, <1>7, <2>1, SentFurther
<1>13. SentFrom(res, bad, stored[o])
  <2>1. /\ w.next + 1 = bad.submitted + bad.failed + 1
        /\ bad.submitted <= Len(stored[o]) /\ Len(stored[o]) <= bad.submitted + bad.failed
    BY <1>6, <1>71
  <2> QED BY <1>1, <1>2, <1>3, <1>6, <1>8, <1>9, <2>1, SentFurther
<1>14. CASE worker' = [worker EXCEPT ![o] = good] /\ stored' = [stored EXCEPT ![o] = more]
  BY <1>2, <1>5, <1>11, <1>14, WorkMoves
<1>15. CASE worker' = [worker EXCEPT ![o] = bad] /\ stored' = [stored EXCEPT ![o] = more]
  BY <1>2, <1>6, <1>12, <1>15, WorkMoves
<1>16. CASE worker' = [worker EXCEPT ![o] = bad] /\ stored' = stored
  <2>1. stored' = [stored EXCEPT ![o] = stored[o]]
    BY <1>16 DEF BatchInv, Typed
  <2> QED BY <1>2, <1>6, <1>13, <1>16, <2>1, WorkMoves
<1> QED BY <1>10, <1>14, <1>15, <1>16

LEMMA SubmitKeeps ==
  ASSUME BatchInv, NEW o \in Overlays, Submit(o)
  PROVE  BatchInv'
<1>1. OverlaySound(o) /\ Typed /\ PageSound
  BY DEF BatchInv
<1>2. stage[o] \in {"asleep", "again"} /\ UNCHANGED <<page, mounted, selection, loop, stored, moved>>
  BY DEF Submit, Ended
<1>3. worker[o].at = "none" /\ worker[o] \in Work /\ turns[o] \in 0..MaxIterations /\ stage[o] \in Stages
  BY <1>1, <1>2, LoopFacts DEF Looping, Typed
<1>4. CASE Cancelled(o)
  <2>1. stage' = [stage EXCEPT ![o] = "over"] /\ UNCHANGED <<worker, capped>>
    BY <1>4 DEF Submit, Stage
  <2>2. Typed' /\ PageSound'
    <3>1. Typed'
      BY <1>1, <1>2, <2>1 DEF Typed, Stages, loop
    <3>2. PageSound'
      BY <1>1, <1>2 DEF PageSound, page
    <3> QED BY <3>1, <3>2
  <2>3. stage'[o] = "over" /\ \A p \in Overlays \ {o} : stage'[p] = stage[p]
    BY <1>1, <2>1 DEF Typed
  <2>4. PhaseFits("over", turns[o], queue[o], results[o], worker[o])
        /\ QueueSound("over", queue[o], results[o], moved)
    BY <1>1, <1>3, StageOver DEF OverlaySound
  <2>5. OverlaySound(o)'
    BY <1>1, <1>2, <2>1, <2>3, <2>4 DEF OverlaySound, loop
  <2> QED BY <1>2, <2>1, <2>2, <2>3, <2>5, OverlayStep DEF loop
<1>5. CASE ~Cancelled(o)
  <2> DEFINE at == IF results[o] = <<>> THEN "done" ELSE "session"
             w  == WorkAt(worker[o], at)
  <2>1. /\ stage' = [stage EXCEPT ![o] = "sending"]
        /\ capped' = (IF AllProcessed(o) THEN capped ELSE capped \cup {o})
        /\ worker' = [worker EXCEPT ![o] = w]
    BY <1>5 DEF Submit, Stage, WorkAt
  <2>2. at \in {"none", "session", "adding", "done"} /\ at # "none"
    OBVIOUS
  <2>3. /\ w \in Work /\ w.at # "none" /\ w.next = worker[o].next
        /\ w.submitted = worker[o].submitted /\ w.failed = worker[o].failed
    <3> HIDE DEF at
    <3> QED BY <1>3, <2>2, WorkAtIs
  <2> HIDE DEF w
  <2>4. Typed' /\ PageSound'
    <3>1. Typed'
      BY <1>1, <1>2, <2>1, <2>3 DEF Typed, Stages, loop
    <3>2. PageSound'
      BY <1>1, <1>2 DEF PageSound, page
    <3> QED BY <3>1, <3>2
  <2>5. /\ stage'[o] = "sending" /\ worker'[o] = w
        /\ \A p \in Overlays \ {o} : stage'[p] = stage[p] /\ worker'[p] = worker[p]
    BY <1>1, <2>1 DEF Typed
  <2>6. PhaseFits("sending", turns[o], queue[o], results[o], worker[o])
        /\ QueueSound("sending", queue[o], results[o], moved)
    BY <1>1, <1>2, <1>3, StageMoves DEF OverlaySound, Stages
  <2>7. PhaseFits("sending", turns[o], queue[o], results[o], w)
    BY <2>6 DEF PhaseFits
  <2>8. SentFrom(results[o], w, stored[o])
    BY <1>1, <2>3 DEF OverlaySound, SentFrom
  <2>9. ~moved /\ o \notin capped' => Len(results[o]) = Len(queue[o])
    BY <2>1, AllProcessedIsWhole
  <2>10. OverlaySound(o)'
    BY <1>1, <1>2, <2>5, <2>6, <2>7, <2>8, <2>9 DEF OverlaySound, loop
  <2> QED BY <1>2, <2>1, <2>4, <2>5, <2>10, OverlayStep DEF loop
<1> QED BY <1>4, <1>5

LEMMA AnsweredKeeps ==
  ASSUME BatchInv, NEW o \in Overlays, Answered(o)
  PROVE  BatchInv'
<1>1. OverlaySound(o) /\ Typed /\ PageSound
  BY DEF BatchInv
<1>2. stage' = [stage EXCEPT ![o] = "over"] /\ UNCHANGED <<others, submission>>
  BY DEF Answered, Stage
<1>3. Typed' /\ PageSound'
  <2>1. Typed'
    BY <1>1, <1>2 DEF Typed, Stages, loop, others, submission
  <2>2. PageSound'
    BY <1>1, <1>2 DEF PageSound, page, others, history
  <2> QED BY <2>1, <2>2
<1>4. stage'[o] = "over" /\ stage[o] \in Stages /\ \A p \in Overlays \ {o} : stage'[p] = stage[p]
  BY <1>1, <1>2 DEF Typed
<1>5. PhaseFits("over", turns[o], queue[o], results[o], worker[o])
      /\ QueueSound("over", queue[o], results[o], moved)
  BY <1>1, <1>4, StageOver DEF OverlaySound
<1>6. OverlaySound(o)'
  BY <1>1, <1>2, <1>4, <1>5 DEF OverlaySound, loop, others, submission, history
<1> QED BY <1>2, <1>3, <1>4, <1>6, OverlayStep DEF loop, others, submission, history

-----------------------------------------------------------------------------
LEMMA BatchInvNext == BatchInv /\ [Next]_vars => BatchInv'
<1> SUFFICES ASSUME BatchInv, [Next]_vars PROVE BatchInv'
  OBVIOUS
<1>1. ASSUME NEW o \in Overlays, LoopStep(o)
      PROVE  BatchInv'
  BY <1>1, PollKeeps, CardGoneKeeps, AlreadyMatchedKeeps, ClickKeeps, ObservedKeeps,
     SubmitKeeps, AnsweredKeeps DEF LoopStep
<1>2. ASSUME NEW o \in Overlays, WorkerStep(o) \/ WorkerDies(o)
      PROVE  BatchInv'
  BY <1>2, WorkerEnds, AddItemKeeps DEF WorkerStep
<1>3. ASSUME NEW o \in Overlays,
             \/ Mount(o) \/ Clear(o) \/ Start(o) \/ TogglePause(o) \/ Teardown(o)
             \/ \E j \in Jobs : Toggle(o, j)
      PROVE  BatchInv'
  BY <1>3, MountKeeps, ClearKeeps, StartKeeps, TogglePauseKeeps, TeardownKeeps, ToggleKeeps
<1>4. ASSUME NEW j \in Jobs, OpenJob(j) \/ ShowDetail(j) \/ RemoveCard(j)
      PROVE  BatchInv'
  BY <1>4, SiteKeeps
<1>5. CASE Leave
  BY <1>5, LeaveKeeps
<1>6. CASE UNCHANGED vars
  <2>1. Typed' /\ PageSound'
    BY <1>6 DEF vars, page, loop, submission, history, BatchInv, Typed, PageSound
  <2>2. \A o \in Overlays : OverlaySound(o)'
    BY <1>6, OthersStay DEF vars, loop, submission, history
  <2> QED BY <2>1, <2>2 DEF BatchInv
<1> QED BY <1>1, <1>2, <1>3, <1>4, <1>5, <1>6 DEF Next

\* Without what the specification says of fairness, which no invariant needs.
LEMMA SpecIsSafe == Spec => Init /\ [][Next]_vars
BY PTL DEF Spec

\* For any jobs and overlays: one item is in flight while a loop waits and none otherwise;
\* a session holds the results of one batch in their order, each text the job's own or of
\* a job without a link that looks like it; what is counted as submitted is stored
\* (BatchQueue, runBatch, submitBatch).
THEOREM SessionsAreTrue == Spec => []IInv
<1>1. BatchInv => IInv
  BY BatchInvIsSound
<1> QED BY <1>1, BatchInvInit, BatchInvNext, SpecIsSafe, PTL

\* What is submitted has a result for every selected job, failed ones included, unless a
\* card has left the list or the loop ran into its cap (runBatch).
THEOREM SubmissionsAreWhole == Spec => []CompleteUnlessMoved
<1>1. BatchInv => CompleteUnlessMoved
  BY BatchInvIsSound
<1> QED BY <1>1, BatchInvInit, BatchInvNext, SpecIsSafe, PTL

-----------------------------------------------------------------------------
\* What a step may do for an overlay that was cancelled.
Silent(o) == Cancelled(o) => /\ stage'[o] = "wait" => stage[o] = "wait"
                             /\ worker[o].at = "none" => worker'[o].at = "none"

\* A step that clicks, or hands over, does so for an overlay that was not cancelled.
LEMMA StepIsSilent == BatchInv /\ [Next]_vars => \A p \in Overlays : Silent(p)
<1> SUFFICES ASSUME BatchInv, [Next]_vars, NEW p \in Overlays PROVE Silent(p)
  OBVIOUS
<1>0. Typed
  BY DEF BatchInv
<1>1. ASSUME NEW o \in Overlays, ClickCard(o)
      PROVE  Silent(p)
  <2>1. ~Cancelled(o) /\ stage' = [stage EXCEPT ![o] = "wait"] /\ worker' = worker
    BY <1>1 DEF ClickCard, Running, Stage, submission
  <2> QED BY <1>0, <2>1 DEF Silent, Typed
<1>2. ASSUME NEW o \in Overlays, Submit(o)
      PROVE  Silent(p)
  <2>1. CASE Cancelled(o)
    BY <1>0, <1>2, <2>1 DEF Submit, Stage, Silent, Typed
  <2>2. CASE ~Cancelled(o)
    <3>1. stage' = [stage EXCEPT ![o] = "sending"] /\ \A q \in Overlays \ {o} : worker'[q] = worker[q]
      BY <1>0, <1>2, <2>2 DEF Submit, Stage, Typed
    <3> QED BY <1>0, <2>2, <3>1 DEF Silent, Typed
  <2> QED BY <2>1, <2>2
<1>3. ASSUME worker' = worker, \A o \in Overlays : stage'[o] = "wait" => stage[o] = "wait"
      PROVE  Silent(p)
  BY <1>3 DEF Silent
<1>4. ASSUME NEW o \in Overlays, NEW new \in Stages \ {"wait"}, Stage(o, new), worker' = worker
      PROVE  Silent(p)
  BY <1>0, <1>3, <1>4 DEF Stage, Typed
<1>5. ASSUME NEW o \in Overlays,
             Poll(o) \/ CardGone(o) \/ AlreadyMatched(o) \/ Observed(o) \/ Answered(o)
      PROVE  Silent(p)
  <2>1. \E new \in Stages \ {"wait"} : Stage(o, new)
    BY <1>5 DEF Poll, CardGone, AlreadyMatched, Observed, Answered, Capture, Stages
  <2>2. worker' = worker
    BY <1>5 DEF Poll, CardGone, AlreadyMatched, Observed, Answered, submission
  <2> QED BY <1>4, <2>1, <2>2
<1>6. ASSUME NEW o \in Overlays, WorkerStep(o) \/ WorkerDies(o)
      PROVE  Silent(p)
  <2>1. worker[o].at # "none" /\ stage' = stage
    BY <1>6 DEF WorkerStep, WorkerDies, CreateSession, SessionFails, AddItem, OpenPreview
  <2>2. \A q \in Overlays \ {o} : worker'[q] = worker[q]
    BY <1>0, <1>6 DEF WorkerStep, WorkerDies, CreateSession, SessionFails, AddItem, OpenPreview, Typed
  <2> QED BY <2>1, <2>2 DEF Silent
<1>7. ASSUME NEW o \in Overlays,
             \/ Mount(o) \/ Clear(o) \/ Start(o) \/ TogglePause(o)
             \/ \E j \in Jobs : Toggle(o, j)
      PROVE  Silent(p)
  <2>1. stage' = stage \/ Stage(o, "open") \/ Stage(o, "again")
    BY <1>7 DEF Mount, Clear, Start, TogglePause, Toggle
  <2>2. worker' = worker
    BY <1>7 DEF Mount, Clear, Start, TogglePause, Toggle, submission
  <2> QED BY <1>3, <1>4, <2>1, <2>2 DEF Stages
<1>8. ASSUME NEW o \in Overlays, Teardown(o)
      PROVE  Silent(p)
  BY <1>0, <1>3, <1>8 DEF Teardown, Stage, Typed, submission
<1>9. CASE Leave
  BY <1>0, <1>3, <1>9 DEF Leave, submission
<1>10. ASSUME NEW j \in Jobs, OpenJob(j) \/ ShowDetail(j) \/ RemoveCard(j)
       PROVE  Silent(p)
  BY <1>3, <1>10 DEF OpenJob, ShowDetail, RemoveCard, submission
<1>11. CASE UNCHANGED vars
  BY <1>3, <1>11 DEF vars, submission
<1> QED BY <1>1, <1>2, <1>5, <1>6, <1>7, <1>8, <1>9, <1>10, <1>11 DEF Next, LoopStep

\* Nothing is clicked and nothing handed over for an overlay that was torn down or left
\* (teardown, isCancelled).
THEOREM CancelledOverlaysAreSilent == Spec => CancelledIsSilent
<1>1. BatchInv /\ [Next]_vars =>
        [\A o \in Overlays : Cancelled(o) =>
           /\ stage'[o] = "wait" => stage[o] = "wait"
           /\ worker[o].at = "none" => worker'[o].at = "none"]_vars
  BY StepIsSilent DEF Silent
<1> QED BY <1>1, BatchInvInit, BatchInvNext, SpecIsSafe, PTL DEF CancelledIsSilent
=============================================================================
