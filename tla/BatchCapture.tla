------------------------------ MODULE BatchCapture ------------------------------
(***************************************************************************)
(* The batch capture of the browser extension: overlays injected into a    *)
(* page of job cards, each with a queue of selected jobs that its loop     *)
(* works off -- click a card, wait for the right panel, read it -- and     *)
(* then hands to the background worker, which stores the items one by one  *)
(* in a session of the server.  The page has one thread: the user, the     *)
(* site and other overlays act only while every loop awaits something.     *)
(***************************************************************************)
EXTENDS Naturals, FiniteSets, SequencesExt

CONSTANTS Jobs,
          Look,          \* the title and salary of each job
          Linked,        \* jobs whose panel carries a link to the job
          Overlays,      \* numbered in the order of their injection
          MaxBatch, MaxIterations,
          None,
          Limits         \* what a behaviour may do, chosen at the start

ASSUME BatchAssumption ==
  /\ Linked \subseteq Jobs /\ DOMAIN Look = Jobs /\ Overlays \subseteq Nat
  /\ MaxBatch \in Nat /\ MaxIterations \in Nat /\ None \notin Jobs

VARIABLES cards,     \* jobs whose card is in the list
          panel,     \* the job the right panel shows
          loading,   \* details the site has been asked for and not shown
          mounted,   \* MOUNT_FLAG: the overlay that is not torn down
          selection,
          stage,     \* where each overlay is: what its loop awaits
          paused, turns, queue,
          results,   \* what its loop has read
          worker,    \* the background worker's part of each submission
          stored,    \* the items of the session on the server
          moved, capped, \* history: a card has left the list; loops stopped by the cap
          limit

page == <<cards, panel, loading>>
loop == <<paused, turns, queue, results>>
submission == <<worker, stored>>
history == <<moved, capped>>
vars == <<page, mounted, selection, stage, loop, submission, history, limit>>

\* An item is given `content', the job whose panel was read, unless it is blocked.
Item == [order : 1 .. MaxBatch, job : Jobs, content : Jobs \cup {None}]
\* needs_correction counts as captured; the other states do not outlast a step.
Status == {"queued", "observing", "captured", "failed"}
Terminal == {"captured", "failed"}
NoWork == [at |-> "none", next |-> 1, submitted |-> 0, failed |-> 0, answer |-> "none"]

Init ==
  /\ limit \in Limits
  /\ cards = Jobs /\ panel = None /\ loading = {}
  /\ mounted = None
  /\ selection = [o \in Overlays |-> <<>>]
  /\ stage = [o \in Overlays |-> "absent"]
  /\ paused = [o \in Overlays |-> FALSE]
  /\ turns = [o \in Overlays |-> 0]
  /\ queue = [o \in Overlays |-> <<>>]
  /\ results = [o \in Overlays |-> <<>>]
  /\ worker = [o \in Overlays |-> NoWork]
  /\ stored = [o \in Overlays |-> <<>>]
  /\ moved = FALSE /\ capped = {}

Spend(what) == limit[what] > 0 /\ limit' = [limit EXCEPT ![what] = @ - 1]
Stage(o, s) == stage' = [stage EXCEPT ![o] = s]

\* A loop that goes on without awaiting anything keeps the thread.
Busy(o) == \E p \in Overlays \ {o} : stage[p] = "again"
Free == \A o \in Overlays : stage[o] # "again"
Looping(o) == stage[o] \in {"asleep", "again", "wait"}

\* teardown: the overlay and its queue are cancelled, and no other way.
Cancelled(o) == stage[o] # "absent" /\ mounted # o

-----------------------------------------------------------------------------
(* The user and the site. *)

\* Run by the popup; a second overlay beside one that is mounted returns at once.
Mount(o) ==
  /\ Free /\ mounted = None
  /\ Spend("mounts")
  /\ stage[o] = "absent" /\ \A p \in Overlays : p < o => stage[p] # "absent"
  /\ mounted' = o
  /\ Stage(o, "open")
  /\ UNCHANGED <<page, selection, loop, submission, history>>

\* The selection is not read again once the batch is started.
Toggle(o, j) ==
  LET chosen == selection[o] IN
  /\ Free /\ mounted = o /\ stage[o] = "open" /\ j \in cards
  /\ Spend("user")
  /\ \/ \E i \in DOMAIN chosen :
          chosen[i] = j /\ selection' = [selection EXCEPT ![o] = RemoveAt(chosen, i)]
     \/ /\ j \notin ToSet(chosen) /\ Len(chosen) < MaxBatch
        /\ selection' = [selection EXCEPT ![o] = Append(chosen, j)]
  /\ UNCHANGED <<page, mounted, stage, loop, submission, history>>

Clear(o) ==
  /\ Free /\ mounted = o /\ stage[o] = "open" /\ selection[o] # <<>>
  /\ Spend("user")
  /\ selection' = [selection EXCEPT ![o] = <<>>]
  /\ UNCHANGED <<page, mounted, stage, loop, submission, history>>

Start(o) ==
  /\ Free /\ mounted = o /\ stage[o] = "open" /\ selection[o] # <<>>
  /\ queue' = [queue EXCEPT ![o] =
                 [i \in DOMAIN selection[o] |-> [job |-> selection[o][i], status |-> "queued"]]]
  /\ Stage(o, "again")
  /\ UNCHANGED <<page, mounted, selection, paused, turns, results, submission, history, limit>>

TogglePause(o) ==
  /\ Free /\ mounted = o /\ Looping(o)
  /\ Spend("user")
  /\ paused' = [paused EXCEPT ![o] = ~@]
  /\ UNCHANGED <<page, mounted, selection, stage, turns, queue, results, submission, history>>

\* The loop is not stopped: it finds out when what it awaits is there.
Teardown(o) ==
  /\ Free /\ mounted = o
  /\ mounted' = None
  /\ Stage(o, IF stage[o] = "open" THEN "over" ELSE stage[o])
  /\ UNCHANGED <<page, selection, loop, submission, history, limit>>

\* The page is left or reloaded; the worker is not part of it.
Leave ==
  /\ Free
  /\ Spend("site")
  /\ cards' = Jobs /\ panel' = None /\ loading' = {}
  /\ mounted' = None
  /\ stage' = [o \in Overlays |-> IF stage[o] = "absent" THEN "absent" ELSE "over"]
  /\ UNCHANGED <<selection, loop, submission, history>>

OpenJob(j) ==
  /\ Free /\ j \in cards /\ mounted # None
  /\ Spend("user")
  /\ loading' = loading \cup {j}
  /\ UNCHANGED <<cards, panel, mounted, selection, stage, loop, submission, history>>

\* Details come in any order.
ShowDetail(j) ==
  /\ Free /\ j \in loading
  /\ panel' = j
  /\ loading' = loading \ {j}
  /\ UNCHANGED <<cards, mounted, selection, stage, loop, submission, history, limit>>

RemoveCard(j) ==
  /\ Free /\ j \in cards /\ mounted # None
  /\ Spend("site")
  /\ cards' = cards \ {j}
  /\ moved' = TRUE
  /\ UNCHANGED <<panel, loading, mounted, selection, stage, loop, submission, capped>>

-----------------------------------------------------------------------------
(* runBatch: the loop of an overlay. *)

AllProcessed(o) == \A i \in DOMAIN queue[o] : queue[o][i].status \in Terminal
Running(o) == ~Cancelled(o) /\ ~paused[o]
Pending(o) == {i \in DOMAIN queue[o] : queue[o][i].status = "queued"}
\* Items are begun in order, so the first of all is the first of the queue.
NextPending(o) == CHOOSE i \in Pending(o) : \A k \in Pending(o) : i <= k

\* The head of the loop, after a sleep or at once.
Turn(o) == stage[o] \in {"asleep", "again"} /\ ~Busy(o) /\ turns[o] < MaxIterations
Counted(o) == turns' = [turns EXCEPT ![o] = @ + 1]

\* Mutated: a poll is not one of the iterations.
UncountedPoll(o) ==
  /\ Turn(o) /\ ~Cancelled(o) /\ paused[o]
  /\ Stage(o, "asleep")
  /\ UNCHANGED <<page, mounted, selection, turns, paused, queue, results, submission, history, limit>>

Poll(o) ==
  /\ Turn(o) /\ ~Cancelled(o) /\ paused[o]
  /\ Counted(o)
  /\ Stage(o, "asleep")
  /\ UNCHANGED <<page, mounted, selection, paused, queue, results, submission, history, limit>>

\* Mutated: whatever the panel shows is the job's.
AnyPanel(j, shown) == shown # None

\* The panel's own link decides; without one, the title and the salary.
IdentityMatch(j, shown) ==
  /\ shown # None
  /\ IF shown \in Linked THEN shown = j ELSE Look[shown] = Look[j]

\* Mutated: a panel that is not the job's is left out of the results.
CaptureMatchesOnly(o, i, shown) ==
  LET j == queue[o][i].job
      match == IdentityMatch(j, shown)
  IN  /\ queue' = [queue EXCEPT ![o][i].status = IF match THEN "captured" ELSE "failed"]
      /\ results' = IF ~match THEN results
                    ELSE [results EXCEPT ![o] = Append(@, [order |-> i, job |-> j, content |-> shown])]
      /\ Counted(o)
      /\ Stage(o, IF Running(o) /\ Pending(o) \ {i} # {} THEN "asleep" ELSE "again")

\* The panel is read; the loop sleeps only if there is more to do.
Capture(o, i, shown) ==
  LET j == queue[o][i].job
      match == IdentityMatch(j, shown)
  IN  /\ queue' = [queue EXCEPT ![o][i].status = IF match THEN "captured" ELSE "failed"]
      /\ results' = [results EXCEPT ![o] =
           Append(@, [order |-> i, job |-> j, content |-> IF match THEN shown ELSE None])]
      /\ Counted(o)
      /\ Stage(o, IF Running(o) /\ Pending(o) \ {i} # {} THEN "asleep" ELSE "again")

\* A card that has left the list: the item fails, and is not among the results.
CardGone(o) ==
  LET i == NextPending(o) IN
  /\ Turn(o) /\ Running(o) /\ Pending(o) # {}
  /\ queue[o][i].job \notin cards
  /\ queue' = [queue EXCEPT ![o][i].status = "failed"]
  /\ Counted(o)
  /\ Stage(o, "again")
  /\ UNCHANGED <<page, mounted, selection, paused, results, submission, history, limit>>

\* The panel shows the first job already.
AlreadyMatched(o) ==
  /\ Turn(o) /\ Running(o) /\ 1 \in Pending(o)
  /\ queue[o][1].job \in cards \cap Linked /\ panel = queue[o][1].job
  /\ Capture(o, 1, panel)
  /\ UNCHANGED <<page, mounted, selection, paused, submission, history, limit>>

ClickCard(o) ==
  LET i == NextPending(o) IN
  /\ Turn(o) /\ Running(o) /\ Pending(o) # {}
  /\ queue[o][i].job \in cards
  /\ ~(i = 1 /\ queue[o][1].job \in Linked /\ panel = queue[o][1].job)
  /\ loading' = loading \cup {queue[o][i].job}
  /\ queue' = [queue EXCEPT ![o][i].status = "observing"]
  /\ Stage(o, "wait")
  /\ UNCHANGED <<cards, panel, mounted, selection, paused, turns, results, submission, history, limit>>

\* The wait is over: the panel has settled, or six seconds have passed; both are read.
Observed(o) ==
  /\ Free /\ stage[o] = "wait"
  /\ \E i \in DOMAIN queue[o] : queue[o][i].status = "observing" /\ Capture(o, i, panel)
  /\ UNCHANGED <<page, mounted, selection, paused, submission, history, limit>>

Ended(o) ==
  /\ stage[o] \in {"asleep", "again"} /\ ~Busy(o)
  /\ \/ turns[o] >= MaxIterations \/ Cancelled(o)
     \/ Running(o) /\ AllProcessed(o)

\* Mutated: what was read before the batch was cancelled is handed over.
SubmitAnyway(o) ==
  /\ Ended(o)
  /\ capped' = IF AllProcessed(o) THEN capped ELSE capped \cup {o}
  /\ Stage(o, "sending")
  /\ worker' = [worker EXCEPT ![o].at = IF results[o] = <<>> THEN "done" ELSE "session"]
  /\ UNCHANGED <<page, mounted, selection, loop, stored, moved, limit>>

\* The end of the loop and of start(): the results go to the worker, in their order.
Submit(o) ==
  /\ Ended(o)
  /\ IF Cancelled(o) THEN Stage(o, "over") /\ UNCHANGED <<worker, capped>>
     ELSE /\ capped' = IF AllProcessed(o) THEN capped ELSE capped \cup {o}
          /\ Stage(o, "sending")
          /\ worker' = [worker EXCEPT ![o].at = IF results[o] = <<>> THEN "done" ELSE "session"]
  /\ UNCHANGED <<page, mounted, selection, loop, stored, moved, limit>>

-----------------------------------------------------------------------------
(* submitBatch: the background worker, on its own thread. *)

others == <<page, mounted, selection, loop, history>>

CreateSession(o) ==
  /\ worker[o].at = "session"
  /\ worker' = [worker EXCEPT ![o].at = "adding"]
  /\ UNCHANGED <<others, stage, stored, limit>>

SessionFails(o) ==
  /\ worker[o].at = "session"
  /\ Spend("faults")
  /\ worker' = [worker EXCEPT ![o].at = "done"]
  /\ UNCHANGED <<others, stage, stored>>

\* addCaptureItem: the item is stored, refused, or stored without an answer.
AddItem(o) ==
  LET w == worker[o] IN
  /\ w.at = "adding" /\ w.next <= Len(results[o])
  /\ \/ /\ stored' = [stored EXCEPT ![o] = Append(@, results[o][w.next])]
        /\ worker' = [worker EXCEPT ![o] = [w EXCEPT !.next = @ + 1, !.submitted = @ + 1]]
        /\ UNCHANGED limit
     \/ /\ Spend("faults")
        /\ worker' = [worker EXCEPT ![o] = [w EXCEPT !.next = @ + 1, !.failed = @ + 1]]
        /\ \/ stored' = [stored EXCEPT ![o] = Append(@, results[o][w.next])]
           \/ UNCHANGED stored
  /\ UNCHANGED <<others, stage>>

OpenPreview(o) ==
  /\ worker[o].at = "adding" /\ worker[o].next > Len(results[o])
  /\ worker' = [worker EXCEPT ![o] = [@ EXCEPT !.at = "done", !.answer = "stored"]]
  /\ UNCHANGED <<others, stage, stored, limit>>

\* The browser ends the worker, wherever it is.
WorkerDies(o) ==
  /\ worker[o].at \in {"session", "adding"}
  /\ Spend("faults")
  /\ worker' = [worker EXCEPT ![o].at = "done"]
  /\ UNCHANGED <<others, stage, stored>>

\* The answer, or the closed channel, reaches the overlay.
Answered(o) ==
  /\ Free /\ stage[o] = "sending" /\ worker[o].at = "done"
  /\ Stage(o, "over")
  /\ UNCHANGED <<others, submission, limit>>

-----------------------------------------------------------------------------
LoopStep(o) ==
  \/ Poll(o) \/ CardGone(o) \/ AlreadyMatched(o) \/ ClickCard(o) \/ Observed(o)
  \/ Submit(o) \/ Answered(o)
WorkerStep(o) == CreateSession(o) \/ SessionFails(o) \/ AddItem(o) \/ OpenPreview(o)

Next ==
  \/ \E o \in Overlays :
       \/ LoopStep(o) \/ WorkerStep(o) \/ WorkerDies(o)
       \/ Mount(o) \/ Clear(o) \/ Start(o) \/ TogglePause(o) \/ Teardown(o)
       \/ \E j \in Jobs : Toggle(o, j)
  \/ \E j \in Jobs : OpenJob(j) \/ ShowDetail(j) \/ RemoveCard(j)
  \/ Leave

\* Timers fire, waits of the page and of the worker's requests end.
Spec ==
  /\ Init /\ [][Next]_vars
  /\ \A o \in Overlays : WF_vars(LoopStep(o)) /\ WF_vars(WorkerStep(o))

-----------------------------------------------------------------------------
TypeOK ==
  /\ cards \subseteq Jobs /\ loading \subseteq Jobs /\ panel \in Jobs \cup {None}
  /\ mounted \in Overlays \cup {None}
  /\ \A o \in Overlays :
       /\ stage[o] \in {"absent", "open", "asleep", "again", "wait", "sending", "over"}
       /\ turns[o] \in 0 .. MaxIterations
       /\ Len(selection[o]) <= MaxBatch
       /\ \A i \in DOMAIN queue[o] : queue[o][i] \in [job : Jobs, status : Status]
       /\ \A i \in DOMAIN results[o] : results[o][i] \in Item

\* One item of an overlay is in flight while it waits for the panel, and none otherwise,
\* whoever paused or cancelled in between (BatchQueue.beginItem, runBatch).
Serial ==
  \A o \in Overlays : stage[o] # "over" =>
    Cardinality({i \in DOMAIN queue[o] : queue[o][i].status = "observing"})
      = IF stage[o] = "wait" THEN 1 ELSE 0

\* A session holds items of one batch, each once and in the order of the selection, and a
\* text that is not blocked is the job's own, unless the panel had no link and another
\* job's title (captureKnownJobFromRightPanel, submitBatch).
PreviewIsTrue ==
  \A o \in Overlays : \A i, k \in DOMAIN stored[o] :
    LET item == stored[o][i] IN
    /\ i < k => item.order < stored[o][k].order
    /\ queue[o][item.order].job = item.job
    /\ item.content \notin {None, item.job} =>
         item.content \notin Linked /\ Look[item.content] = Look[item.job]

\* The counts of the answer: what it calls submitted is stored, and what is stored it
\* has counted (submitBatch).
CountsAreBounds ==
  \A o \in Overlays :
    /\ worker[o].submitted <= Len(stored[o])
    /\ Len(stored[o]) <= worker[o].submitted + worker[o].failed

IInv == TypeOK /\ Serial /\ PreviewIsTrue /\ CountsAreBounds

\* Nothing is clicked and nothing begins to be submitted for an overlay that was
\* cancelled, although its loop goes on until what it awaits is there (teardown).
CancelledIsSilent ==
  [][\A o \in Overlays : Cancelled(o) =>
       /\ stage'[o] = "wait" => stage[o] = "wait"
       /\ worker[o].at = "none" => worker'[o].at = "none"]_vars

\* What an overlay submits covers every job that was selected, failed ones included,
\* unless a card has left the list or the loop ran into its cap (runBatch).
CompleteUnlessMoved ==
  \A o \in Overlays : worker[o].at # "none" /\ ~moved /\ o \notin capped =>
    Len(results[o]) = Len(queue[o])

\* A batch that was started comes to its end, paused or not: the overlay is free again
\* (maxIterations, MAX_WAIT_MS).
BatchEnds == \A o \in Overlays : (Looping(o) \/ stage[o] = "sending") ~> stage[o] = "over"

\* "The preview must contain every logical job the user finally selected, failed ones
\* included" (batchPayload.ts), once everything was stored and the loop was not cut short.
PreviewIsComplete ==
  \A o \in Overlays : worker[o].answer = "stored" /\ o \notin capped =>
    \/ Len(results[o]) = Len(queue[o])
    \/ worker[o].failed > 0
=============================================================================
