# OfferFlow: a TLA+ model of its core

OfferFlow is a local-first job-search assistant: a Vue front end and a browser
extension over one Node process with one SQLite file. This directory holds TLA+
modules of the parts that carry its own logic, TLC configurations that check them
on small instances, and proofs checked by TLAPS. Every definition is translated
from the source; `PROJECT.json` maps it to the lines it stands for.

Run a check with `tlc -config X.cfg M`, where the table of runs names `X` and `M`,
and the proofs with `tlapm M.tla` for each of the eight modules whose name ends in `Proofs`.

## 1. The system

### What runs

* One server process (`server/index.ts`, Fastify over `better-sqlite3`). SQLite is
  synchronous and JavaScript runs to completion: a handler without `await` is one
  indivisible step, and a transaction additionally survives or vanishes as a whole.
* Scripts started by hand on the same file (`scripts/retryAnalysisTask.ts --commit`,
  backup, `db:sync`, upgrade). Between processes only one SQL statement or one
  transaction is exclusive.
* Other machines, which share the directory of the snapshot and its manifest.
* The developers' `cc-auto` command line, several of which may run in one repository;
  they share files only.
* Tabs and the extension, which send HTTP requests, may have read anything
  earlier, and may send a request again when its answer was lost.
* Language models, awaited by the analysis executor, the profile services and `cc-auto`.

### Components

| Component | State | Operations | What is hard | What makes it correct |
|---|---|---|---|---|
| **Radar analysis tasks** `server/radar/analysis`, `analysisTaskRepository.ts` | `analysis_tasks`, `job_match_analysis_records`; in memory: one AbortController per running task | create, run, cancel, retry, recovery task, recovery scan | await, several processes, crash, late results | one record per success, attempts counted, cancellation reaches the run, an attempt a call waits for settles |
| **Capture sessions and candidates** `server/radar/service.ts`, `identityResolution.ts`, `materialChange.ts`, `commitDecision.ts` | sessions, snapshots, source records, candidates, versions, links | create, add, cancel, expire, commit, replay | item-by-item commit, failure half-way, lost answer, facts that go back and forth | all or nothing, once; unique identities; sound version history |
| **Actions and rule overrides** `server/radar/action`, `actionRepository.ts`, `ruleOverrideProjection.ts`, `ruleEvidenceService.ts`, `reviewService.ts` | append-only `radar_actions` | set, revert, override, revert override | state is derived by replaying the log | derived state is the last wish |
| **Recommendations** `server/radar/recommendation` | batches, keyed by the identity of what they say | create or reuse a batch | reuse after a decision, stale analyses, capacity | fresh on reuse, only current advice, everything accounted for |
| **Duplicate review** `duplicateAdjudicationService.ts`, `candidateRelationRepository.ts` | relations, rulings in `radar_actions` | register, confirm same or distinct, revert, recheck | several review windows | rulings chain to the status; a decision stands until it is reverted |
| **Job memory** `server/job-memory`, `src/domain/job-memory` | applications with a row version, append-only events, resume versions | 11 commands, a projection | optimistic versions, idempotency keys, events recorded out of order, voids | keys once, version names contents, projection never invalid |
| **Radar promotion** `server/radar/promotion` | `radar_promotions` and the tables of job memory | preview, promote | four writes in one transaction, retries, stale targets | once, whole, no more than proven |
| **Job routes** `server/routes/jobs.ts` | `jobs` | create, update, delete | deletion beside promotion | no dangling reference |
| **Formal profiles** `server/{job-match-profile,capability-baseline,market-position,strategy-window}` | four layers: proposals, versions, an active pointer, a state version, receipts; candidate evidence | generate, write by hand, accept (edited), reject, defer, activate | await while the input moves, edits that bypass gates, a deleted and restored row | advice is fresh, gates hold, references stay accepted |
| **History import** `server/history-import` | sessions, baseline and event drafts, receipts | draft, edit, mark duplicate, delete, preview, confirm, discard | a confirmation sent again, edits from another tab after the preview, writes beside job memory | what is imported is what was previewed, once |
| **Database sync** `server/sync` | database, snapshot and manifest, lock file | start, recover, run, import, merge, export, stop | two machines and two processes at their renames, a crash or a failing rename half-way, a stale lock | a publication that fails is undone whole, nothing newer is lost, runs are alone |
| **Browser extension batch** `browser-extension/src` (`content/`, `background/`) | selection, queue, results; the worker's session | mount, select, start, pause, cancel, submit | the user and the site act while the loop waits for a panel | texts are the job's own, cancelled is silent, a batch ends and is complete |
| **ccAuto orchestrator** `scripts/ccAuto` | the record of a run, its copy in memory, the lease of the repository | start, resume, preflight, call, repair, arbitrate | several commands, crashes around a paid call, two writers of one record | one command drives, every paid call is on record once, commands end |

Without a model of their own, and why: section 6.

### How the components interact

The extension's payloads become capture sessions; committing one writes candidates
and versions. An analysis task freezes a candidate version and a context (resume,
profile, baseline, market, strategy versions) and leaves a record. Recommendations
read the records that are current for the active version and context, the rule
assessments and the action log. Promotion turns a candidate version into rows of
job memory. Feedback in job memory, and the profile text, are what the formal
profiles are derived from; accepted profile versions form the context of the next
analysis. History import writes the same tables of job memory as its commands and as
promotion. The extension's batches become capture sessions through HTTP requests. All
of it is shared tables; nothing is a message queue. Sync replaces or merges whole
databases below all of this, before the server serves or in one of its requests.
`cc-auto` shares nothing with the application.

## 2. The modules

| Module | Models | State and the code behind it |
|---|---|---|
| `TaskLifecycle` | what an analysis task promises | `phase` of each task and which results are `published` |
| `AnalysisTasks` | executor, service, repositories, retry script | `task`, `recs` are the two tables; `call` is what a call in progress has read, `loop` which call holds a process's event loop, `inflight` the AbortController registry, `up`/`scan` a process and its recovery scan |
| `CandidateIntake` | capture service and its pure decisions | `session`; `db` the five tables; `tx` the commit in progress with its private copy |
| `RadarActionLog` | `radar_actions` and its projections | no state: a log is a sequence; order of listing by instant and random id |
| `CandidateDecisions` | actions, overrides, recommendation batches | `active`/`latest` versions, `context`, `records`, `log`, `batches`; histories `wish`, `dismissed`, `ruling` |
| `DuplicateReview` | duplicate relations and rulings | `relations`, `trail`, `seen` (what each window shows) |
| `ApplicationProjection` | `projectApplication.ts` | no state: a fold over events in business time |
| `JobMemory` | `jobMemoryService.ts` | `applications`, `events`, `resumes`, `activeResume` |
| `Promotion` (extends `JobMemory`) | promotion service and plan, job routes | `jobRows`, `activeVersion`, `promotions`, `reply` |
| `FormalProfiles` | the four profile services | `layer`, `evidence`, `calls` (models awaited), `facts`, the profile row and a tab's `copy` of it |
| `HistoryImport` (extends `JobMemory`) | one import session, confirmed into job memory | `session` (its status, row version and the writes of its drafts so far, which stand for `updated_at`), `drafts`, `notes` (event drafts); `bundle` is what the tab that may confirm has read; `imported`, `jobsTable` |
| `DatabaseSync` | start-up, `runSync`, routes, publication and undo | `db` per machine, `snapshot`, `manifest`, `aside` (the rollback files of each process), `lock`; `pc`/`work` of each process; histories `torn`, `taken`, `lost`, `published` |
| `BatchCapture` | overlays, queue loop, worker | `cards`, `panel`, `loading` (the site), `mounted`, `selection`, `stage`, `queue`, `results` (overlay), `worker`, `stored` (session) |
| `RunLease` | the lease file of a repository | `lock`: free, unreadable, or who drives and whether it may write |
| `RunLedger` | the record of a run and what a call writes to it | no state: operators on a record |
| `AutoRun` (extends both) | orchestrator, executor, tool loop, preflight | `pc`, `run`, `mem` (each command's copy), `work` (its tool loop), `disk` (the files); `dispatched`, `spent`, `orphaned` record the paid calls |
| `MC*` | the instances TLC runs | values for constants, symmetry |
| `*Proofs` | the proofs about the module of that name; `JobMemoryProofs` is about the projection, `Promotion` and `HistoryImport` too, `RadarActionProofs` about `CandidateDecisions` and `DuplicateReview` | |

Granularity. A handler that runs without `await` in the only process that can be
concerned is one action. Where two processes meet (`AnalysisTasks`), a read and the
update that depends on it are two actions, and `loop` keeps the calls of one process
from overtaking each other where JavaScript would not let them. Where a transaction
works through a list and may be cut short (`CandidateIntake`), each item is an action
on a private copy. A model call is always two actions, and anything may happen between.
Where processes share files (`DatabaseSync`, `AutoRun`), every file operation that
another process may see is an action: creating, filling and removing a lock or lease,
each rename, each save. The extension's page has one thread, so a turn of the loop up
to its next `await` is one action of `BatchCapture`.
A refused request changes nothing and is not an action. Where a module's action takes
an input that the client chooses (a row version, a key, a depth, a target), the input
ranges over everything a client may have, stale values included.

`TaskLifecycle` is the abstract specification: a task moves from queued to
running to one of succeeded, failed and cancelled, may be queued again after failing,
and publishes a result exactly when it succeeds. `AnalysisTasks` implements it with
`phase <- [t |-> task[t].status]` and `published <- {r.task : r \in recs}`.

Abstractions. Texts, hashes and fingerprints are model values or the tuple they are a
function of, so two are equal exactly when the code's are (collisions aside). Ids are
positions in tables. Clocks are positions, except in `RadarActionLog` where two
entries may share a millisecond and the order is that of random ids (`SameInstant`).
In `FormalProfiles` a single variable `facts` stands for jobs, applications, feedback
and profile text, so that inputs of all layers move together when it moves. The
command receipts of the profile services are not kept: clients draw a new key for
every command and a repeated key writes nothing; keys are kept while a generation runs.

## 3. The runs

Every bound is a constant in the `.cfg`. `CHECK_DEADLOCK FALSE` throughout: the
bounds stop the models, and in the program nothing obliges a user to act again.

| Run (module) | Instance and bounds | Shows |
|---|---|---|
| `analysis_server` (`MCAnalysisTasks`) | one server, whose starts may scan or (as deployed) not, 3 inputs, 2 calls, 1 attempt by default, ceiling 2, 1 crash; fair | a live run can be cancelled; attempts equal claims and `supersedesAnalysisId` is a chain (`HistoryIsWhole`); an attempt a call waits for is settled unless the process dies (`AttemptsSettle`) |
| `analysis_shared` (`MCAnalysisTasks`) | server and script, 1 input with a recovery task, 3 calls, ceiling 3, 1 crash | inductive invariant; budget and one run per attempt (`CallsAreBudgeted`); refinement of `TaskLifecycle`; a run is settled by its owner |
| `intake` (`MCCandidateIntake`) | 2 sessions, 2 items each, 9 captures over 2 providers, 2 ids, 3 URLs, 2 fields, 3 forms of request, 1 fault | identities and tables sound, version history, an eligible item names its facts, tier-two identity unique, a commit happens once or not at all |
| `decisions` (`MCCandidateDecisions`) | 2 candidates (one changes), 2 contexts, 2 verdicts, 2 families and overrides, 1 place; in alternatives up to 5 log entries, 2 analyses, 1 stored batch | derived states are the last wish; reuse is fresh; decisions honoured; scope accounted for |
| `duplicates_rulings` (`MCDuplicateReview`) | 3 candidates, 2 windows, 4 rulings | the timeline chains, decisions stand |
| `jobmemory_writes` (`MCHistoryImport`) | 2 jobs, 2 resumes, 3 keys, 4 event types, 2 times, 2 applications, 4 events (3 where there is a resume), migrated starts; beside a session of up to 2 drafts, 2 edits, 2 event drafts | the log is whole; projection clean, a migrated application with its one seed; closing is final; a row version names its contents; imported as previewed |
| `promotion_writes` (`MCPromotion`) | 2 jobs, 2 applications, 2 versions, 2 promotions, 3 events, all depths, 5 of the 7 triggers (the other two are feedback like `hr_replied`) | promoted once and whole; no more than proven |
| `profiles_reviews` (`MCFormalProfiles`) | 2 concurrent generations, 2 facts, 2 drafts, 2 evidence entries, 1 change of facts; writes per layer in alternatives | profiles are sound (types, references accepted, gates hold); one open proposal per input; advice is fresh |
| `autorun` (`MCAutoRun`) | up to 3 commands, 2 runs, 14 calls, 1 repair cycle, 1 arbitration, up to 2 crashes; fair | the lease holds; calls are accounted for; records only grow; every command ends |
| `sync` (`MCDatabaseSync`) | 2 machines, 2 servers and a script, 2 times, up to 5 operations, 2 writes, 1 crash or 2 faults, in alternatives | references hold and runs are alone; a publication that fails leaves the old pair, whichever operation it is up to the removal of the first file put aside; nothing newer is lost |
| `batch_capture` (`MCBatchCapture`) | 3 jobs of which 2 look alike, 2 with links, batches of 2, up to 2 overlays, 4 user actions, 1 removed card, 1 fault, in alternatives; fair | one item at a time and true texts; complete unless a card moved; cancelled is silent; a batch ends |
| `batch_preview` (`MCBatchCapture`) | as above, a card may go | **violation** of `PreviewIsComplete` |

Why the bounds are enough. Races here are between two parties (two calls, windows,
tabs, generations, sessions, processes, overlays) about one row or file, with at most
one more event in between (a crash, a change of facts, a decision, a failing rename);
each instance has the two parties, the row and room for that event and for the retry
that follows. Three inputs are needed for the supersedes chain to have a middle; a
ceiling of 3 over a default of 1 for a retry to raise `max_attempts` twice; three keys
for a command, another command and the first again; three commands of `cc-auto` for one
that crashes, one that meets its lease, and one that resumes.

Several instances bound their counters in alternatives (`limit`, chosen in `Init`), so
that each is wide where it matters:

* `CandidateDecisions`, (decisions, analyses, batches, pairs of version and context that
  were active together): (5,0,0,3) for the log, (1,2,1,2) for reuse around a decision,
  (1,2,0,6), (1,1,1,6) and (0,2,1,6) for everything that moves.
* `FormalProfiles`, (job match, baseline, market, strategy, deletes): (3,0,0,0,0),
  (2,0,0,0,1), (2,0,1,0,0), (0,4,1,0,0), (0,0,5,0,0), (0,0,2,3,0): room in the layer under
  study for propose, accept, propose again, accept again or activate, beside the layer it
  rests on. Job-match and baseline versions as inputs of the market layer occur in the
  third and the fourth alternative only, and a baseline and a strategy are never both
  written.
* `HistoryImport`, (drafts, edits of one row, event drafts, events in the log when the
  session is made, events at most afterwards): none at all, which leaves job memory its
  full bounds; (2,2,2,0,0) and (2,1,0,1,0) for the session itself; (1,1,1,1,3) for commands
  and a confirmation that interleave.
* `DatabaseSync`: two sound databases with two writes; a machine without one and a
  failing file operation; a crash at any step; a database with a later schema; two failing
  operations, so that an undo, or what cleans up after a publication, fails too.
* `BatchCapture`: one overlay with four user actions and a fault; one with a card that
  goes and a fault; two overlays one after the other.
* `AutoRun`: one command through discovery, escalation, repair and arbitration with one
  retry; two commands over two runs with a preflight; three commands, two crashes and a
  resumption, routed (`MCResumed`) and not (`MCGuarded`).

Symmetry is used on calls, sessions, windows, keys, jobs and contexts in runs without
liveness; runs with a liveness property use none.

Fairness.

* `AnalysisTasks!FairSpec`: a call that holds the event loop runs on (JavaScript has no
  preemption), a model call answers or fails (the provider has a timeout and an abort
  signal), a stopped process is started again, and a recovery scan, which is a loop
  without `await`, ends. No start is obliged to scan: `recoverOnStartup` has no caller, and
  `StartAndRecover` is there for `RecoverOne` and for what a scan would break
  (`SettledByOwner`). Nothing obliges a user to start, cancel or retry.
* `AutoRun!FairSpec`: a command that runs takes its next step. Every wait in it has a
  timeout (requests to providers, the Claude command, verification commands). Crashes, new
  commands and the removal of a lease by hand are not fair.
* `BatchCapture!Spec`: timers fire, and the requests of the worker end. Neither the user nor
  the site is obliged to do anything: the wait for a panel ends by its own timeout, and a
  pause by the iteration limit of the loop.

Every property of a passing run has a mutant in `PROJECT.json`: an operator beside
the definition (marked "Mutated") that changes it as a plausible bug would, under
which TLC finds the property violated.

## 4. What is proved

For every value of the constants allowed by the `ASSUME`s, with all lemmas:

**`AnalysisTasksProofs`** (2921 obligations).
`InductiveInvariant == Spec => []IInv` with
`IInv == TypeOK /\ RecordIffSucceeded /\ CallsKnow`.
`RecordIffSucceeded` alone is not inductive: a pending call is about to overwrite a
row with a copy it read earlier, and only `CallsKnow` says what that copy can be (a
claim holds a queued copy without a result, a pending failure a failed one, and so
on). The step lemma has one lemma per action; `RowStep`, `CallStep`, `Assemble` reduce
each to the row and the call it touches. From it follow
`RecordsMatchTasks == Spec => []RecordIffSucceeded`,
`LifecycleRefined == Spec => ImplementsLifecycle` (initial states map to initial
states; `NextMoves` maps every step to a step of `TaskLifecycle` or a stutter), and
`TerminalRowsAreFinal == Spec => TerminalRowsStay`: no call, however late, in whatever
process, changes a cancelled or succeeded row.

Four more theorems are about the calls behind the rows. `AttemptsAreBudgeted`
(`CallsAreBudgeted`), `RunsStayCancellable` (`LiveRunIsCancellable`) and `OwnersSettle`
(`SettledByOwner`) assume `OneRecoverer == RecoveryWired => Clis = {}`: either the server
never scans, as it is wired today, beside any number of retry scripts, or a scanning
server has the file to itself. Without it `SettledByOwner` is false (section 5). `RunInv`
adds to `IInv` that a call past its claim works on a row that is still running its attempt
or is cancelled, is the only one of that task, is the one its registry names, and keeps its
process's event loop unless it awaits the model; that the row it carries is within the
budget; and that whoever scans has no call in progress. `OneCallRuns` says what a step of
one call leaves to all others, so each action is proved about its own call only.
`OneServerKeepsHistory == Spec => []HistoryIsWhole` assumes `ServerAlone == Clis = {}`; with
a second process it is false. There `HistoryInv` adds that what a cancellation or a result
has read is still so when it writes, since one event loop keeps everybody else out.

**`CandidateIntakeProofs`** (1949 obligations).
`InductiveInvariant == Spec => []IInv`: the tables and the private copy of a running
commit are both sound. The copy is part of the invariant because it becomes the
tables at `FinishCommit`; within one item, `AppendSnapshotSound`, `TouchSourceSound`,
`InsertNewVersionSound` and `CreateCandidateSound` follow the code's statements, each
stating what it preserves and `MaterializeItemSound` puts them together.
`VersionHistoryHolds` and five more theorems are its conjuncts.

Three theorems are about the answers: `EligibleNamesItsFactsHolds`, `TierTwoIsUniqueHolds`
and `SnapshotsMatchCommitHolds`, each `Spec => []` of the property. They rest on `LInv`,
the accounts of the tables and of a running commit's copy (`Accounts`): every outcome, of
a durable commit or of the items done so far, names a snapshot and a version that are
there and still carry what the outcome said (versions and snapshots are only added);
a session has the snapshots of its confirmed indices; a source's latest snapshot is the newest attributed to it. The
delicate one is the URL: that no other source has the URL of an item identified by it
alone is true when the item is done and false later, when a record id appears on the same
page. Inductive is that whatever version of another source carries that URL was created
after the item (`OthersAreLater`). `MaterializeItemKeeps` shows it for one item, and an
outcome that was right stays so in tables that have grown (`OldOutcomeKept`).

**`AutoRunProofs`** (3247 obligations). `LeaseIsExclusive == Spec => []LeaseHolds`, for any
runs, commands and crashes. The lease is rewritten in place, so while its holder rewrites
it nobody can read who that is: the invariant adds that the command in the middle of a
rewrite knows its run, that a lease that can be read names a command that drives or
crashed, that an unrouted behaviour has no lease, and that permission to write was granted
by the writer's own attempt.

`PaidCallsAreOnRecord` and `SavesLoseNothing` state `Spec => []CallsAreAccounted` and `Spec =>
LedgerGrows` under the hypothesis `~ResumeLive`: no run is resumed that a live command
drives. Without it both are false (section 5), so it is a hypothesis of the
theorems and no assumption of the module. Neither property is inductive, because a save writes
the whole copy: what it does to the file depends on what the command has not read since. The
invariant, `CallsInv`, says for every label how the copy and the file stand to each other
(`Copy`): equal wherever the copy is saved; in a loop, where the executor writes to
the file alone, equal but for the ledger that `Reload` fetches; at the end, with at
least the charges of the file. Beside that, every dispatched call is settled in a record,
under way, or was when its command crashed (`Kept`); calls are numbered without a gap
(`Known`), which makes the next number new; and a record has one repair too many only
with the strong model's request in it or past its last attempt (`Bounded`). It rests on the
invariant of the lease: two commands that prepared a call at once would give it
one number. The proof assumes that `None` is neither an attempt nor a record.

**`DatabaseSyncProofs`** (1208 obligations). `DatabasesAreSound == Spec => []IInv` needs
that the lock of a run that works is its own unless it was past its time
(`LockInv`). `PairIsWhole == Spec => []PairMatches` needs, for every stage of the one
process that publishes or undoes, what the files are now and what undoing would leave
(`PairInv`): each step of the undo leaves that as it is. It is claimed while `torn` is empty, that is
while no process died publishing, no two published at once, and neither an operation of the undo
nor the removal of the second file put aside failed since a publication last succeeded
alone; these failures do lose the pair (section 5).
`RowsAreKept == Spec => NothingNewerIsLost` follows from what merging does to one row.

**`JobMemoryProofs`** (4856 obligations) is about the job memory and what writes it. For
`JobMemory!Spec`: `VersionsTell == Spec => VersionNamesContents`, `CommandsAreOnce == Spec =>
[]KeysOnce`, `ReferencesHold == Spec => [](TypeOK /\ SuccessorsEnd)`, and `VoidedAreLeftAlone`.
Keys that the service derives (for the initial event, the replacement of a corrected one,
the audit of a write) are not looked up: they are free because the key they derive from
was looked up, and because an audit names a row version that is still to come
(`KeysTraced`). The invariant, `Whole`, adds what the projection relies on: a void names an
earlier event of its application that is not a void and that no other void names, an
application is voided exactly when its audit event is there (`EventsSound`), and successors
are within the job and end (`RowsSound`). That they end is said without counting steps: of
whatever applications one looks at, some one is not succeeded by another of them. A void
keeps this, because it names a successor that is not voided and so has none.

`ProjectionsAreClean == Spec => []ProjectionIsClean` and `EndsAreFinal == Spec =>
[]ClosedIsFinal` are about a fold over a sorted log of any length. The fold of the community
modules is a recursive function that has to be shown to exist; `FoldPasses` turns it into a
run of accumulators, one for each event, along which `RunEnds` and `RunIsClean` carry what
holds of every prefix: the process is closed exactly when a closing event has passed, the
first of them gave the outcome, and those after it are the ones reported. An application
has at most one seed, made when it was migrated, and no operation makes another (`SeededOnce`,
`SeedsAreAlone`), so the projection names one seed and never several. The sort is
`InOrder`: the event that has `k - 1` before it is the k-th. `OrderIsBusinessTime` shows that for
the relation of `compareBusinessTime` this is a sort: every event once, in that order.

For promotions beside all those commands:
`PromotionsAreOnceAndWhole == PromotionSpec => []PromotedWholeOnce` and
`PromotionsAreProven == PromotionSpec => ProgressIsProven`. The invariant adds that a row
created by a promotion says in its key which promotion, and that this promotion names it.

For an import beside them, of any number of drafts and notes: `ImportsLeaveTheLogWhole ==
ImportSpec => []LogIsWhole`, `ImportsAreAsPreviewed == ImportSpec => []ImportedAsPreviewed`,
`ImportsAreProjected == ImportSpec => [](ProjectionIsClean /\ ClosedIsFinal)` and
`ImportsKeepVersions == ImportSpec => VersionNamesContents`. `ImportInv` adds to `Whole` that
a tab which has read the session since its preview has read it as it stands
(`BundleIsRead`): nothing but the status and the version moves from then on; and that before
the confirmation no row and no event carries a key of an import (`MadeOfDrafts`). The
confirmation joins rows and events in one step; `FlattenGathers` says that what it joins is
what was made of each draft, in the order of the list, and `KeysApart` that no two drafts
make one key. The theorem about the import assumes, as the module does, that every draft has a
job of its own to make (`DraftJobs` is injective: the code draws a new id).

**`RadarActionProofs`** (2995 obligations). For `CandidateDecisions`:
`StateFollowsRequests == Spec => [](TypeOK /\ StateIsLastWish)`, whether or not two actions
may share a millisecond. `DecisionInv` adds that the listing order of the log is the order
of writing but for neighbours of one millisecond (`InOrder`) and that no two sets of a
family are in force (`OneInForce`), so that the set a revert finds as the newest is the
only one. `LogFollowsRequests` (`LogIsLastWish`) assumes `~SameInstant`: with two actions in one
millisecond the override in force need not be the last one asked for (section 5). There the
invariant says of the last override of a version that it carries what was asked last and
that nothing was withdrawn since (`RulingLogged`). `NothingIsRewritten == Spec =>
LogOnlyGrows` follows from what an insertion and a withdrawal do to a log (`AddsTo`).

`ReuseIsSafe == Spec => []ReuseIsFresh`: `SetBy` computes a set of recommendations from
the identities in a batch key and the analyses they name alone; `SetByIdentity` shows that
this is what the code computes, `SetStands` that it does not change as analyses are added, so
that every stored batch follows its key for good (`BatchesFollowKeys`). With it,
`AnswersHonourDecisions == Spec => []DecisionsHonoured` is about reused answers too.
`ScopesAreAccounted == Spec => []ScopeIsAccounted` counts: kind, candidate and version are
a strict order of the versions let through, in such an order the places are the numbers up
to the count, each taken once (`PlacesAreTaken`), and so are the first few of them.

For `DuplicateReview`, which writes the same table: `DecisionsAreTheUsers == ReviewSpec =>
DecisionsStand`; the invariant adds that a window only shows relations that are stored.
`TimelinesAreWhole == ReviewSpec => []TimelineIsWhole` assumes `~SameInstant`, and
`MaxRulings <= TimelineMax`: beyond that the page shows the first part only (section 5).
`TrailInv` says of the events themselves, without sorting them, that each replaces what the
one before it on the same relation left (`RulingsChain`); `AscendingExists` and
`AscendingIsWhole` then show that listing them oldest first is possible and leaves none out.

**`BatchCaptureProofs`** (1497 obligations). `SessionsAreTrue == Spec => []IInv`,
`SubmissionsAreWhole == Spec => []CompleteUnlessMoved` and `CancelledOverlaysAreSilent ==
Spec => CancelledIsSilent`, for any jobs, overlays, batch size and iterations, and whatever
the user, the site and the network do. `BatchInv` is about one overlay at a time: its loop
has worked off the first `k` items of its queue and no other, the next is in flight exactly
while it waits, and unless a card has gone each of the `k` has a result (`WorkedTo`); results
follow the queue (`ReadFrom`) and what is stored follows the results as far as the worker
has gone past them (`SentFrom`). `OverlayStep` says that an action of one overlay need only
be proved about that one.

**`FormalProfilesProofs`** (1748 obligations). `AdviceStaysFresh == Spec => AdviceIsFresh`,
`CitationsStand == Spec => []ReferencesAccepted` and `StrategiesStayWithin == Spec =>
[]GatesHold`, for any number of generations awaited at once. Nothing is assumed about the
drafts; the invariant says that the four states, and the copy of one in a tab, have the
shape of a state, and, beside the references of the baseline, that the market version in
force exists and that a strategy that is still proposed already has the window of the
version it names (`Windows`): acceptance only looks at that window. `CopyInv` says what a tab's copy
may bring back: where no state was ever stored there is no proposal, and while no profile was
deleted the copy is no newer than what is stored. `Moved(l)` says what a write may do to a layer, one lemma per operation shows it, and `MovedKeeps` draws all
conclusions from it.

`ProfilesStaySound == Spec => []ProfilesAreSound` and `NoQuestionTwice == Spec =>
[]OneOpenPerInput` rest on `RestInv`. It says of each stored state, and of the tab's copy,
that it is sound by itself (`SoundState`): each version was made of its own accepted
proposal, supersedes a version before it, has an id that tells its place, and is
marked active exactly when the state names it. That the copy is sound too is what makes a save
after a delete harmless; that ids tell their places makes the states after it distinguishable
from those before. `OneAsked` counts open proposals of a model and generations awaited together,
so that a generation that starts, and one that ends in a proposal, leave at most one per
input. It is not claimed for the job-match layer once a profile has been deleted, where
an old copy may bring an open proposal back beside one awaited.

Only model-checked: liveness under fairness (`AttemptsSettle`, `DrivenRunEnds`, `BatchEnds`).
Every invariant and every action property of the passing runs is stated by a theorem above.
Induction is done on numbers: a nonempty set of natural numbers has a least element
(`LeastNatural`, from the well-foundedness of `<`), and the proofs that need it argue by a
least counterexample; it is also how the recursive functions inside the community modules'
folds and `FlattenSeq` are shown to exist. The runs remain the check of the models
themselves, and of the properties of section 5, which the code does not keep.

## 5. Where code and documents part

One run, `batch_preview`, shows a violation. The other properties below are defined in the
modules and are left out of the runs because the code does not keep them; putting the name
in the place of the properties of the `.cfg` given (with the constants in brackets) makes
TLC print a trace. Paths are under the repository's root.

| Property | Module (cfg) | The code, and what is said |
|---|---|---|
| `PreviewIsComplete` | `BatchCapture` (run `batch_preview`) | a job whose card has gone is failed without a result and is missing from the preview (`batchRunner.ts:74`); comment `batchPayload.ts:8` |
| `RunningSettles` | `AnalysisTasks` (`analysis_server`) | `executor.ts:250` `recoverOnStartup` has no caller: after a crash the row stays `running`, cannot be started nor retried, and only a user who cancels it ends it; comment `:111`, v0.8-4 design, line 406 |
| `ApplicationBelongs` | `Promotion` (`promotion_writes`) | `promotionPlan.ts:129` checks job and application only when both are named; the comment at `:127` promises more |
| `AttemptsNeverDrop` | `AnalysisTasks` (`analysis_shared`) | `cancel` compares the status only (`executor.ts:235`) and writes its stale `attempt_count`; comment `analysisTaskRepository.ts:57` |
| `MaxAttemptsNeverWritten` | `AnalysisTasks` (`analysis_shared`) | `transition` writes `max_attempts` (`analysisTaskRepository.ts:175`); comment `:59` |
| `SettledByOwner` | `AnalysisTasks` (`analysis_shared`, `RecoveryWired = TRUE`) | a result is stored on the status alone (`executor.ts:183`); with recovery on start and a script running, an old attempt may settle a new one |
| `SupersedesIsAChain` | `AnalysisTasks` (`analysis_server`, a script in `Clis`) | the newest record is read outside the transaction (`analysisService.ts:147`); comment `:133` |
| `ExpiredIsRecorded` | `CandidateIntake` (`intake`) | the status written at `service.ts:504` is rolled back by the exception that follows; comment `:500` |
| `KnownFactsStay` | `CandidateIntake` (`intake`) | a known value is lost when another field moves (`materialChange.ts:94`); v0.8-3 design, line 283 |
| `TiersAgree` | `CandidateIntake` (`intake`) | a hit by record id skips the URL (`identityResolution.ts:51`); design, line 204 |
| `IgnoreHolds` | `CandidateDecisions` (`decisions`; in its MC module `MCSecondHit == {<<1, 1>>}` and `Limit(2, 1, 0, 6)` in `MCAll`) | ignoring a new version is absorbed by an ignore in force on an old one (`actionService.ts:115`); `recommendationContract.ts:11` |
| `OverrideUnblocks` | `CandidateDecisions` (`decisions`) | the projection reads the assessment, not the override (`recommendationProjection.ts:57`); `recommendationService.ts:35` |
| `LatestOverrideWins` | `CandidateDecisions` (`decisions`, `SameInstant = TRUE`) | entries of one millisecond are ordered by random id (`actionRepository.ts:42`); `ruleOverrideProjection.ts:27` |
| `EveryRevertIsBackfilled` | `CandidateDecisions` (`decisions`) | a second revert of one override leaves a revert that nothing names (`reviewService.ts:385`); `actionRepository.ts:14` |
| `ReusedBatchNamesContext` | `CandidateDecisions` (`decisions`) | the context is not part of the batch key (`recommendationBatchService.ts:175`); v0.8 design, line 827 |
| `RecheckAfterDecision` | `DuplicateReview` (`duplicates_rulings`) | a suspicion can be put to recheck (`duplicateAdjudicationService.ts:125`); comment `:111` |
| `DecisionShown` | `DuplicateReview` (`duplicates_rulings`, `TimelineMax = 2`) | the oldest 100 events are kept, not the newest (`reviewService.ts:268`); `:213` |
| `TimelineInOrder` | `DuplicateReview` (`duplicates_rulings`, `SameInstant = TRUE`) | as `LatestOverrideWins` (`reviewService.ts:267`) |
| `EventsMoveTheVersion` | `Promotion` (`promotion_writes`) | a promotion appends an event and keeps the row version (`promotionService.ts:314`); v0.7.0-b design, line 769 |
| `CreationIsRecorded` | `Promotion` (`promotion_writes`) | a promoted application has no `application_created` event (`promotionService.ts:276`); same design, line 691 |
| `AnswerNamesTarget` | `Promotion` (`promotion_writes`) | the key names no job (`promotionPlan.ts:96`); `:67` |
| `OneJobPerVersion` | `Promotion` (`promotion_writes`) | a second depth creates a second job (`promotionPlan.ts:109`); PRD v0.8, line 579 |
| `RejectedStaysRejected` | `FormalProfiles` (`profiles_reviews`) | generation looks for proposed ones only (`market-position/service.ts:122`, `strategy-window/service.ts:150`); release contract v0.7, line 100 |
| `LevelIsComputed` | `FormalProfiles` (`profiles_reviews`) | a market draft written or edited by hand keeps the level the client states; `market-position/service.ts:62`, `:254` |
| `NoDuplicateEvidence` | `FormalProfiles` (`profiles_reviews`, `Contents = {x, y}`) | accepting with an edit does not look for duplicates (`capability-baseline/service.ts:172`); `:105` |
| `GuardedCallsAreKept` | `AutoRun` (`autorun`) | a paid Claude call whose run then stops is lost when `finish` loads the calls of the file (`orchestrator.ts`); comment `orchestrator.ts:124` |
| `LedgerGrows`, `CallsAreAccounted` | `AutoRun` (`autorun`, `ResumeLive = TRUE`) | nothing refuses to resume a run that another command drives without a lease; each saves its own copy of the whole record. The runs assume that an operator resumes only what no live command drives |
| `FailureKeepsPair` | `DatabaseSync` (`sync`) | when the second file put aside cannot be removed (`exportSnapshot.ts:96`), the first is gone already and the undo restores a manifest without its snapshot; when an operation of the undo fails (`:99-104`), `finally` removes what was still aside (`:107-109`): the pair is torn or gone; v0.7.0-b design, line 637, and recovery runbook v0.7, line 82 |
| `NoSilentReplacement` | `DatabaseSync` (`sync`) | a corrupt database that could not be recovered is put away; the next start finds none and makes an empty one (`bootstrap.ts:48`); message at `:75` |

Also seen, without a property of their own:

* Duplicate review. The guard compares a status and not a version (`reviewService.ts:392`): a ruling
  made on a page that is old passes when the relation has left that status and come back.
* Profiles. An old tab's copy that is saved where no state is stored (after a deletion, or in a
  row made again without one) is taken as it is, with proposals made on inputs that have moved
  (`profileRepository.ts:29-32`); `AdviceIsFresh` exempts that write. Without the condition on `deletes`, `OneOpenPerInput` fails for job match,
  because storing an old copy of a deleted profile row brings its state version back
  (`profileRepository.ts:28-43`); job-match, market and baseline proposals are accepted
  without a second look at their input; a deferred proposal can never be decided again,
  while deferred evidence can.
* `cc-auto`. Resuming never looks at the pending call, although the technical design of
  v0.2.0 (lines 1089-1096) asks for it. The number of arbitrations is saved with the decision only, so a
  crash in between allows one more than configured. Permission to write stays assigned
  during verification and arbitration. The first resumption after a crash meets the stale
  lease and ends the run. The stage gate counts a repair without asking for the limit, hence the
  `+ 1` of `RepairsBounded`. The daily spend is read, added to and written by every command
  (`cli.ts:80`). The heartbeat is started in the preflight only, which is synchronous, so
  that it never fires; it is not modelled. `LeaseReturned` takes the removal of the file
  for granted: `releaseRunLease` swallows an error of it. A failing audit of changed files counts
  as changed files and goes on to verification.
* Sync. `app_meta` is overwritten by an import, so that a snapshot of schema 3 imported into a
  database of schema 2 makes every later export throw (`exportSnapshot.ts:46-51`), and `runSync` on a
  database of schema 3 always throws. Two processes that find the same stale lock may both
  work (`taken`). Routes and shutdown publish without the lock, and two at once, or a crash in
  the middle, may lose the pair or leave rollback files (`torn`). An export asks no doctor and may
  publish what it can read of a damaged database (`exportSnapshot.ts:29-57`). A snapshot is read table by
  table outside a transaction and may refer to rows it does not have. Rows of equal time never
  converge, and deletions do not travel.
* Batch capture. A batch left paused for 10 000 polls, about 33 minutes, is submitted incomplete
  (`batchRunner.ts:54`). Two jobs with the same title and salary whose panel has no link cannot be told apart.
  When the worker dies, the session it had begun stays behind and nobody is told.
* History import. An imported application may name an archived resume version. Two drafts
  marked as duplicates of each other are both skipped. Deletions carry no expected version, and
  deleting a draft clears the marks of its duplicates without moving their version. The page
  draws a new key for every confirmation, so one that is sent again is refused as finalised
  instead of answered by its receipt. One history imported in two sessions is imported twice.

## 6. Not modelled

Parts without a module, and why:

* Analysis provider, prompts, repair and validity rules; decision derivation and evidence
  rules; the extractors of the extension; the text, price and routing tables of `cc-auto`: pure
  functions of data. Where a modelled handler branches on one, its module has both branches.
* The Vue front end, most of the repository's lines: presentation over the HTTP routes. What a
  tab may have read before it writes is an input of the modelled commands.
* The funnel, the promotion trace, previews and summaries: they only read.
* Migrations: DDL run once at start. The constraints they create (unique indexes, foreign
  keys, append-only triggers) are guards of the modelled actions; the schemas V9 to V15 are retired by V16.
* Job-memory upgrade and host snapshot v3: tools an operator runs once, step by step. A crash
  between the upgrade's commit and its failure file (`realApply.ts:462`) leaves an upgraded
  database from which neither `apply` nor `resume` continues, and one between the two renames of
  the probe (`restoreArtifacts.ts:453`) leaves the candidate under the probe's name; no code
  goes on from there, and no property is claimed of it.
* Recovery audits, snapshot v2, release promotion, NovaWing, server entry and LLM routes,
  fixtures, evaluation and demonstrations: verification of files, adapters and wiring.

What the modules leave out of the parts they model:

* The wording of drafts, events, evidence and proposals; scores that only order what is
  recommended; contact channels and follow-up dates; labels of resume versions.
* `createTask` is modelled on its frozen input; how the input snapshot is assembled is not.
* One import session; a draft without a time counts as now.
* In `DatabaseSync` a row is its time and its machine, one row per table. The existence check
  and the rename that puts a file aside are one step, and a backup before an import is left out.
* In `BatchCapture` the panel changes at once, and a card root recycled for another job while it is clicked is not modelled.
* In `AutoRun` the classification of a task, what files were changed and what verification says are
  choices; the exception that ends the process when a record cannot be saved is a crash.

The modules that are proved about use no RECURSIVE operator; folds are those of the
community modules.
