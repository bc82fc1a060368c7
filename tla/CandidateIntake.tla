--------------------------- MODULE CandidateIntake ---------------------------
(***************************************************************************)
(* Radar's capture sessions and what committing them writes: snapshots,     *)
(* source records, candidates, candidate versions and source links          *)
(* (server/radar/service.ts and the pure decisions it calls).               *)
(*                                                                          *)
(* Every handler is one SQLite transaction of one process.  All are a       *)
(* single step here except commitSession, which works item by item on a     *)
(* private copy tx.work of the tables: it either publishes the copy or,     *)
(* when an item fails or the process dies, drops it.  While it runs no      *)
(* other handler does (the code is synchronous).  Ids are positions in the  *)
(* tables; 0 stands for NULL.                                               *)
(***************************************************************************)
EXTENDS Naturals, Sequences, FiniteSets, FiniteSetsExt

CONSTANTS
  Sessions,     \* ids of capture sessions
  Captures,     \* what the extension can add to a session (see Item)
  Requests,     \* bodies of a commit (see Request)
  Providers,    \* recruiting sites
  Exts,         \* record ids at a site (externalRecordId)
  Urls,         \* canonical job-detail URLs
  SiteOf,       \* the provider a canonical URL belongs to
  FieldNames,   \* the material fields
  Values,       \* known values of a field
  None,         \* null: no provider, no id, no identity URL, unknown field
  MaxItems,     \* MAX_PREVIEW_ITEMS_PER_SESSION
  MaxFaults     \* bound: commits cut short by an error or a crash

Facts == [FieldNames -> Values \cup {None}]
\* What normalizeCandidateFields makes of the recognised fields; it leaves an
\* ambiguous field unknown.
Reading == [facts : Facts, ambiguous : BOOLEAN]
Item == [provider : Providers \cup {None}, ext : Exts \cup {None},
         url : Urls \cup {None}, reading : Reading]

ASSUME NoneAssumption == None \notin Providers \cup Exts \cup Urls \cup Values \cup Sessions
ASSUME SiteAssumption == SiteOf \in [Urls -> Providers]
ASSUME CaptureAssumption == Captures \subseteq Item
\* confirmed: indexes in the order given, repetitions allowed; corrections:
\* new readings by index.
ASSUME RequestAssumption ==
  \A r \in Requests : /\ r.confirmed \in Seq(Nat \ {0}) /\ r.confirmed # <<>>
                      /\ DOMAIN r.corrections \subseteq Nat
                      /\ \A i \in DOMAIN r.corrections : r.corrections[i] \in Reading
ASSUME BoundAssumption == MaxItems \in Nat \ {0} /\ MaxFaults \in Nat

VARIABLES
  session,   \* radar_capture_sessions
  db,        \* the five tables a commit writes
  tx,        \* the commit in progress
  answered,  \* history: the answers to commits that reached the client
  refused,   \* history: sessions for which a handler reported "expired"
  faults     \* commits cut short so far

vars == <<session, db, tx, answered, refused, faults>>

Decisions == {"new_identity", "material_change", "no_change", "ambiguous_change",
              "extraction_regression", "identity_conflict"}
Outcome == [candidate : Nat, version : Nat, source : Nat, snapshot : Nat,
            decision : Decisions, eligible : BOOLEAN]
Snapshot == [session : Sessions, item : Item]
Source == [provider : Providers \cup {None}, ext : Exts \cup {None},
           url : Urls \cup {None}, latest : Nat]
Candidate == [source : Nat, active : Nat]
Version == [candidate : Nat, no : Nat, facts : Facts, supersedes : Nat, snapshot : Nat]
Tables == [snapshots : Seq(Snapshot), sources : Seq(Source), candidates : Seq(Candidate),
           versions : Seq(Version), links : SUBSET (Nat \X Nat)]

NoTables == [snapshots |-> <<>>, sources |-> <<>>, candidates |-> <<>>,
             versions |-> <<>>, links |-> {}]
NoTx == [session |-> None, request |-> None, todo |-> <<>>, items |-> <<>>,
         outcomes |-> <<>>, work |-> NoTables]
Absent == [status |-> "absent", items |-> <<>>, late |-> FALSE,
           request |-> None, outcomes |-> <<>>]

TypeOK ==
  /\ session \in [Sessions -> [status : {"absent", "preview", "committed", "cancelled", "expired"},
                               items : Seq(Item), late : BOOLEAN,
                               request : Requests \cup {None}, outcomes : Seq(Outcome)]]
  /\ db \in Tables
  /\ tx \in [session : Sessions \cup {None}, request : Requests \cup {None},
             todo : Seq(Nat), items : Seq(Item), outcomes : Seq(Outcome), work : Tables]
  /\ answered \subseteq [session : Sessions, request : Requests, outcomes : Seq(Outcome)]
  /\ refused \subseteq Sessions
  /\ faults \in Nat

Init ==
  /\ session = [s \in Sessions |-> Absent]
  /\ db = NoTables
  /\ tx = NoTx
  /\ answered = {}
  /\ refused = {}
  /\ faults = 0

-----------------------------------------------------------------------------
(* Identity: which source record, if any, a capture belongs to.             *)

ByProviderKey(d, item) ==
  {i \in DOMAIN d.sources : /\ d.sources[i].provider = item.provider
                            /\ d.sources[i].ext = item.ext}
ByProviderAndUrl(d, item) ==
  {i \in DOMAIN d.sources : /\ d.sources[i].provider = item.provider
                            /\ d.sources[i].url = item.url}

HasProviderKey(item) == item.provider # None /\ item.ext # None
HasIdentityUrl(item) ==
  item.provider # None /\ item.url # None /\ SiteOf[item.url] = item.provider

NewSource == [kind |-> "new_source", matched |-> 0]
Hits(hits) ==
  IF hits = {} THEN NewSource
  ELSE IF Cardinality(hits) = 1
       THEN [kind |-> "exact_existing", matched |-> CHOOSE i \in hits : TRUE]
       ELSE [kind |-> "identity_conflict", matched |-> 0]

\* Mutated: several hits, any one is taken.
ResolveIdentityAny(d, item) ==
  IF HasProviderKey(item) THEN Hits(ByProviderKey(d, item))
  ELSE IF ~ HasIdentityUrl(item) \/ ByProviderAndUrl(d, item) = {} THEN NewSource
  ELSE [kind |-> "exact_existing", matched |-> CHOOSE i \in ByProviderAndUrl(d, item) : TRUE]
\* A miss on the provider's key is a new source: the URL is not tried then.
ResolveIdentity(d, item) ==
  IF HasProviderKey(item) THEN Hits(ByProviderKey(d, item))
  ELSE IF HasIdentityUrl(item) THEN Hits(ByProviderAndUrl(d, item))
  ELSE NewSource

-----------------------------------------------------------------------------
(* What changed: material facts field by field.                             *)

Lost(old, new)    == {f \in FieldNames : old[f] # None /\ new[f] = None}
Forward(old, new) == {f \in FieldNames : new[f] # None /\ new[f] # old[f]}

MaterialChange(old, new) ==
  CASE old = new                                        -> "no_change"
    [] Lost(old, new) # {} /\ Forward(old, new) = {}    -> "extraction_regression"
    [] OTHER                                            -> "material_change"

NoFacts == [f \in FieldNames |-> None]

DecideCommit(kind, known, old, reading) ==
  IF kind = "identity_conflict" THEN "identity_conflict"
  ELSE IF kind = "new_source" \/ ~ known THEN "new_identity"
  ELSE IF reading.ambiguous THEN "ambiguous_change"
  ELSE MaterialChange(old, reading.facts)

\* Every capture of the extension is FULL_EVIDENCE, so the evidence gate is open.
AnalysisEligible(decision) == decision \in {"new_identity", "material_change"}

-----------------------------------------------------------------------------
(* Writing one item into the tables d.                                      *)

VersionsOf(d, c) == {v \in DOMAIN d.versions : d.versions[v].candidate = c}
NextVersionNo(d, c) ==
  IF VersionsOf(d, c) = {} THEN 1 ELSE Max({d.versions[v].no : v \in VersionsOf(d, c)}) + 1

SetActiveVersion(d, c, v) == [d EXCEPT !.candidates[c].active = v]
AppendVersion(d, c, facts, snap) ==
  [d EXCEPT !.versions = Append(@, [candidate |-> c, no |-> NextVersionNo(d, c), facts |-> facts,
                                    supersedes |-> d.candidates[c].active, snapshot |-> snap])]

\* Mutated: a reused version is not made active.
InsertNewVersionInactive(d, c, facts, snap) ==
  IF \E v \in VersionsOf(d, c) : d.versions[v].facts = facts
  THEN d ELSE SetActiveVersion(AppendVersion(d, c, facts, snap), c, Len(d.versions) + 1)
\* A version of c with the same facts (content hash) is reused, otherwise
\* appended; it becomes c's active version.
InsertNewVersion(d, c, facts, snap) ==
  LET same == {v \in VersionsOf(d, c) : d.versions[v].facts = facts}
  IN  IF same # {} THEN SetActiveVersion(d, c, CHOOSE v \in same : TRUE)
      ELSE SetActiveVersion(AppendVersion(d, c, facts, snap), c, Len(d.versions) + 1)

ByPrimarySource(d, src) == {c \in DOMAIN d.candidates : d.candidates[c].source = src}
AppendSnapshot(d, s, item) ==
  [d EXCEPT !.snapshots = Append(@, [session |-> s, item |-> item])]

\* An item that matches nothing to build on: its source (unless it matched
\* one), a candidate, the candidate's first version and the primary link.
CreateCandidate(d, matched, item, snap) ==
  LET src == IF matched = 0 THEN Len(d.sources) + 1 ELSE matched
      c   == Len(d.candidates) + 1
      d1  == IF matched # 0 THEN d
             ELSE [d EXCEPT !.sources = Append(@, [provider |-> item.provider, ext |-> item.ext,
                                                   url |-> item.url, latest |-> snap])]
      d2  == [d1 EXCEPT !.candidates = Append(@, [source |-> src, active |-> 0])]
      d3  == InsertNewVersion(d2, c, item.reading.facts, snap)
  IN  [d3 EXCEPT !.links = @ \cup {<<c, src>>}]

\* An existing source remembers the newest snapshot.
TouchSource(d, src, snap) ==
  IF src = 0 THEN d
  ELSE [d EXCEPT !.sources[src].latest = snap]

\* The candidate of a source, and the version its next item is compared to.
CandidateOf(d, src) == IF ByPrimarySource(d, src) = {} THEN 0
                       ELSE CHOOSE c \in ByPrimarySource(d, src) : TRUE
ActiveOf(d, c) == IF c = 0 THEN 0 ELSE d.candidates[c].active

Result(d, c, v, src, snap, decision) ==
  [tables |-> d,
   outcome |-> [candidate |-> c, version |-> v, source |-> src, snapshot |-> snap,
                decision |-> decision, eligible |-> AnalysisEligible(decision)]]

MaterializeItem(d, s, item) ==
  LET d1       == AppendSnapshot(d, s, item)
      snap     == Len(d1.snapshots)
      identity == ResolveIdentity(d1, item)
      src      == identity.matched
      c        == CandidateOf(d1, src)
      v        == ActiveOf(d1, c)
      decision == DecideCommit(identity.kind, v # 0,
                    IF v = 0 THEN NoFacts ELSE d1.versions[v].facts, item.reading)
      d2       == TouchSource(d1, src, snap)
      grown    == InsertNewVersion(d2, c, item.reading.facts, snap)
      new      == CreateCandidate(d2, src, item, snap)
      made     == Len(new.candidates)
  IN CASE decision = "identity_conflict" -> Result(d1, 0, 0, 0, snap, decision)
       [] decision = "new_identity"      ->
            Result(new, made, new.candidates[made].active, new.candidates[made].source, snap, decision)
       [] decision = "material_change"   -> Result(grown, c, grown.candidates[c].active, src, snap, decision)
       [] OTHER                          -> Result(d2, c, v, src, snap, decision)

-----------------------------------------------------------------------------
(* The handlers.                                                            *)

Idle == tx.session = None
Draftable(s) == session[s].status = "preview" /\ ~ session[s].late

CreateSession(s) ==
  /\ Idle
  /\ session[s].status = "absent"
  /\ session' = [session EXCEPT ![s] = [Absent EXCEPT !.status = "preview"]]
  /\ UNCHANGED <<db, tx, answered, refused, faults>>

AddItem(s, item) ==
  /\ Idle
  /\ Draftable(s)
  /\ Len(session[s].items) < MaxItems
  /\ session' = [session EXCEPT ![s].items = Append(@, item)]
  /\ UNCHANGED <<db, tx, answered, refused, faults>>

CancelSession(s) ==
  /\ Idle
  /\ Draftable(s)
  /\ session' = [session EXCEPT ![s].status = "cancelled"]
  /\ UNCHANGED <<db, tx, answered, refused, faults>>

\* The clock passes expiresAt.
TimePasses(s) ==
  /\ session[s].status = "preview" /\ ~ session[s].late
  /\ Idle
  /\ session' = [session EXCEPT ![s].late = TRUE]
  /\ UNCHANGED <<db, tx, answered, refused, faults>>

\* assertDraftable writes 'expired' and throws; the transaction around it
\* rolls the write back, so only the caller learns of it.
RefuseExpired(s) ==
  /\ Idle
  /\ session[s].status = "preview" /\ session[s].late
  /\ refused' = refused \cup {s}
  /\ UNCHANGED <<session, db, tx, answered, faults>>

ApplyCorrections(items, corrections) ==
  [i \in DOMAIN items |-> IF i \in DOMAIN corrections
                          THEN [items[i] EXCEPT !.reading = corrections[i]] ELSE items[i]]

\* commitSession up to its loop; an unknown correction index throws.
BeginCommit(s, request) ==
  /\ Idle
  /\ Draftable(s)
  /\ DOMAIN request.corrections \subseteq DOMAIN session[s].items
  /\ tx' = [session |-> s, request |-> request, todo |-> request.confirmed,
            items |-> ApplyCorrections(session[s].items, request.corrections),
            outcomes |-> <<>>, work |-> db]
  /\ UNCHANGED <<session, db, answered, refused, faults>>

CommitItem ==
  /\ ~ Idle
  /\ tx.todo # <<>>
  /\ Head(tx.todo) \in DOMAIN tx.items
  /\ LET done == MaterializeItem(tx.work, tx.session, tx.items[Head(tx.todo)])
     IN  tx' = [tx EXCEPT !.todo = Tail(@), !.work = done.tables,
                          !.outcomes = Append(@, done.outcome)]
  /\ UNCHANGED <<session, db, answered, refused, faults>>

\* Mutated: what was written before the error stays.
RollbackNothing == tx' = NoTx /\ db' = tx.work /\ UNCHANGED <<session, answered, refused>>
Rollback == tx' = NoTx /\ UNCHANGED <<session, db, answered, refused>>

UnknownIndex ==
  /\ ~ Idle
  /\ tx.todo # <<>>
  /\ Head(tx.todo) \notin DOMAIN tx.items
  /\ Rollback
  /\ UNCHANGED faults

\* A statement fails, or the process dies inside the transaction.
Fault ==
  /\ ~ Idle
  /\ faults < MaxFaults
  /\ Rollback
  /\ faults' = faults + 1

Answer(s, request, outcomes) ==
  answered' = answered \cup {[session |-> s, request |-> request, outcomes |-> outcomes]}

\* The commit becomes durable; its answer may be lost on the way.
FinishCommit ==
  /\ ~ Idle
  /\ tx.todo = <<>>
  /\ db' = tx.work
  /\ session' = [session EXCEPT ![tx.session] =
                   [@ EXCEPT !.status = "committed", !.items = tx.items,
                             !.request = tx.request, !.outcomes = tx.outcomes]]
  /\ tx' = NoTx
  /\ \/ Answer(tx.session, tx.request, tx.outcomes)
     \/ UNCHANGED answered
  /\ UNCHANGED <<refused, faults>>

\* Mutated: a second commit is answered whatever it asks for.
SameRequestAny(s, request) == TRUE
SameRequest(s, request) == session[s].request = request

\* A repeated commit is answered from the session; another one is refused
\* with COMMIT_CONFLICT.  (The requests stand for their hashes.)
ReplayCommit(s, request) ==
  /\ Idle
  /\ session[s].status = "committed"
  /\ SameRequest(s, request)
  /\ Answer(s, request, session[s].outcomes)
  /\ UNCHANGED <<session, db, tx, refused, faults>>

Next ==
  \/ \E s \in Sessions : \/ CreateSession(s)
                         \/ \E item \in Captures : AddItem(s, item)
                         \/ CancelSession(s)
                         \/ TimePasses(s)
                         \/ RefuseExpired(s)
                         \/ \E request \in Requests : BeginCommit(s, request)
                         \/ \E request \in Requests : ReplayCommit(s, request)
  \/ CommitItem
  \/ UnknownIndex
  \/ Fault
  \/ FinishCommit

Spec == Init /\ [][Next]_vars

-----------------------------------------------------------------------------
(* Properties.                                                              *)

Committed == {s \in Sessions : session[s].status = "committed"}
Outcomes == UNION {{session[s].outcomes[k] : k \in DOMAIN session[s].outcomes} : s \in Committed}

\* A committed session has one snapshot for each index it confirmed, and any
\* other session has none: a commit cut short leaves nothing behind, and a
\* repeated one adds nothing (commitSession).  A source record's latest snapshot
\* is the newest of those attributed to it (updateLatestSnapshot).
SnapshotsMatchCommit ==
  /\ \A s \in Sessions :
       Cardinality({i \in DOMAIN db.snapshots : db.snapshots[i].session = s})
         = IF s \in Committed THEN Len(session[s].request.confirmed) ELSE 0
  /\ \A i \in DOMAIN db.sources :
       LET own == {o.snapshot : o \in {x \in Outcomes : x.source = i}}
       IN  own # {} /\ db.sources[i].latest = Max(own)

\* All the answers a client gets about a session are those of one commit, the
\* durable one, whichever of them were lost (commitSession's replay).
AnswersAgree ==
  \A a \in answered : /\ session[a.session].status = "committed"
                      /\ a.request = session[a.session].request
                      /\ a.outcomes = session[a.session].outcomes

\* A provider's record id names one source record (resolveIdentity, tier 1).
OneSourcePerKeyIn(d) ==
  \A i, j \in DOMAIN d.sources :
    /\ HasProviderKey(d.sources[i])
    /\ d.sources[i].provider = d.sources[j].provider
    /\ d.sources[i].ext = d.sources[j].ext
    => i = j
OneSourcePerKey == OneSourcePerKeyIn(db)

\* Each source record is the primary source of exactly one candidate, and
\* linked to it and to no other (materializeItem).
OneCandidatePerSourceIn(d) ==
  /\ \A c \in DOMAIN d.candidates : d.candidates[c].source \in DOMAIN d.sources
  /\ \A i \in DOMAIN d.sources : \E c \in DOMAIN d.candidates : ByPrimarySource(d, i) = {c}
  /\ d.links = {<<c, d.candidates[c].source>> : c \in DOMAIN d.candidates}
OneCandidatePerSource == OneCandidatePerSourceIn(db)

\* The versions of a candidate are numbered 1, 2, ... without a gap or a
\* repetition, no two of them state the same facts, each but the first
\* supersedes an older one of the same candidate, and one of them is active
\* (insertNewVersion, nextVersionNo, the reuse of a historical version).
DistinctFacts(d) ==
  \A v, w \in DOMAIN d.versions :
    d.versions[v].candidate = d.versions[w].candidate /\ d.versions[v].facts = d.versions[w].facts
    => v = w
DistinctNumbers(d) ==
  \A v, w \in DOMAIN d.versions :
    d.versions[v].candidate = d.versions[w].candidate /\ d.versions[v].no = d.versions[w].no
    => v = w
NumberedFromOne(d) ==
  \A v \in DOMAIN d.versions :
    /\ d.versions[v].no \in 1 .. Len(d.versions)
    /\ d.versions[v].no # 1 =>
         \E w \in VersionsOf(d, d.versions[v].candidate) : d.versions[v].no = d.versions[w].no + 1
SupersedesOwn(d) ==
  \A v \in DOMAIN d.versions :
    IF d.versions[v].no = 1 THEN d.versions[v].supersedes = 0
    ELSE /\ d.versions[v].supersedes \in VersionsOf(d, d.versions[v].candidate)
         /\ d.versions[v].supersedes < v
ActiveIsOwn(d) ==
  /\ \A v \in DOMAIN d.versions : d.versions[v].candidate \in DOMAIN d.candidates
  /\ \A c \in DOMAIN d.candidates : d.candidates[c].active \in VersionsOf(d, c)
VersionHistoryIn(d) ==
  /\ DistinctFacts(d)
  /\ DistinctNumbers(d)
  /\ NumberedFromOne(d)
  /\ SupersedesOwn(d)
  /\ ActiveIsOwn(d)
VersionHistory == VersionHistoryIn(db)

\* A version that supersedes another was read unambiguously and adds to it or
\* corrects it: a reading that only lost facts never replaces one that had
\* them (decideCommit, classifyMaterialChange).
VersionsAreEarnedIn(d) ==
  \A v \in DOMAIN d.versions :
    /\ d.versions[v].snapshot \in DOMAIN d.snapshots
    /\ d.versions[v].facts = d.snapshots[d.versions[v].snapshot].item.reading.facts
    /\ d.versions[v].supersedes # 0 =>
         /\ Forward(d.versions[d.versions[v].supersedes].facts, d.versions[v].facts) # {}
         /\ ~ d.snapshots[d.versions[v].snapshot].item.reading.ambiguous
VersionsAreEarned == VersionsAreEarnedIn(db)

\* The inductive invariant: the tables are sound, and so is the copy a commit
\* works on; a session is open while it is being committed.
TablesInv(d) ==
  /\ OneSourcePerKeyIn(d)
  /\ OneCandidatePerSourceIn(d)
  /\ VersionHistoryIn(d)
  /\ VersionsAreEarnedIn(d)
IInv ==
  /\ TypeOK
  /\ TablesInv(db)
  /\ TablesInv(tx.work)
  /\ ~ Idle => session[tx.session].status = "preview" /\ tx.request \in Requests
  /\ AnswersAgree

\* An item the client is told may be analysed names a version that states
\* exactly the facts of its snapshot, also when that version was an old one
\* made active again (materializeItem's outcome).
EligibleNamesItsFacts ==
  \A o \in Outcomes : o.eligible =>
    /\ db.versions[o.version].candidate = o.candidate
    /\ db.versions[o.version].facts = db.snapshots[o.snapshot].item.reading.facts

\* The candidate a capture was attributed to is never ambiguous: when the URL
\* alone identifies it, no other source has that URL (resolveIdentity, tier 2).
TierTwoIsUnique ==
  \A o \in Outcomes :
    LET item == db.snapshots[o.snapshot].item
    IN  o.decision \notin {"new_identity", "identity_conflict"} /\ ~ HasProviderKey(item)
        => \A j \in DOMAIN db.sources \ {o.source} :
             db.sources[j].provider = item.provider /\ db.sources[j].url = item.url
             => db.versions[CHOOSE v \in VersionsOf(db, CandidateOf(db, j)) :
                              db.versions[v].no = 1].snapshot > o.snapshot

\* Documented, and not so: a session refused as expired is stored as expired
\* (the comment above assertDraftable).
ExpiredIsRecorded == \A s \in refused : session[s].status = "expired"

\* Documented, and not so: a new version never forgets a fact that was known
\* (the design's rule for a known value that becomes unknown).
KnownFactsStay ==
  \A v \in DOMAIN db.versions : db.versions[v].supersedes # 0 =>
    Lost(db.versions[db.versions[v].supersedes].facts, db.versions[v].facts) = {}

\* Documented, and not so: an item whose record id names one source and whose
\* URL names another is an identity conflict (the design's conflict table).
TiersAgree ==
  \A o \in Outcomes :
    LET item == db.snapshots[o.snapshot].item
    IN  o.decision \notin {"new_identity", "identity_conflict"} /\ HasProviderKey(item) /\ HasIdentityUrl(item)
        => \A j \in DOMAIN db.sources :
             (db.sources[j].provider = item.provider /\ db.sources[j].url = item.url)
             => \/ db.sources[o.source].url = item.url
                \/ db.versions[CHOOSE v \in VersionsOf(db, CandidateOf(db, j)) :
                                 db.versions[v].no = 1].snapshot > o.snapshot

=============================================================================
