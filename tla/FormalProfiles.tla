---------------------------- MODULE FormalProfiles ----------------------------
(***************************************************************************)
(* The four formal profiles, each of which rests on the ones before it:    *)
(* job match (G1, kept inside the profile row), capability baseline with   *)
(* its candidate evidence (G2), market position (G4) and strategy (G5).    *)
(*                                                                         *)
(* A layer has proposals, versions of which one is active, command         *)
(* receipts and a state version that every write must name.  Proposals     *)
(* are written by hand or by a model that is awaited: what the model was   *)
(* asked about, the input of the layer, may move meanwhile.  A user        *)
(* accepts (perhaps with changes), rejects or defers a proposal; acceptance *)
(* makes it the active version.  Everything but the await is one turn of   *)
(* the event loop over synchronous SQLite, so each handler is one step and *)
(* a generation is two.                                                    *)
(*                                                                         *)
(* A command that names another state version than the current one, or the *)
(* key of a receipt, changes nothing and is not a step; clients draw a new *)
(* key for every command, so a key is kept for running generations only.   *)
(***************************************************************************)
EXTENDS Naturals, Sequences, FiniteSets

CONSTANTS
  Keys,          \* idempotency keys of the generations that run at one time
  Facts,         \* what jobs, applications, feedback and the profile text say
  Payloads,      \* drafts of job match, market position and strategy
  Contents,      \* contents of candidate evidence, up to evidenceDedupeKey
  Levels,        \* evidence levels
  FactsLevel,    \* the level computed from the facts
  PayloadLevel,  \* the level a market draft states
  Permitted,     \* level -> strategy drafts that pass the gates of its window
  None,
  Limits,        \* bounds a behaviour may have: the writes of each layer, the deletes
  MaxEvidence, MaxFactChanges

ASSUME ProfilesAssumption ==
  /\ FactsLevel \in [Facts -> Levels]
  /\ PayloadLevel \in [Payloads -> Levels]
  /\ Permitted \in [Levels -> SUBSET Payloads]
  /\ None \notin Payloads \cup (Nat \X Nat)
  /\ IsFiniteSet(Contents)
  /\ {MaxEvidence, MaxFactChanges} \subseteq Nat

VARIABLES layer,       \* the state each layer stores
          evidence,    \* candidate_evidence, in the order recorded
          calls,       \* generations whose model call is awaited
          facts,
          changes,     \* how often the facts moved
          profile,     \* is there a row in profiles?
          deletes,     \* how often the row was deleted
          copy,        \* the job-match state a tab loaded with the profile
          limit        \* the bound of this behaviour, one of Limits

vars == <<layer, evidence, calls, facts, changes, profile, deletes, copy, limit>>

Layers == {"jobMatch", "baseline", "market", "strategy"}
EvidenceIds == 1..MaxEvidence

PayloadsOf(l) == IF l = "baseline" THEN SUBSET EvidenceIds ELSE Payloads

EmptyState == [stateVersion |-> 0, active |-> None, versions |-> << >>, proposals |-> << >>]

StateVersion(l) == layer[l].stateVersion
Proposals(l) == layer[l].proposals
Versions(l) == layer[l].versions

ActivePayload(l) ==
  IF layer[l].active = None THEN None
  ELSE LET i == CHOOSE i \in DOMAIN Versions(l) : Versions(l)[i].id = layer[l].active
       IN  Versions(l)[i].payload

Accepted == {e \in DOMAIN evidence : evidence[e].status = "accepted"}

\* What a layer is derived from; the fingerprint of it is compared by the code.
\* G1 and G2 look at the content of what is active, G4 and G5 at its id.
Input(l) ==
  CASE l = "jobMatch" -> [facts |-> facts, own |-> ActivePayload("jobMatch")]
    [] l = "baseline" -> [facts |-> facts, own |-> ActivePayload("baseline"),
                          jobMatch |-> ActivePayload("jobMatch"),
                          evidence |-> [e \in Accepted |-> evidence[e].content]]
    [] l = "market"   -> [facts |-> facts, jobMatch |-> layer["jobMatch"].active,
                          baseline |-> layer["baseline"].active, evidence |-> Accepted]
    [] l = "strategy" -> [facts |-> facts, jobMatch |-> layer["jobMatch"].active,
                          baseline |-> layer["baseline"].active, evidence |-> Accepted,
                          market |-> layer["market"].active]

\* G1 and G2 need the profile row, G5 an active market position.
Ready(l) == (l \in {"jobMatch", "baseline"} => profile) /\ (l = "strategy" => layer["market"].active # None)

\* The window of a strategy is fixed by the level the active market version states.
Window == PayloadLevel[ActivePayload("market")]

-----------------------------------------------------------------------------
(* Writing a layer: updateState / updateJobMatchProfile.                   *)

\* The model's bound.
MayWrite(l) == StateVersion(l) < limit[l]
MayDelete == deletes < limit.deletes

\* A write in the state version the command names.
Write(l, state) ==
  /\ MayWrite(l)
  /\ layer' = [layer EXCEPT ![l] = [state EXCEPT !.stateVersion = @ + 1]]

Proposal(l, payload, by, input) ==
  [status |-> "proposed", payload |-> payload, by |-> by, input |-> input,
   window |-> IF l = "strategy" THEN Window ELSE None, expired |-> FALSE]

WithProposal(l, proposal) == [layer[l] EXCEPT !.proposals = Append(@, proposal)]

\* assertEffectiveChange; the baseline service has no such check.
IsEffective(l, payload) == l = "baseline" \/ ActivePayload(l) # payload

\* assertBaselineReferencesExist and assertDraftPassesGates.
PassesGates(l, payload, window) ==
  /\ l = "baseline" => payload \subseteq Accepted
  /\ l = "strategy" => payload \in Permitted[window]

CreateManualProposal(l, payload) ==
  /\ Ready(l)
  /\ IsEffective(l, payload)
  /\ PassesGates(l, payload, IF l = "strategy" THEN Window ELSE None)
  /\ Write(l, WithProposal(l, Proposal(l, payload, "manual", Input(l))))
  /\ UNCHANGED <<evidence, calls, facts, changes, profile, deletes, copy, limit>>

-----------------------------------------------------------------------------
(* Generation: the model is asked, and answers later or never.             *)

OpenAiProposals(l, input) ==
  {i \in DOMAIN Proposals(l) :
     Proposals(l)[i].status = "proposed" /\ Proposals(l)[i].by = "ai" /\ Proposals(l)[i].input = input}

Busy == {c.key : c \in calls}
PendingOn(l, input) == {c \in calls : c.layer = l /\ c.input = input}

Call(l, kind, key) ==
  [layer |-> l, kind |-> kind, key |-> key, input |-> Input(l), expected |-> StateVersion(l)]

\* Mutated: a generation that is running is not looked for.
GenerateAlthoughPending(l, key) ==
  /\ Ready(l) /\ MayWrite(l)
  /\ key \notin Busy
  /\ l = "baseline" => Accepted # {}
  /\ l # "baseline" => OpenAiProposals(l, Input(l)) = {}
  /\ calls' = calls \cup {Call(l, "proposal", key)}
  /\ UNCHANGED <<layer, evidence, facts, changes, profile, deletes, copy, limit>>

\* An open or running generation on the same input is refused (G1) or reused (G4,
\* G5); the baseline service only recognises its own key.
GenerateProposal(l, key) ==
  /\ Ready(l) /\ MayWrite(l)
  /\ key \notin Busy
  /\ l = "baseline" => Accepted # {}
  /\ l # "baseline" => OpenAiProposals(l, Input(l)) = {} /\ PendingOn(l, Input(l)) = {}
  /\ calls' = calls \cup {Call(l, "proposal", key)}
  /\ UNCHANGED <<layer, evidence, facts, changes, profile, deletes, copy, limit>>

\* What a model may answer once the service has aligned it: a baseline keeps only
\* references to accepted evidence, a market draft states the computed level, and
\* a strategy must pass the gates.
Answers(l, input) ==
  CASE l = "baseline" -> SUBSET Accepted
    [] l = "market"   -> {p \in Payloads : PayloadLevel[p] = FactsLevel[input.facts]}
    [] l = "strategy" -> Permitted[Window]
    [] OTHER          -> Payloads

\* Mutated: the input is not compared again after the await.
FinishUnchecked(c) ==
  /\ c.kind = "proposal"
  /\ Ready(c.layer) /\ StateVersion(c.layer) = c.expected
  /\ \E payload \in Answers(c.layer, c.input) :
       Write(c.layer, WithProposal(c.layer, Proposal(c.layer, payload, "ai", c.input)))
  /\ calls' = calls \ {c}
  /\ UNCHANGED <<evidence, facts, changes, profile, deletes, copy, limit>>

FinishAiGeneration(c) ==
  /\ c.kind = "proposal"
  /\ Ready(c.layer) /\ Input(c.layer) = c.input /\ StateVersion(c.layer) = c.expected
  /\ \E payload \in Answers(c.layer, c.input) :
       Write(c.layer, WithProposal(c.layer, Proposal(c.layer, payload, "ai", c.input)))
  /\ calls' = calls \ {c}
  /\ UNCHANGED <<evidence, facts, changes, profile, deletes, copy, limit>>

\* The model fails, the client aborts, the process restarts, the answer is refused
\* or the input or the state version moved: nothing is written.
GenerationFails(c) ==
  /\ calls' = calls \ {c}
  /\ UNCHANGED <<layer, evidence, facts, changes, profile, deletes, copy, limit>>

-----------------------------------------------------------------------------
(* Decisions on proposals, and activation of a version.                    *)

\* assertProposalFresh: only the strategy service asks.
IsFresh(l, p) == l = "strategy" => Ready(l) /\ ~p.expired /\ p.input = Input(l)

Archived(versions) == [i \in DOMAIN versions |-> [versions[i] EXCEPT !.status = "archived"]]

\* nanoid: a version never has the id of one that was deleted with the profile.
NewVersion(l, i, payload) ==
  [id |-> <<IF l = "jobMatch" THEN deletes ELSE 0, Len(Versions(l)) + 1>>,
   status |-> "active", payload |-> payload, proposal |-> i,
   input |-> Proposals(l)[i].input, window |-> Proposals(l)[i].window,
   supersedes |-> layer[l].active]

WithVersion(l, i, payload) ==
  [layer[l] EXCEPT
     !.active = NewVersion(l, i, payload).id,
     !.versions = Append(Archived(@), NewVersion(l, i, payload)),
     !.proposals[i].status = "accepted"]

\* The payload is the one proposed or the user's own.
AcceptProposal(l, i, payload) ==
  /\ Proposals(l)[i].status = "proposed"
  /\ l = "jobMatch" => profile
  /\ IsFresh(l, Proposals(l)[i])
  /\ IsEffective(l, payload)
  /\ PassesGates(l, payload, Proposals(l)[i].window)
  /\ Write(l, WithVersion(l, i, payload))
  /\ UNCHANGED <<evidence, calls, facts, changes, profile, deletes, copy, limit>>

\* Rejecting or deferring; a deferred proposal cannot be decided again.
DecideProposal(l, i, status) ==
  /\ Proposals(l)[i].status = "proposed"
  /\ l = "jobMatch" => profile
  /\ Write(l, [layer[l] EXCEPT !.proposals[i].status = status])
  /\ UNCHANGED <<evidence, calls, facts, changes, profile, deletes, copy, limit>>

\* Mutated: the version that was active stays active.
ActivateBeside(l, n) ==
  /\ l = "jobMatch" => profile
  /\ layer[l].active # Versions(l)[n].id
  /\ Write(l, [layer[l] EXCEPT !.active = Versions(l)[n].id, !.versions[n].status = "active"])
  /\ UNCHANGED <<evidence, calls, facts, changes, profile, deletes, copy, limit>>

\* An earlier version again, whatever its input and window have become.
ActivateVersion(l, n) ==
  /\ l = "jobMatch" => profile
  /\ layer[l].active # Versions(l)[n].id
  /\ Write(l, [layer[l] EXCEPT
       !.active = Versions(l)[n].id,
       !.versions = [Archived(@) EXCEPT ![n].status = "active"]])
  /\ UNCHANGED <<evidence, calls, facts, changes, profile, deletes, copy, limit>>

\* A strategy window ends.
WindowExpires(i) ==
  /\ Proposals("strategy")[i].status = "proposed" /\ ~Proposals("strategy")[i].expired
  /\ layer' = [layer EXCEPT !["strategy"].proposals[i].expired = TRUE]
  /\ UNCHANGED <<evidence, calls, facts, changes, profile, deletes, copy, limit>>

-----------------------------------------------------------------------------
(* Candidate evidence, kept by the baseline service under its own version. *)

Live == {e \in DOMAIN evidence : evidence[e].status # "rejected"}
IsDuplicate(content) == \E e \in Live : evidence[e].content = content
Candidate(content) == [content |-> content, status |-> "proposed"]

CreateManualEvidence(content) ==
  /\ ~IsDuplicate(content)
  /\ Len(evidence) < MaxEvidence
  /\ Write("baseline", layer["baseline"])
  /\ evidence' = Append(evidence, Candidate(content))
  /\ UNCHANGED <<calls, facts, changes, profile, deletes, copy, limit>>

GenerateEvidence(key) ==
  /\ profile /\ MayWrite("baseline")
  /\ key \notin Busy
  /\ calls' = calls \cup {Call("baseline", "evidence", key)}
  /\ UNCHANGED <<layer, evidence, facts, changes, profile, deletes, copy, limit>>

\* Duplicates are dropped one by one, which leaves each new content once; the
\* input is not compared again.
FinishEvidenceGeneration(c) ==
  /\ c.kind = "evidence"
  /\ StateVersion("baseline") = c.expected
  /\ Write("baseline", layer["baseline"])
  /\ \E new \in SUBSET {x \in Contents : ~IsDuplicate(x)} :
       /\ Len(evidence) + Cardinality(new) <= MaxEvidence
       /\ \E added \in [1..Cardinality(new) -> new] :
            /\ {added[k] : k \in DOMAIN added} = new
            /\ evidence' = evidence \o [k \in DOMAIN added |-> Candidate(added[k])]
  /\ calls' = calls \ {c}
  /\ UNCHANGED <<facts, changes, profile, deletes, copy, limit>>

\* Only acceptance may change the content, and it does not look for duplicates.
DecideEvidence(e, status, content) ==
  /\ evidence[e].status \in {"proposed", "deferred"}
  /\ status # "accepted" => content = evidence[e].content
  /\ Write("baseline", layer["baseline"])
  /\ evidence' = [evidence EXCEPT ![e] = [content |-> content, status |-> status]]
  /\ UNCHANGED <<calls, facts, changes, profile, deletes, copy, limit>>

-----------------------------------------------------------------------------
(* What happens around the profiles.                                       *)

\* Jobs, applications, feedback or the profile text change.
FactsChange(f) ==
  /\ changes < MaxFactChanges
  /\ f # facts
  /\ facts' = f /\ changes' = changes + 1
  /\ UNCHANGED <<layer, evidence, calls, profile, deletes, copy, limit>>

\* GET /profile: the answer holds the job-match state.
LoadProfile ==
  /\ profile /\ MayDelete
  /\ copy' = layer["jobMatch"]
  /\ UNCHANGED <<layer, evidence, calls, facts, changes, profile, deletes, limit>>

\* DELETE /profile takes the job-match state with it.
DeleteProfile ==
  /\ profile /\ MayDelete
  /\ profile' = FALSE /\ deletes' = deletes + 1
  /\ layer' = [layer EXCEPT !["jobMatch"] = EmptyState]
  /\ UNCHANGED <<evidence, calls, facts, changes, copy, limit>>

\* PUT /profile keeps the job-match state of the row if it has one.  Where there is no
\* row, or one without a state, the body is stored as it comes, with the state the tab
\* holds, if any.  A row has a state once that was written, from version 1 on.
SaveProfile(body) ==
  /\ StateVersion("jobMatch") = 0
  /\ profile' = TRUE
  /\ layer' = [layer EXCEPT !["jobMatch"] = body]
  /\ UNCHANGED <<evidence, calls, facts, changes, deletes, copy, limit>>

-----------------------------------------------------------------------------
Init ==
  /\ layer = [l \in Layers |-> EmptyState]
  /\ evidence = << >>
  /\ calls = {}
  /\ facts \in Facts
  /\ changes = 0
  /\ profile = TRUE
  /\ deletes = 0
  /\ copy = EmptyState
  /\ limit \in Limits

Command(l) ==
  \/ \E key \in Keys : GenerateProposal(l, key)
  \/ \E payload \in PayloadsOf(l) :
       \/ CreateManualProposal(l, payload)
       \/ \E i \in DOMAIN Proposals(l) : AcceptProposal(l, i, payload)
  \/ \E i \in DOMAIN Proposals(l), status \in {"rejected", "deferred"} : DecideProposal(l, i, status)
  \/ \E n \in DOMAIN Versions(l) : ActivateVersion(l, n)

EvidenceCommand ==
  \/ \E key \in Keys : GenerateEvidence(key)
  \/ \E content \in Contents : CreateManualEvidence(content)
  \/ \E e \in DOMAIN evidence, content \in Contents, status \in {"accepted", "rejected", "deferred"} :
       DecideEvidence(e, status, content)

Next ==
  \/ \E l \in Layers : Command(l)
  \/ EvidenceCommand
  \/ \E c \in calls : FinishAiGeneration(c) \/ FinishEvidenceGeneration(c) \/ GenerationFails(c)
  \/ \E i \in DOMAIN Proposals("strategy") : WindowExpires(i)
  \/ \E f \in Facts : FactsChange(f)
  \/ LoadProfile \/ DeleteProfile
  \/ \E body \in {EmptyState, copy} : SaveProfile(body)

Spec == Init /\ [][Next]_vars

-----------------------------------------------------------------------------
(* Properties.                                                             *)

\* The stored states are the ones the schemas accept: the active pointer names the
\* one active version, ids are not repeated and a version supersedes an earlier
\* one.  A proposal is accepted exactly if one version was made of it.
StatesAreSound ==
  \A l \in Layers :
    LET versions == Versions(l)
        proposals == Proposals(l)
    IN  /\ {versions[n].id : n \in {n \in DOMAIN versions : versions[n].status = "active"}}
             = {layer[l].active} \ {None}
        /\ \A m, n \in DOMAIN versions : versions[m].id = versions[n].id => m = n
        /\ \A n \in DOMAIN versions :
             versions[n].supersedes \in {None} \cup {versions[m].id : m \in 1..(n - 1)}
        /\ \A i \in DOMAIN proposals :
             Cardinality({n \in DOMAIN versions : versions[n].proposal = i})
               = IF proposals[i].status = "accepted" THEN 1 ELSE 0

\* Types; a call knows a state version the layer had, unless the profile row was
\* deleted meanwhile.
TypeOK ==
  /\ DOMAIN layer = Layers
  /\ \A l \in Layers :
       /\ StateVersion(l) \in Nat
       /\ \A i \in DOMAIN Proposals(l) :
            /\ Proposals(l)[i].payload \in PayloadsOf(l)
            /\ Proposals(l)[i].status \in {"proposed", "accepted", "rejected", "deferred"}
       /\ \A n \in DOMAIN Versions(l) :
            /\ Versions(l)[n].payload \in PayloadsOf(l)
            /\ Versions(l)[n].proposal \in DOMAIN Proposals(l)
  /\ evidence \in Seq([content : Contents, status : {"proposed", "deferred", "accepted", "rejected"}])
  /\ limit \in Limits /\ facts \in Facts /\ changes \in Nat /\ deletes \in Nat /\ profile \in BOOLEAN
  /\ \A c \in calls : deletes = 0 => c.expected <= StateVersion(c.layer)
  /\ ~profile => layer["jobMatch"] = EmptyState
  /\ StatesAreSound

\* A baseline, proposed or formal, cites accepted evidence only: what is accepted
\* is never taken back (assertBaselineReferencesExist).
ReferencesAccepted ==
  /\ \A i \in DOMAIN Proposals("baseline") : Proposals("baseline")[i].payload \subseteq Accepted
  /\ \A n \in DOMAIN Versions("baseline") : Versions("baseline")[n].payload \subseteq Accepted

\* The model is not asked twice about one input: of the running generations and
\* the open proposals of a model at most one is on it (G4 and G5 designs, "no
\* repeated call").  Restoring a deleted profile defeats the state version, so for
\* job match this holds while the row is not deleted.
OneOpenPerInput ==
  \A l \in Layers \ {"baseline"} : (l = "jobMatch" => deletes = 0) =>
    LET open == {i \in DOMAIN Proposals(l) :
                   Proposals(l)[i].status = "proposed" /\ Proposals(l)[i].by = "ai"}
    IN  \A input \in {Proposals(l)[i].input : i \in open} \cup {c.input : c \in {d \in calls : d.layer = l}} :
          Cardinality(OpenAiProposals(l, input)) + Cardinality(PendingOn(l, input)) <= 1

\* What a model proposed is stored only while the input it was asked about is
\* still the input of the layer, and a strategy becomes formal only on the input
\* it was made for, whatever moved while it was awaited or under review.  A tab that
\* stores the job-match state it had loaded, after a deletion, is not a model: it brings
\* back proposals as they were (profileRepository.ts:28-43).
AdviceIsFresh ==
  [][\A l \in Layers : (l = "jobMatch" => layer'[l] # copy) =>
       /\ \A i \in DOMAIN Proposals(l)' \ DOMAIN Proposals(l) :
            Proposals(l)'[i].by = "ai" => Proposals(l)'[i].input = Input(l)
       /\ l = "strategy" =>
            \A n \in DOMAIN Versions(l)' \ DOMAIN Versions(l) : Versions(l)'[n].input = Input(l)]_vars

\* A formal strategy, edited or not, stays within the window that the market
\* version it names stands for (G5 design 9: editing does not bypass the gates).
GatesHold ==
  \A n \in DOMAIN Versions("strategy") :
    LET v == Versions("strategy")[n]
    IN  /\ v.payload \in Permitted[v.window]
        /\ \E m \in DOMAIN Versions("market") :
             /\ Versions("market")[m].id = v.input.market
             /\ PayloadLevel[Versions("market")[m].payload] = v.window

\* What is formal stays well founded: one version is active, a baseline cites accepted
\* evidence and a strategy stays within its window, in whatever order evidence, proposals
\* and versions are decided.
ProfilesAreSound == TypeOK /\ ReferencesAccepted /\ GatesHold


(* Documented, and not so: what the README's list of divergences refers to. *)

\* Release contract 100: a strategy that was rejected is not offered again.
RejectedStaysRejected ==
  \A l \in {"market", "strategy"} : \A i, j \in DOMAIN Proposals(l) :
    /\ i < j /\ Proposals(l)[i].status = "rejected"
    /\ Proposals(l)[i].by = "ai" /\ Proposals(l)[j].by = "ai"
      => Proposals(l)[i].input # Proposals(l)[j].input

\* market-position/service.ts:62 and :254: counts and conclusions are the server's own.
LevelIsComputed ==
  \A n \in DOMAIN Versions("market") :
    PayloadLevel[Versions("market")[n].payload] = FactsLevel[Versions("market")[n].input.facts]

\* capability-baseline/service.ts:105: no two live entries have the same source.
NoDuplicateEvidence ==
  \A d, e \in Live : evidence[d].content = evidence[e].content => d = e
=============================================================================
