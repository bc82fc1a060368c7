-------------------------- MODULE FormalProfilesProofs --------------------------
(***************************************************************************)
(* For any facts, drafts, evidence and number of generations: what a model *)
(* proposed is stored only on the input it was asked about, a strategy     *)
(* becomes formal only on the input it was made for and within its window, *)
(* and a baseline cites accepted evidence only.  The second part is about   *)
(* the stored states: each is one the schemas accept, and of one input a   *)
(* model is asked once.                                                    *)
(***************************************************************************)
EXTENDS FormalProfiles, FiniteSetTheorems, TLAPS

-----------------------------------------------------------------------------
(* The inductive invariant: the shape of what is stored, whatever drafts    *)
(* and inputs are, the references of the baseline, and the market version   *)
(* each strategy rests on.                                                  *)

IsLog(s) == s \in Seq({s[i] : i \in DOMAIN s})

ProposalFields == {"status", "payload", "by", "input", "window", "expired"}
VersionFields == {"id", "status", "payload", "proposal", "input", "window", "supersedes"}

IsState(s) ==
  /\ DOMAIN s = {"stateVersion", "active", "versions", "proposals"}
  /\ IsLog(s.proposals) /\ \A i \in DOMAIN s.proposals : DOMAIN s.proposals[i] = ProposalFields
  /\ IsLog(s.versions) /\ \A n \in DOMAIN s.versions : DOMAIN s.versions[n] = VersionFields

Evidence == [content : Contents, status : {"proposed", "deferred", "accepted", "rejected"}]

Shape ==
  /\ DOMAIN layer = Layers
  /\ \A l \in Layers : IsState(layer[l])
  /\ IsState(copy)
  /\ evidence \in Seq(Evidence)
  /\ \A c \in calls : c.layer \in Layers

\* The version in force is one of the layer's.
ActiveFound(s) == s.active # None => \E n \in DOMAIN s.versions : s.versions[n].id = s.active

\* A strategy, proposed or formal, has the window of the market version it names, which is
\* among the versions vs.
StandsFor(x, vs) ==
  \E m \in DOMAIN vs : vs[m].id = x.input.market /\ PayloadLevel[vs[m].payload] = x.window

Within(v, vs) == StandsFor(v, vs) /\ v.payload \in Permitted[v.window]

Windows ==
  /\ ActiveFound(layer["market"])
  /\ \A i \in DOMAIN layer["strategy"].proposals :
       StandsFor(layer["strategy"].proposals[i], layer["market"].versions)
  /\ \A n \in DOMAIN layer["strategy"].versions :
       Within(layer["strategy"].versions[n], layer["market"].versions)

ProfilesInv == Shape /\ ReferencesAccepted /\ Windows

\* What a step may add to a layer that it does not replace by a tab's copy.
Fresh ==
  \A l \in Layers : (l = "jobMatch" => layer'[l] # copy) =>
    /\ \A i \in DOMAIN Proposals(l)' \ DOMAIN Proposals(l) :
         Proposals(l)'[i].by = "ai" => Proposals(l)'[i].input = Input(l)
    /\ l = "strategy" =>
         \A n \in DOMAIN Versions(l)' \ DOMAIN Versions(l) : Versions(l)'[n].input = Input(l)

-----------------------------------------------------------------------------
(* Logs.                                                                    *)

LEMMA LogAppended ==
  ASSUME NEW s, IsLog(s), NEW x
  PROVE  /\ IsLog(Append(s, x))
         /\ DOMAIN Append(s, x) = DOMAIN s \cup {Len(s) + 1}
         /\ Len(s) + 1 \notin DOMAIN s
         /\ \A i \in DOMAIN s : Append(s, x)[i] = s[i]
         /\ Append(s, x)[Len(s) + 1] = x
<1> DEFINE S == {s[i] : i \in DOMAIN s}
           T == S \cup {x}
           t == Append(s, x)
<1>1. s \in Seq(S)
  BY DEF IsLog
<1> HIDE DEF S
<1>2. s \in Seq(T) /\ x \in T
  BY <1>1
<1> HIDE DEF T
<1>3. /\ t \in Seq(T)
      /\ DOMAIN t = DOMAIN s \cup {Len(s) + 1}
      /\ Len(s) + 1 \notin DOMAIN s
      /\ \A i \in DOMAIN s : t[i] = s[i]
      /\ t[Len(s) + 1] = x
  BY <1>2
<1>4. t \in Seq({t[i] : i \in DOMAIN t})
  BY <1>3
<1> QED BY <1>3, <1>4 DEF IsLog

\* Entries that are rewritten in place leave a log.
LEMMA LogRewritten ==
  ASSUME NEW s, IsLog(s), NEW t, t = [i \in DOMAIN s |-> t[i]]
  PROVE  IsLog(t) /\ DOMAIN t = DOMAIN s
<1> DEFINE T == {t[i] : i \in DOMAIN t}
<1>1. PICK n \in Nat : DOMAIN s = 1..n
  <2>1. Len(s) \in Nat /\ DOMAIN s = 1..Len(s)
    BY DEF IsLog
  <2> QED BY <2>1
<1>2. DOMAIN t = DOMAIN s
  OBVIOUS
<1>3. t \in [1..n -> T]
  BY <1>1
<1> HIDE DEF T
<1>4. t \in Seq(T)
  BY <1>1, <1>3
<1> QED BY <1>2, <1>4 DEF IsLog, T

LEMMA OneRewritten ==
  ASSUME NEW s, IsLog(s), NEW i, NEW x
  PROVE  IsLog([s EXCEPT ![i] = x]) /\ DOMAIN [s EXCEPT ![i] = x] = DOMAIN s
<1> DEFINE t == [s EXCEPT ![i] = x]
           T == {t[j] : j \in DOMAIN t}
<1>1. PICK n \in Nat : DOMAIN s = 1..n
  <2>1. Len(s) \in Nat /\ DOMAIN s = 1..Len(s)
    BY DEF IsLog
  <2> QED BY <2>1
<1>2. DOMAIN t = DOMAIN s
  OBVIOUS
<1>3. t \in [1..n -> T]
  BY <1>1
<1> HIDE DEF t, T
<1>4. t \in Seq(T)
  BY <1>1, <1>3
<1> QED BY <1>2, <1>4 DEF IsLog, T, t

-----------------------------------------------------------------------------
(* What a write does to a layer.                                            *)

SameDraft(p, q) == q.payload = p.payload /\ q.input = p.input /\ q.window = p.window

SameVersion(v, w) == SameDraft(v, w) /\ w.id = v.id

Moved(l) ==
  /\ DOMAIN layer' = Layers
  /\ \A m \in Layers : m # l => layer'[m] = layer[m]
  /\ IsState(layer'[l])
  /\ DOMAIN layer[l].versions \subseteq DOMAIN layer'[l].versions
  /\ l = "market" => ActiveFound(layer'[l])
  /\ \A i \in DOMAIN layer'[l].proposals :
       IF i \in DOMAIN layer[l].proposals
       THEN SameDraft(layer[l].proposals[i], layer'[l].proposals[i])
       ELSE /\ layer'[l].proposals[i].by = "ai" => layer'[l].proposals[i].input = Input(l)
            /\ l = "baseline" => layer'[l].proposals[i].payload \subseteq Accepted
            /\ l = "strategy" => StandsFor(layer'[l].proposals[i], layer["market"].versions)
  /\ \A n \in DOMAIN layer'[l].versions :
       IF n \in DOMAIN layer[l].versions
       THEN SameVersion(layer[l].versions[n], layer'[l].versions[n])
       ELSE /\ l = "strategy" => layer'[l].versions[n].input = Input(l)
            /\ l = "baseline" => layer'[l].versions[n].payload \subseteq Accepted
            /\ l = "strategy" => Within(layer'[l].versions[n], layer["market"].versions)

LEMMA MovedKeeps ==
  ASSUME ProfilesInv, NEW l \in Layers, Moved(l),
         Accepted \subseteq Accepted', evidence' \in Seq(Evidence), copy' = copy, calls' \subseteq calls
  PROVE  ProfilesInv' /\ Fresh
<1>1. Shape'
  BY DEF ProfilesInv, Shape, Moved
<1>2. Fresh
  BY DEF Fresh, Moved, Proposals, Versions
<1>3. ReferencesAccepted'
  <2> DEFINE old == layer["baseline"]
             now == layer'["baseline"]
  <2>1. /\ \A i \in DOMAIN old.proposals : old.proposals[i].payload \subseteq Accepted
        /\ \A n \in DOMAIN old.versions : old.versions[n].payload \subseteq Accepted
    BY DEF ProfilesInv, ReferencesAccepted, Proposals, Versions
  <2>2. /\ \A i \in DOMAIN now.proposals : now.proposals[i].payload \subseteq Accepted
        /\ \A n \in DOMAIN now.versions : now.versions[n].payload \subseteq Accepted
    <3>1. CASE l = "baseline"
      BY <2>1, <3>1 DEF Moved, SameVersion, SameDraft
    <3>2. CASE l # "baseline"
      BY <2>1, <3>2 DEF Moved, Layers
    <3> QED BY <3>1, <3>2
  <2> QED BY <2>2 DEF ReferencesAccepted, Proposals, Versions
<1>4. Windows'
  <2> DEFINE vs  == layer["market"].versions
             ws  == layer'["market"].versions
             old == layer["strategy"]
             now == layer'["strategy"]
  <2>1. /\ ActiveFound(layer["market"])
        /\ \A i \in DOMAIN old.proposals : StandsFor(old.proposals[i], vs)
        /\ \A n \in DOMAIN old.versions : Within(old.versions[n], vs)
    BY DEF ProfilesInv, Windows
  <2>2. CASE l = "strategy"
    <3>1. layer'["market"] = layer["market"]
      BY <2>2 DEF Moved, Layers
    <3>2. \A i \in DOMAIN now.proposals : StandsFor(now.proposals[i], vs)
      BY <2>1, <2>2 DEF Moved, SameVersion, SameDraft, StandsFor
    <3>3. \A n \in DOMAIN now.versions : Within(now.versions[n], vs)
      BY <2>1, <2>2 DEF Moved, SameVersion, SameDraft, StandsFor, Within
    <3> QED BY <2>1, <3>1, <3>2, <3>3 DEF Windows
  <2>3. CASE l # "strategy"
    <3>1. now = old
      BY <2>3 DEF Moved, Layers
    <3>2. ActiveFound(layer'["market"])
      <4>1. CASE l = "market"
        BY <4>1 DEF Moved
      <4>2. CASE l # "market"
        BY <2>1, <4>2 DEF Moved, Layers
      <4> QED BY <4>1, <4>2
    <3>3. \A m \in DOMAIN vs : m \in DOMAIN ws /\ ws[m].id = vs[m].id /\ ws[m].payload = vs[m].payload
      <4>1. CASE l = "market"
        BY <4>1 DEF Moved, SameVersion, SameDraft
      <4>2. CASE l # "market"
        BY <4>2 DEF Moved, Layers
      <4> QED BY <4>1, <4>2
    <3>4. \A i \in DOMAIN old.proposals : StandsFor(old.proposals[i], ws)
      BY <2>1, <3>3 DEF StandsFor
    <3>5. \A n \in DOMAIN old.versions : Within(old.versions[n], ws)
      BY <2>1, <3>3 DEF StandsFor, Within
    <3> QED BY <3>1, <3>2, <3>4, <3>5 DEF Windows
  <2> QED BY <2>2, <2>3
<1> QED BY <1>1, <1>2, <1>3, <1>4 DEF ProfilesInv

\* A write puts the state it is given in the place of the layer's, under a new version.
LEMMA WrittenState ==
  ASSUME Shape, NEW l \in Layers, NEW s, IsState(s), Write(l, s)
  PROVE  /\ DOMAIN layer' = Layers
         /\ \A m \in Layers : m # l => layer'[m] = layer[m]
         /\ layer'[l].proposals = s.proposals
         /\ layer'[l].versions = s.versions
         /\ layer'[l].active = s.active
         /\ IsState(layer'[l])
<1> DEFINE t == [s EXCEPT !.stateVersion = @ + 1]
<1>1. /\ DOMAIN t = DOMAIN s /\ t.proposals = s.proposals /\ t.versions = s.versions
      /\ t.active = s.active
  BY DEF IsState
<1>2. layer' = [layer EXCEPT ![l] = t]
  BY DEF Write
<1> HIDE DEF t
<1> QED BY <1>1, <1>2 DEF Shape, IsState

\* The window of a new strategy is that of the market version in force.
LEMMA WindowFound ==
  ASSUME ActiveFound(layer["market"]), Ready("strategy"), NEW p,
         p.window = Window, p.input = Input("strategy")
  PROVE  StandsFor(p, layer["market"].versions)
<1> DEFINE vs == layer["market"].versions
           m  == CHOOSE i \in DOMAIN vs : vs[i].id = layer["market"].active
<1>1. layer["market"].active # None
  BY DEF Ready
<1>2. m \in DOMAIN vs /\ vs[m].id = layer["market"].active
  BY <1>1 DEF ActiveFound
<1>3. ActivePayload("market") = vs[m].payload
  BY <1>1 DEF ActivePayload, Versions
<1>4. p.input.market = layer["market"].active
  BY DEF Input
<1> HIDE DEF vs, m
<1>5. PayloadLevel[vs[m].payload] = p.window
  BY <1>3 DEF Window
<1> QED BY <1>2, <1>4, <1>5 DEF StandsFor, vs

\* A proposal is added that rests on the present input, or is the user's.
LEMMA ProposalKeeps ==
  ASSUME ProfilesInv, NEW l \in Layers, NEW payload, NEW by, NEW input,
         input = Input(l), Ready(l),
         l = "baseline" => payload \subseteq Accepted,
         Write(l, WithProposal(l, Proposal(l, payload, by, input))),
         UNCHANGED <<evidence, copy>>, calls' \subseteq calls
  PROVE  ProfilesInv' /\ Fresh
<1> DEFINE p == Proposal(l, payload, by, input)
           s == WithProposal(l, p)
<1>1. /\ DOMAIN p = ProposalFields /\ p.payload = payload /\ p.by = by /\ p.input = input
      /\ l = "strategy" => p.window = Window
  BY DEF Proposal, ProposalFields
<1> HIDE DEF p
<1>9. l = "strategy" => StandsFor(p, layer["market"].versions)
  BY <1>1, WindowFound DEF ProfilesInv, Windows
<1>2. IsState(layer[l]) /\ IsLog(layer[l].proposals)
  BY DEF ProfilesInv, Shape, IsState
<1>3. /\ DOMAIN s = DOMAIN layer[l]
      /\ s.proposals = Append(layer[l].proposals, p)
      /\ s.versions = layer[l].versions
      /\ s.active = layer[l].active
  BY <1>2 DEF WithProposal, IsState
<1> HIDE DEF s
<1>4. /\ IsLog(s.proposals)
      /\ DOMAIN s.proposals = DOMAIN layer[l].proposals \cup {Len(layer[l].proposals) + 1}
      /\ \A i \in DOMAIN layer[l].proposals : s.proposals[i] = layer[l].proposals[i]
      /\ s.proposals[Len(layer[l].proposals) + 1] = p
  BY <1>2, <1>3, LogAppended
<1>5. IsState(s)
  BY <1>1, <1>2, <1>3, <1>4 DEF IsState
<1>6. Write(l, s)
  BY DEF s, p
<1>7. Moved(l)
  <2>1. /\ DOMAIN layer' = Layers
        /\ \A m \in Layers : m # l => layer'[m] = layer[m]
        /\ layer'[l].proposals = s.proposals /\ layer'[l].versions = layer[l].versions
        /\ layer'[l].active = layer[l].active
        /\ IsState(layer'[l])
    BY <1>3, <1>5, <1>6, WrittenState DEF ProfilesInv
  <2>2. l = "market" => ActiveFound(layer'[l])
    BY <2>1 DEF ProfilesInv, Windows, ActiveFound
  <2>3. \A n \in DOMAIN layer[l].versions : SameVersion(layer[l].versions[n], layer[l].versions[n])
    BY DEF SameVersion, SameDraft
  <2>4. \A i \in DOMAIN layer[l].proposals : SameDraft(layer[l].proposals[i], s.proposals[i])
    BY <1>4 DEF SameDraft
  <2> QED BY <1>1, <1>4, <1>9, <2>1, <2>2, <2>3, <2>4 DEF Moved
<1>8. Accepted \subseteq Accepted' /\ evidence' \in Seq(Evidence)
  BY DEF Accepted, ProfilesInv, Shape
<1> QED BY <1>7, <1>8, MovedKeeps

\* One list of proposals proposes what another does.
SameProposals(ps, qs) ==
  /\ IsLog(qs) /\ DOMAIN qs = DOMAIN ps
  /\ \A j \in DOMAIN ps : DOMAIN qs[j] = ProposalFields /\ SameDraft(ps[j], qs[j])

\* A proposal whose status is set, or whose window ends, keeps what it proposes.
LEMMA ProposalMarked ==
  ASSUME NEW s, IsState(s), NEW i \in DOMAIN s.proposals,
         NEW p, DOMAIN p = ProposalFields, SameDraft(s.proposals[i], p),
         NEW qs, qs = [s.proposals EXCEPT ![i] = p]
  PROVE  SameProposals(s.proposals, qs)
<1>1. IsLog(s.proposals) /\ \A j \in DOMAIN s.proposals : DOMAIN s.proposals[j] = ProposalFields
  BY DEF IsState
<1>2. IsLog(qs) /\ DOMAIN qs = DOMAIN s.proposals
  BY <1>1, OneRewritten
<1>3. \A j \in DOMAIN s.proposals : qs[j] = IF j = i THEN p ELSE s.proposals[j]
  OBVIOUS
<1>4. \A j \in DOMAIN s.proposals : SameDraft(s.proposals[j], s.proposals[j])
  BY DEF SameDraft
<1> QED BY <1>1, <1>2, <1>3, <1>4 DEF SameProposals

\* Versions that are archived keep their payload.
LEMMA VersionsArchived ==
  ASSUME NEW vs, IsLog(vs), \A n \in DOMAIN vs : DOMAIN vs[n] = VersionFields
  PROVE  /\ IsLog(Archived(vs)) /\ DOMAIN Archived(vs) = DOMAIN vs
         /\ \A n \in DOMAIN vs : /\ DOMAIN Archived(vs)[n] = VersionFields
                                 /\ SameVersion(vs[n], Archived(vs)[n])
<1>1. Archived(vs) = [n \in DOMAIN vs |-> Archived(vs)[n]]
  BY DEF Archived
<1>2. \A n \in DOMAIN vs : Archived(vs)[n] = [vs[n] EXCEPT !.status = "archived"]
  BY DEF Archived
<1>3. IsLog(Archived(vs)) /\ DOMAIN Archived(vs) = DOMAIN vs
  BY <1>1, LogRewritten
<1>4. \A n \in DOMAIN vs : /\ DOMAIN Archived(vs)[n] = VersionFields
                           /\ SameVersion(vs[n], Archived(vs)[n])
  BY <1>2 DEF VersionFields, SameVersion, SameDraft
<1> QED BY <1>3, <1>4

\* A decision on a proposal of a layer.
LEMMA DecisionKeeps ==
  ASSUME ProfilesInv, NEW l \in Layers, NEW i \in DOMAIN Proposals(l), NEW status,
         DecideProposal(l, i, status)
  PROVE  ProfilesInv' /\ Fresh
<1> DEFINE ps == [layer[l].proposals EXCEPT ![i].status = status]
           s  == [layer[l] EXCEPT !.proposals[i].status = status]
<1>1. IsState(layer[l]) /\ i \in DOMAIN layer[l].proposals
  BY DEF ProfilesInv, Shape, Proposals
<1>2. /\ IsLog(ps) /\ DOMAIN ps = DOMAIN layer[l].proposals
      /\ \A j \in DOMAIN ps : DOMAIN ps[j] = ProposalFields /\ SameDraft(layer[l].proposals[j], ps[j])
  <2> DEFINE p == [layer[l].proposals[i] EXCEPT !.status = status]
  <2>1. DOMAIN p = ProposalFields /\ SameDraft(layer[l].proposals[i], p)
    BY <1>1 DEF IsState, ProposalFields, SameDraft
  <2>2. ps = [layer[l].proposals EXCEPT ![i] = p]
    OBVIOUS
  <2> HIDE DEF ps, p
  <2>3. SameProposals(layer[l].proposals, ps)
    BY <1>1, <2>1, <2>2, ProposalMarked
  <2> QED BY <2>3 DEF SameProposals
<1>3. /\ DOMAIN s = DOMAIN layer[l] /\ s.proposals = ps /\ s.versions = layer[l].versions
      /\ s.active = layer[l].active
  BY <1>1 DEF IsState
<1>4. Write(l, s) /\ UNCHANGED <<evidence, calls, copy>>
  BY DEF DecideProposal
<1> HIDE DEF s, ps
<1>5. IsState(s)
  BY <1>1, <1>2, <1>3 DEF IsState
<1>6. Moved(l)
  BY <1>2, <1>3, <1>4, <1>5, WrittenState DEF Moved, ProfilesInv, Windows, ActiveFound, SameVersion, SameDraft
<1>7. Accepted \subseteq Accepted' /\ evidence' \in Seq(Evidence)
  BY <1>4 DEF Accepted, ProfilesInv, Shape
<1> QED BY <1>4, <1>6, <1>7, MovedKeeps

\* A version that is activated again.
LEMMA ActivationKeeps ==
  ASSUME ProfilesInv, NEW l \in Layers, NEW n \in DOMAIN Versions(l), ActivateVersion(l, n)
  PROVE  ProfilesInv' /\ Fresh
<1> DEFINE old == Archived(layer[l].versions)
           v   == [old[n] EXCEPT !.status = "active"]
           vs  == [old EXCEPT ![n] = v]
           s   == [layer[l] EXCEPT !.active = Versions(l)[n].id,
                                   !.versions = [Archived(@) EXCEPT ![n].status = "active"]]
<1>1. IsState(layer[l]) /\ n \in DOMAIN layer[l].versions
  BY DEF ProfilesInv, Shape, Versions
<1>2. /\ IsLog(old) /\ DOMAIN old = DOMAIN layer[l].versions
      /\ \A m \in DOMAIN old : /\ DOMAIN old[m] = VersionFields
                               /\ SameVersion(layer[l].versions[m], old[m])
  BY <1>1, VersionsArchived DEF IsState
<1>3. /\ DOMAIN s = DOMAIN layer[l] /\ s.proposals = layer[l].proposals /\ s.versions = vs
      /\ s.active = layer[l].versions[n].id
  BY <1>1 DEF IsState, Versions
<1>4. Write(l, s) /\ UNCHANGED <<evidence, calls, copy>>
  BY DEF ActivateVersion
<1> HIDE DEF s, old
<1>5. DOMAIN v = VersionFields /\ SameVersion(layer[l].versions[n], v)
  BY <1>1, <1>2 DEF VersionFields, SameVersion, SameDraft
<1> HIDE DEF v
<1>6. /\ IsLog(vs) /\ DOMAIN vs = DOMAIN layer[l].versions
      /\ \A m \in DOMAIN vs : /\ DOMAIN vs[m] = VersionFields
                              /\ SameVersion(layer[l].versions[m], vs[m])
  <2>1. IsLog(vs) /\ DOMAIN vs = DOMAIN layer[l].versions
    BY <1>2, OneRewritten
  <2>2. \A m \in DOMAIN old : vs[m] = IF m = n THEN v ELSE old[m]
    BY <1>2
  <2> QED BY <1>2, <1>5, <2>1, <2>2
<1> HIDE DEF vs
<1>7. IsState(s)
  BY <1>1, <1>3, <1>6 DEF IsState
<1>8. Moved(l)
  <2>1. /\ DOMAIN layer' = Layers
        /\ \A m \in Layers : m # l => layer'[m] = layer[m]
        /\ layer'[l].proposals = layer[l].proposals /\ layer'[l].versions = vs
        /\ layer'[l].active = layer[l].versions[n].id
        /\ IsState(layer'[l])
    BY <1>3, <1>4, <1>7, WrittenState DEF ProfilesInv
  <2>2. ActiveFound(layer'[l])
    BY <1>1, <1>6, <2>1 DEF ActiveFound, SameVersion
  <2>3. \A i \in DOMAIN layer[l].proposals : SameDraft(layer[l].proposals[i], layer[l].proposals[i])
    BY DEF SameDraft
  <2> QED BY <1>6, <2>1, <2>2, <2>3 DEF Moved
<1>9. Accepted \subseteq Accepted' /\ evidence' \in Seq(Evidence)
  BY <1>4 DEF Accepted, ProfilesInv, Shape
<1> QED BY <1>4, <1>8, <1>9, MovedKeeps

\* A proposal that is accepted becomes the last version.
LEMMA AcceptanceKeeps ==
  ASSUME ProfilesInv, NEW l \in Layers, NEW i \in DOMAIN Proposals(l), NEW payload,
         AcceptProposal(l, i, payload)
  PROVE  ProfilesInv' /\ Fresh
<1> DEFINE ps  == [layer[l].proposals EXCEPT ![i].status = "accepted"]
           old == Archived(layer[l].versions)
           v   == NewVersion(l, i, payload)
           vs  == Append(old, v)
           s   == WithVersion(l, i, payload)
<1>1. IsState(layer[l]) /\ i \in DOMAIN layer[l].proposals
  BY DEF ProfilesInv, Shape, Proposals
<1>2. /\ IsLog(ps) /\ DOMAIN ps = DOMAIN layer[l].proposals
      /\ \A j \in DOMAIN ps : DOMAIN ps[j] = ProposalFields /\ SameDraft(layer[l].proposals[j], ps[j])
  <2> DEFINE p == [layer[l].proposals[i] EXCEPT !.status = "accepted"]
  <2>1. DOMAIN p = ProposalFields /\ SameDraft(layer[l].proposals[i], p)
    BY <1>1 DEF IsState, ProposalFields, SameDraft
  <2>2. ps = [layer[l].proposals EXCEPT ![i] = p]
    OBVIOUS
  <2> HIDE DEF ps, p
  <2>3. SameProposals(layer[l].proposals, ps)
    BY <1>1, <2>1, <2>2, ProposalMarked
  <2> QED BY <2>3 DEF SameProposals
<1>3. /\ IsLog(old) /\ DOMAIN old = DOMAIN layer[l].versions
      /\ \A m \in DOMAIN old : /\ DOMAIN old[m] = VersionFields
                               /\ SameVersion(layer[l].versions[m], old[m])
  BY <1>1, VersionsArchived DEF IsState
<1>4. /\ DOMAIN v = VersionFields /\ v.payload = payload
      /\ v.input = layer[l].proposals[i].input /\ v.window = layer[l].proposals[i].window
  BY DEF NewVersion, VersionFields, Proposals
<1>5. /\ DOMAIN s = DOMAIN layer[l] /\ s.proposals = ps /\ s.versions = vs
      /\ s.active = v.id
  BY <1>1 DEF IsState, WithVersion
<1>6. Write(l, s) /\ UNCHANGED <<evidence, calls, copy>>
  BY DEF AcceptProposal
<1>7. /\ l = "strategy" => layer[l].proposals[i].input = Input(l)
      /\ l = "baseline" => payload \subseteq Accepted
      /\ l = "strategy" => payload \in Permitted[layer[l].proposals[i].window]
  BY DEF AcceptProposal, IsFresh, PassesGates, Proposals
<1>12. l = "strategy" => Within(v, layer["market"].versions)
  <2>1. l = "strategy" => StandsFor(layer[l].proposals[i], layer["market"].versions)
    BY <1>1 DEF ProfilesInv, Windows
  <2> HIDE DEF v
  <2> QED BY <1>4, <1>7, <2>1 DEF Within, StandsFor
<1> HIDE DEF s, ps, old, v
<1>8. /\ IsLog(vs)
      /\ DOMAIN vs = DOMAIN layer[l].versions \cup {Len(old) + 1}
      /\ \A m \in DOMAIN layer[l].versions : vs[m] = old[m]
      /\ vs[Len(old) + 1] = v
  BY <1>3, LogAppended
<1> HIDE DEF vs
<1>9. IsState(s)
  BY <1>1, <1>2, <1>3, <1>4, <1>5, <1>8 DEF IsState
<1>10. Moved(l)
  <2>1. /\ DOMAIN layer' = Layers
        /\ \A m \in Layers : m # l => layer'[m] = layer[m]
        /\ layer'[l].proposals = ps /\ layer'[l].versions = vs /\ layer'[l].active = v.id
        /\ IsState(layer'[l])
    BY <1>5, <1>6, <1>9, WrittenState DEF ProfilesInv
  <2>2. \A m \in DOMAIN vs :
          IF m \in DOMAIN layer[l].versions
          THEN SameVersion(layer[l].versions[m], vs[m])
          ELSE /\ l = "strategy" => vs[m].input = Input(l)
               /\ l = "baseline" => vs[m].payload \subseteq Accepted
               /\ l = "strategy" => Within(vs[m], layer["market"].versions)
    BY <1>3, <1>4, <1>7, <1>8, <1>12
  <2>3. ActiveFound(layer'[l])
    BY <1>8, <2>1 DEF ActiveFound
  <2> QED BY <1>2, <1>8, <2>1, <2>2, <2>3 DEF Moved
<1>11. Accepted \subseteq Accepted' /\ evidence' \in Seq(Evidence)
  BY <1>6 DEF Accepted, ProfilesInv, Shape
<1> QED BY <1>6, <1>10, <1>11, MovedKeeps

\* The window of a strategy proposal ends.
LEMMA ExpiryKeeps ==
  ASSUME ProfilesInv, NEW i \in DOMAIN Proposals("strategy"), WindowExpires(i)
  PROVE  ProfilesInv' /\ Fresh
<1> DEFINE l  == "strategy"
           ps == [layer[l].proposals EXCEPT ![i].expired = TRUE]
           s  == [layer[l] EXCEPT !.proposals = ps]
<1>1. l \in Layers /\ IsState(layer[l]) /\ i \in DOMAIN layer[l].proposals /\ DOMAIN layer = Layers
  BY DEF ProfilesInv, Shape, Proposals, Layers
<1>2. /\ IsLog(ps) /\ DOMAIN ps = DOMAIN layer[l].proposals
      /\ \A j \in DOMAIN ps : DOMAIN ps[j] = ProposalFields /\ SameDraft(layer[l].proposals[j], ps[j])
  <2> DEFINE p == [layer[l].proposals[i] EXCEPT !.expired = TRUE]
  <2>1. DOMAIN p = ProposalFields /\ SameDraft(layer[l].proposals[i], p)
    BY <1>1 DEF IsState, ProposalFields, SameDraft
  <2>2. ps = [layer[l].proposals EXCEPT ![i] = p]
    OBVIOUS
  <2> HIDE DEF ps, p
  <2>3. SameProposals(layer[l].proposals, ps)
    BY <1>1, <2>1, <2>2, ProposalMarked
  <2> QED BY <2>3 DEF SameProposals
<1>3. /\ DOMAIN s = DOMAIN layer[l] /\ s.proposals = ps /\ s.versions = layer[l].versions
      /\ s.active = layer[l].active
  BY <1>1 DEF IsState
<1>4. layer' = [layer EXCEPT ![l] = s] /\ UNCHANGED <<evidence, calls, copy>>
  BY DEF WindowExpires
<1> HIDE DEF s, ps
<1>5. IsState(s)
  BY <1>1, <1>2, <1>3 DEF IsState
<1>6. layer'[l] = s /\ DOMAIN layer' = Layers /\ \A m \in Layers : m # l => layer'[m] = layer[m]
  BY <1>1, <1>4
<1>7. Moved(l)
  BY <1>2, <1>3, <1>5, <1>6 DEF Moved, SameVersion, SameDraft
<1>8. Accepted \subseteq Accepted' /\ evidence' \in Seq(Evidence)
  BY <1>4 DEF Accepted, ProfilesInv, Shape
<1> QED BY <1>1, <1>4, <1>7, <1>8, MovedKeeps

-----------------------------------------------------------------------------
(* The steps of the layers and of the evidence.                             *)

LEMMA ManualKeeps ==
  ASSUME ProfilesInv, NEW l \in Layers, NEW payload, CreateManualProposal(l, payload)
  PROVE  ProfilesInv' /\ Fresh
<1>1. l = "baseline" => payload \subseteq Accepted
  BY DEF CreateManualProposal, PassesGates
<1> QED BY <1>1, ProposalKeeps DEF CreateManualProposal

\* The answer of a model is stored on the input it was asked about.
LEMMA FinishKeeps ==
  ASSUME ProfilesInv, NEW c \in calls, FinishAiGeneration(c)
  PROVE  ProfilesInv' /\ Fresh
<1>1. c.layer \in Layers
  BY DEF ProfilesInv, Shape
<1>2. PICK payload \in Answers(c.layer, c.input) :
        Write(c.layer, WithProposal(c.layer, Proposal(c.layer, payload, "ai", c.input)))
  BY DEF FinishAiGeneration
<1>3. c.layer = "baseline" => payload \subseteq Accepted
  BY <1>2 DEF Answers
<1>4. c.input = Input(c.layer) /\ Ready(c.layer) /\ UNCHANGED <<evidence, copy>> /\ calls' \subseteq calls
  BY DEF FinishAiGeneration
<1> QED BY <1>1, <1>2, <1>3, <1>4, ProposalKeeps

\* What is done to the evidence leaves every proposal and version, and what was accepted.
LEMMA EvidenceKeeps ==
  ASSUME ProfilesInv, Write("baseline", layer["baseline"]),
         evidence' \in Seq(Evidence), Accepted \subseteq Accepted', copy' = copy, calls' \subseteq calls
  PROVE  ProfilesInv' /\ Fresh
<1>1. "baseline" \in Layers /\ IsState(layer["baseline"])
  BY DEF ProfilesInv, Shape, Layers
<1>2. Moved("baseline")
  BY <1>1, WrittenState DEF Moved, ProfilesInv, SameVersion, SameDraft
<1> QED BY <1>1, <1>2, MovedKeeps

LEMMA ManualEvidenceKeeps ==
  ASSUME ProfilesInv, NEW content \in Contents, CreateManualEvidence(content)
  PROVE  ProfilesInv' /\ Fresh
<1> DEFINE e == Candidate(content)
<1>1. e \in Evidence /\ e.status # "accepted"
  BY DEF Candidate, Evidence
<1>2. evidence' = Append(evidence, e) /\ evidence \in Seq(Evidence)
  BY DEF CreateManualEvidence, ProfilesInv, Shape
<1> HIDE DEF e
<1>3. evidence' \in Seq(Evidence) /\ Accepted \subseteq Accepted'
  BY <1>1, <1>2 DEF Accepted
<1> QED BY <1>3, EvidenceKeeps DEF CreateManualEvidence

LEMMA DecidedEvidenceKeeps ==
  ASSUME ProfilesInv, NEW e \in DOMAIN evidence, NEW status \in {"accepted", "rejected", "deferred"},
         NEW content \in Contents, DecideEvidence(e, status, content)
  PROVE  ProfilesInv' /\ Fresh
<1> DEFINE entry == [content |-> content, status |-> status]
<1>1. entry \in Evidence
  BY DEF Evidence
<1>2. /\ evidence' = [evidence EXCEPT ![e] = entry] /\ evidence \in Seq(Evidence)
      /\ evidence[e].status # "accepted"
  BY DEF DecideEvidence, ProfilesInv, Shape
<1> HIDE DEF entry
<1>3. /\ evidence' \in Seq(Evidence)
      /\ DOMAIN evidence' = DOMAIN evidence
      /\ \A d \in DOMAIN evidence : d # e => evidence'[d] = evidence[d]
  BY <1>1, <1>2
<1>4. Accepted \subseteq Accepted'
  BY <1>2, <1>3 DEF Accepted
<1> QED BY <1>3, <1>4, EvidenceKeeps DEF DecideEvidence

LEMMA FinishedEvidenceKeeps ==
  ASSUME ProfilesInv, NEW c \in calls, FinishEvidenceGeneration(c)
  PROVE  ProfilesInv' /\ Fresh
<1>1. PICK new \in SUBSET {x \in Contents : ~IsDuplicate(x)} :
        \E added \in [1..Cardinality(new) -> new] :
            /\ {added[k] : k \in DOMAIN added} = new
            /\ evidence' = evidence \o [k \in DOMAIN added |-> Candidate(added[k])]
  BY DEF FinishEvidenceGeneration
<1>2. PICK added \in [1..Cardinality(new) -> new] :
            /\ {added[k] : k \in DOMAIN added} = new
            /\ evidence' = evidence \o [k \in DOMAIN added |-> Candidate(added[k])]
  BY <1>1
<1> DEFINE more == [k \in DOMAIN added |-> Candidate(added[k])]
<1>3. evidence \in Seq(Evidence)
  BY DEF ProfilesInv, Shape
<1>4. more \in Seq(Evidence)
  <2>1. \A x \in Contents : Candidate(x) \in Evidence
    BY DEF Candidate, Evidence
  <2>2. new \subseteq Contents
    OBVIOUS
  <2>3. Cardinality(new) \in Nat
    BY <2>2, ProfilesAssumption, FS_Subset, FS_CardinalityType
  <2> QED BY <2>1, <2>2, <2>3
<1> HIDE DEF more
<1>5. evidence' = evidence \o more
  BY <1>2 DEF more
<1>6. evidence' \in Seq(Evidence) /\ Accepted \subseteq Accepted'
  BY <1>3, <1>4, <1>5 DEF Accepted
<1>7. Write("baseline", layer["baseline"]) /\ copy' = copy /\ calls' \subseteq calls
  BY DEF FinishEvidenceGeneration
<1> QED BY <1>6, <1>7, EvidenceKeeps

-----------------------------------------------------------------------------
(* The steps around the layers.                                             *)

\* A step that writes no layer and no evidence.
LEMMA QuietKeeps ==
  ASSUME ProfilesInv, UNCHANGED <<layer, evidence>>, IsState(copy'),
         \A c \in calls' : c.layer \in Layers
  PROVE  ProfilesInv' /\ Fresh
<1>1. Shape' /\ ReferencesAccepted' /\ Windows'
  BY DEF ProfilesInv, Shape, ReferencesAccepted, Proposals, Versions, Accepted, Windows
<1>2. Fresh
  BY DEF Fresh, Proposals, Versions
<1> QED BY <1>1, <1>2 DEF ProfilesInv

LEMMA CallStarts ==
  ASSUME ProfilesInv, NEW l \in Layers, NEW kind, NEW key,
         calls' = calls \cup {Call(l, kind, key)}, UNCHANGED <<layer, evidence, copy>>
  PROVE  ProfilesInv' /\ Fresh
<1>1. Call(l, kind, key).layer = l
  BY DEF Call
<1>2. IsState(copy') /\ \A c \in calls' : c.layer \in Layers
  BY <1>1 DEF ProfilesInv, Shape
<1> QED BY <1>2, QuietKeeps

\* The job-match state goes, or is replaced by a tab's copy.
LEMMA ReplacementKeeps ==
  ASSUME ProfilesInv, NEW s \in {EmptyState, copy}, IsState(s),
         layer' = [layer EXCEPT !["jobMatch"] = s],
         UNCHANGED <<evidence, calls, copy>>
  PROVE  ProfilesInv' /\ Fresh
<1>1. /\ DOMAIN layer' = Layers /\ layer'["jobMatch"] = s
      /\ \A l \in Layers : l # "jobMatch" => layer'[l] = layer[l]
  BY DEF ProfilesInv, Shape, Layers
<1>2. Shape'
  BY <1>1 DEF ProfilesInv, Shape
<1>3. ReferencesAccepted'
  <2>1. layer'["baseline"] = layer["baseline"] /\ Accepted' = Accepted
    BY <1>1 DEF Layers, Accepted
  <2> QED BY <2>1 DEF ProfilesInv, ReferencesAccepted, Proposals, Versions
<1>4. Fresh
  <2>1. \A l \in Layers : l # "jobMatch" => Proposals(l)' = Proposals(l) /\ Versions(l)' = Versions(l)
    BY <1>1 DEF Proposals, Versions
  <2>2. s # copy => Proposals("jobMatch")' = << >>
    BY <1>1 DEF Proposals, EmptyState
  <2> QED BY <1>1, <2>1, <2>2 DEF Fresh
<1>5. Windows'
  <2>1. layer'["market"] = layer["market"] /\ layer'["strategy"] = layer["strategy"]
    BY <1>1 DEF Layers
  <2> QED BY <2>1 DEF ProfilesInv, Windows
<1> QED BY <1>2, <1>3, <1>4, <1>5 DEF ProfilesInv

LEMMA EmptyIsState == IsState(EmptyState)
<1>1. /\ DOMAIN EmptyState = {"stateVersion", "active", "versions", "proposals"}
      /\ EmptyState.versions = << >> /\ EmptyState.proposals = << >>
  BY DEF EmptyState
<1>2. IsLog(<< >>)
  BY DEF IsLog
<1> QED BY <1>1, <1>2 DEF IsState

-----------------------------------------------------------------------------
(* The theorems.                                                            *)

LEMMA InitHolds == Init => ProfilesInv
<1> SUFFICES ASSUME Init PROVE ProfilesInv
  OBVIOUS
<1>1. \A l \in Layers : layer[l] = EmptyState
  BY DEF Init
<1>2. Shape
  BY <1>1, EmptyIsState DEF Init, Shape
<1>3. layer["baseline"].proposals = << >> /\ layer["baseline"].versions = << >>
  BY <1>1 DEF EmptyState, Layers
<1>4. ReferencesAccepted
  BY <1>3 DEF ReferencesAccepted, Proposals, Versions
<1>5. Windows
  <2>1. /\ layer["market"].active = None
        /\ layer["strategy"].proposals = << >> /\ layer["strategy"].versions = << >>
    BY <1>1 DEF EmptyState, Layers
  <2> QED BY <2>1 DEF Windows, ActiveFound
<1> QED BY <1>2, <1>4, <1>5 DEF ProfilesInv

LEMMA CommandKeeps ==
  ASSUME ProfilesInv, NEW l \in Layers, Command(l)
  PROVE  ProfilesInv' /\ Fresh
<1>1. CASE \E key \in Keys : GenerateProposal(l, key)
  <2>1. PICK key \in Keys : GenerateProposal(l, key)
    BY <1>1
  <2> QED BY <2>1, CallStarts DEF GenerateProposal
<1>2. CASE \E payload \in PayloadsOf(l) : CreateManualProposal(l, payload)
  BY <1>2, ManualKeeps
<1>3. CASE \E payload \in PayloadsOf(l), i \in DOMAIN Proposals(l) : AcceptProposal(l, i, payload)
  BY <1>3, AcceptanceKeeps
<1>4. CASE \E i \in DOMAIN Proposals(l), status \in {"rejected", "deferred"} : DecideProposal(l, i, status)
  BY <1>4, DecisionKeeps
<1>5. CASE \E n \in DOMAIN Versions(l) : ActivateVersion(l, n)
  BY <1>5, ActivationKeeps
<1> QED BY <1>1, <1>2, <1>3, <1>4, <1>5 DEF Command

LEMMA EvidenceCommandKeeps ==
  ASSUME ProfilesInv, EvidenceCommand
  PROVE  ProfilesInv' /\ Fresh
<1>1. CASE \E key \in Keys : GenerateEvidence(key)
  <2>1. PICK key \in Keys : GenerateEvidence(key)
    BY <1>1
  <2>2. "baseline" \in Layers
    BY DEF Layers
  <2> QED BY <2>1, <2>2, CallStarts DEF GenerateEvidence
<1>2. CASE \E content \in Contents : CreateManualEvidence(content)
  BY <1>2, ManualEvidenceKeeps
<1>3. CASE \E e \in DOMAIN evidence, content \in Contents, status \in {"accepted", "rejected", "deferred"} :
             DecideEvidence(e, status, content)
  BY <1>3, DecidedEvidenceKeeps
<1> QED BY <1>1, <1>2, <1>3 DEF EvidenceCommand

\* One case for every operation of the module.
LEMMA NextKeeps ==
  ASSUME ProfilesInv, Next
  PROVE  ProfilesInv' /\ Fresh
<1>1. CASE \E l \in Layers : Command(l)
  BY <1>1, CommandKeeps
<1>2. CASE EvidenceCommand
  BY <1>2, EvidenceCommandKeeps
<1>3. CASE \E c \in calls : FinishAiGeneration(c)
  BY <1>3, FinishKeeps
<1>4. CASE \E c \in calls : FinishEvidenceGeneration(c)
  BY <1>4, FinishedEvidenceKeeps
<1>5. CASE \E c \in calls : GenerationFails(c)
  BY <1>5, QuietKeeps DEF GenerationFails, ProfilesInv, Shape
<1>6. CASE \E i \in DOMAIN Proposals("strategy") : WindowExpires(i)
  BY <1>6, ExpiryKeeps
<1>7. CASE \E f \in Facts : FactsChange(f)
  BY <1>7, QuietKeeps DEF FactsChange, ProfilesInv, Shape
<1>8. CASE LoadProfile
  <2>1. IsState(layer["jobMatch"])
    BY DEF ProfilesInv, Shape, Layers
  <2> QED BY <1>8, <2>1, QuietKeeps DEF LoadProfile, ProfilesInv, Shape
<1>9. CASE DeleteProfile
  BY <1>9, EmptyIsState, ReplacementKeeps DEF DeleteProfile
<1>10. CASE \E body \in {EmptyState, copy} : SaveProfile(body)
  <2>1. PICK body \in {EmptyState, copy} : SaveProfile(body)
    BY <1>10
  <2>2. IsState(body)
    BY <2>1, EmptyIsState DEF ProfilesInv, Shape
  <2> QED BY <2>1, <2>2, ReplacementKeeps DEF SaveProfile
<1> QED BY <1>1, <1>2, <1>3, <1>4, <1>5, <1>6, <1>7, <1>8, <1>9, <1>10 DEF Next

LEMMA StutterKeeps ==
  ASSUME ProfilesInv, UNCHANGED vars
  PROVE  ProfilesInv' /\ Fresh
<1> QED BY QuietKeeps DEF vars, ProfilesInv, Shape

LEMMA InvHolds == Spec => []ProfilesInv
<1>1. ProfilesInv /\ [Next]_vars => ProfilesInv'
  BY NextKeeps, StutterKeeps
<1> QED BY <1>1, InitHolds, PTL DEF Spec

\* Every baseline, proposed or formal, cites evidence that is accepted, although the
\* evidence is decided and the baseline edited independently.
THEOREM CitationsStand == Spec => []ReferencesAccepted
<1>1. ProfilesInv => ReferencesAccepted
  BY DEF ProfilesInv
<1> QED BY <1>1, InvHolds, PTL

\* Every proposal of a model is stored on the input it was asked about and every strategy
\* becomes formal on the input it was made for, for any number of generations that are
\* awaited at once and whatever tabs store; only the copy a tab had loaded comes back as it
\* was when it is stored where there is no state (profileRepository.ts:28-43).
THEOREM AdviceStaysFresh == Spec => AdviceIsFresh
<1>1. Fresh = (\A l \in Layers : (l = "jobMatch" => layer'[l] # copy) =>
    /\ \A i \in DOMAIN Proposals(l)' \ DOMAIN Proposals(l) :
         Proposals(l)'[i].by = "ai" => Proposals(l)'[i].input = Input(l)
    /\ l = "strategy" =>
         \A n \in DOMAIN Versions(l)' \ DOMAIN Versions(l) : Versions(l)'[n].input = Input(l))
  BY DEF Fresh
<1>2. ProfilesInv /\ [Next]_vars => [Fresh]_vars
  BY NextKeeps
<1>3. Spec => [][Fresh]_vars
  BY <1>2, InvHolds, PTL DEF Spec
<1> QED BY <1>3, PTL DEF AdviceIsFresh, Fresh

\* Every formal strategy, edited or not, stays within the window of the market version it
\* names, although market versions are proposed, edited and activated at any time.
THEOREM StrategiesStayWithin == Spec => []GatesHold
<1>1. ProfilesInv => GatesHold
  BY DEF ProfilesInv, Windows, Within, StandsFor, GatesHold, Versions
<1> QED BY <1>1, InvHolds, PTL

-----------------------------------------------------------------------------
(* The stored states, one at a time.                                        *)

Statuses == {"proposed", "accepted", "rejected", "deferred"}

\* A version of a sound state was made of a proposal and of no other, its id tells its
\* place, and it is marked active exactly if the pointer names it.
SoundVersion(l, s, n) ==
  /\ s.versions[n].payload \in PayloadsOf(l)
  /\ s.versions[n].proposal \in DOMAIN s.proposals
  /\ s.proposals[s.versions[n].proposal].status = "accepted"
  /\ \E d \in Nat : s.versions[n].id = <<d, n>>
  /\ s.versions[n].status = "active" <=> s.versions[n].id = s.active
  /\ s.versions[n].supersedes \in {None} \cup {s.versions[m].id : m \in 1..(n - 1)}

SoundState(l, s) ==
  /\ s.stateVersion \in Nat
  /\ ActiveFound(s)
  /\ \A i \in DOMAIN s.proposals :
       /\ s.proposals[i].payload \in PayloadsOf(l)
       /\ s.proposals[i].status \in Statuses
       /\ s.proposals[i].status = "accepted" => \E n \in DOMAIN s.versions : s.versions[n].proposal = i
  /\ \A n \in DOMAIN s.versions : SoundVersion(l, s, n)
  /\ \A m, n \in DOMAIN s.versions : s.versions[m].proposal = s.versions[n].proposal => m = n

\* Of the open proposals of a model in ps and the running generations in cs, at most one
\* is on any input.
IsOpen(p) == p.status = "proposed" /\ p.by = "ai"
OneAsked(ps, cs) ==
  /\ \A i, j \in DOMAIN ps : IsOpen(ps[i]) /\ IsOpen(ps[j]) /\ ps[i].input = ps[j].input => i = j
  /\ \A c, d \in cs : c.input = d.input => c = d
  /\ \A i \in DOMAIN ps : \A c \in cs : IsOpen(ps[i]) => ps[i].input # c.input

Asked(l) == {c \in calls : c.layer = l}
Counted(l) == l # "baseline" /\ (l = "jobMatch" => deletes = 0)

Surroundings ==
  /\ Len(evidence) <= MaxEvidence
  /\ limit \in Limits /\ facts \in Facts /\ changes \in Nat /\ deletes \in Nat /\ profile \in BOOLEAN
  /\ ~profile => layer["jobMatch"] = EmptyState /\ deletes # 0
  /\ \A c \in calls : c.expected \in Nat /\ (deletes = 0 => c.expected <= layer[c.layer].stateVersion)

RestInv ==
  /\ \A l \in Layers : SoundState(l, layer[l])
  /\ SoundState("jobMatch", copy)
  /\ Surroundings
  /\ \A l \in Layers : Counted(l) => OneAsked(layer[l].proposals, Asked(l))

\* A state that was never written has no proposal, and while no profile was deleted a tab's
\* copy is no newer than what is stored: saving a profile then brings nothing back.
CopyInv ==
  /\ layer["jobMatch"].stateVersion = 0 => layer["jobMatch"].proposals = << >>
  /\ copy.stateVersion = 0 => copy.proposals = << >>
  /\ deletes = 0 => copy.stateVersion <= layer["jobMatch"].stateVersion

LEMMA EmptyIsSound == \A l \in Layers : SoundState(l, EmptyState) /\ OneAsked(EmptyState.proposals, {})
<1>1. /\ EmptyState.versions = << >> /\ EmptyState.proposals = << >>
      /\ EmptyState.active = None /\ EmptyState.stateVersion = 0
  BY DEF EmptyState
<1> QED BY <1>1 DEF SoundState, ActiveFound, OneAsked

\* A proposal more.
LEMMA SoundProposed ==
  ASSUME NEW l, NEW s, IsState(s), SoundState(l, s), NEW p, p.payload \in PayloadsOf(l),
         p.status = "proposed", NEW t, t.stateVersion \in Nat,
         t.proposals = Append(s.proposals, p), t.versions = s.versions, t.active = s.active
  PROVE  SoundState(l, t)
<1> DEFINE k == Len(s.proposals) + 1
<1>1. /\ DOMAIN t.proposals = DOMAIN s.proposals \cup {k}
      /\ \A i \in DOMAIN s.proposals : t.proposals[i] = s.proposals[i]
      /\ t.proposals[k] = p
  BY LogAppended DEF IsState
<1> HIDE DEF k
<1>2. \A n \in DOMAIN t.versions : SoundVersion(l, t, n)
  BY <1>1 DEF SoundState, SoundVersion
<1>3. \A i \in DOMAIN t.proposals :
        /\ t.proposals[i].payload \in PayloadsOf(l)
        /\ t.proposals[i].status \in Statuses
        /\ t.proposals[i].status = "accepted" => \E n \in DOMAIN t.versions : t.versions[n].proposal = i
  BY <1>1 DEF SoundState, Statuses
<1> QED BY <1>2, <1>3 DEF SoundState, ActiveFound

\* A proposal that is rejected or deferred, or whose window ends.
LEMMA SoundMarked ==
  ASSUME NEW l, NEW s, IsState(s), SoundState(l, s), NEW i \in DOMAIN s.proposals,
         s.proposals[i].status # "accepted",
         NEW p, p.payload = s.proposals[i].payload, p.status \in Statuses \ {"accepted"},
         NEW t, t.stateVersion \in Nat,
         t.proposals = [s.proposals EXCEPT ![i] = p], t.versions = s.versions, t.active = s.active
  PROVE  SoundState(l, t)
<1>1. /\ DOMAIN t.proposals = DOMAIN s.proposals
      /\ \A j \in DOMAIN s.proposals : t.proposals[j] = IF j = i THEN p ELSE s.proposals[j]
  OBVIOUS
<1>2. \A n \in DOMAIN t.versions : SoundVersion(l, t, n)
  BY <1>1 DEF SoundState, SoundVersion
<1>3. \A j \in DOMAIN t.proposals :
        /\ t.proposals[j].payload \in PayloadsOf(l)
        /\ t.proposals[j].status \in Statuses
        /\ t.proposals[j].status = "accepted" => \E n \in DOMAIN t.versions : t.versions[n].proposal = j
  BY <1>1 DEF SoundState
<1> QED BY <1>2, <1>3 DEF SoundState, ActiveFound

\* Another version, but for its status.
Restated(v, w) ==
  /\ w.id = v.id /\ w.payload = v.payload /\ w.proposal = v.proposal /\ w.supersedes = v.supersedes

LEMMA ArchivedRestates ==
  ASSUME NEW s, IsState(s)
  PROVE  /\ DOMAIN Archived(s.versions) = DOMAIN s.versions
         /\ \A n \in DOMAIN s.versions : /\ DOMAIN Archived(s.versions)[n] = VersionFields
                                         /\ Restated(s.versions[n], Archived(s.versions)[n])
                                         /\ Archived(s.versions)[n].status = "archived"
<1>1. \A n \in DOMAIN s.versions : Archived(s.versions)[n] = [s.versions[n] EXCEPT !.status = "archived"]
  BY DEF Archived
<1> QED BY <1>1 DEF Archived, IsState, VersionFields, Restated

\* Ids tell their places, so no two versions share one, and none is None.
LEMMA IdsAreDistinct ==
  ASSUME NEW l, NEW s, SoundState(l, s)
  PROVE  /\ \A m, n \in DOMAIN s.versions : s.versions[m].id = s.versions[n].id => m = n
         /\ IsState(s) => \A n \in DOMAIN s.versions : s.versions[n].id # None
<1>1. \A n \in DOMAIN s.versions : \E d \in Nat : s.versions[n].id = <<d, n>>
  BY DEF SoundState, SoundVersion
<1>2. ASSUME NEW m \in DOMAIN s.versions, NEW n \in DOMAIN s.versions, s.versions[m].id = s.versions[n].id
      PROVE  m = n
  <2>1. PICK d \in Nat : s.versions[m].id = <<d, m>>
    BY <1>1
  <2>2. PICK e \in Nat : s.versions[n].id = <<e, n>>
    BY <1>1
  <2>3. <<d, m>> = <<e, n>>
    BY <1>2, <2>1, <2>2
  <2> QED BY <2>3
<1>3. ASSUME IsState(s), NEW n \in DOMAIN s.versions PROVE s.versions[n].id # None
  <2>1. PICK d \in Nat : s.versions[n].id = <<d, n>>
    BY <1>1
  <2>2. n \in Nat
    BY <1>3 DEF IsState, IsLog
  <2>3. <<d, n>> \in Nat \X Nat
    BY <2>2
  <2> QED BY <2>1, <2>3, ProfilesAssumption
<1> QED BY <1>2, <1>3

\* An earlier version is activated.
Activation(s, n, v, t) ==
  /\ t.stateVersion \in Nat /\ t.proposals = s.proposals
  /\ v = [Archived(s.versions)[n] EXCEPT !.status = "active"]
  /\ t.versions = [Archived(s.versions) EXCEPT ![n] = v]
  /\ t.active = s.versions[n].id

LEMMA SoundActivated ==
  ASSUME NEW l, NEW s, IsState(s), SoundState(l, s), NEW n \in DOMAIN s.versions,
         NEW v, NEW t, Activation(s, n, v, t)
  PROVE  SoundState(l, t)
<1>0. /\ t.stateVersion \in Nat /\ t.proposals = s.proposals
      /\ v = [Archived(s.versions)[n] EXCEPT !.status = "active"]
      /\ t.versions = [Archived(s.versions) EXCEPT ![n] = v]
      /\ t.active = s.versions[n].id
  BY DEF Activation
<1>1. /\ DOMAIN Archived(s.versions) = DOMAIN s.versions
      /\ \A m \in DOMAIN s.versions : /\ DOMAIN Archived(s.versions)[m] = VersionFields
                                      /\ Restated(s.versions[m], Archived(s.versions)[m])
                                      /\ Archived(s.versions)[m].status = "archived"
  BY ArchivedRestates
<1>2. Restated(s.versions[n], v) /\ v.status = "active"
  BY <1>0, <1>1 DEF Restated, VersionFields
<1>3. /\ DOMAIN t.versions = DOMAIN s.versions
      /\ \A m \in DOMAIN s.versions : t.versions[m] = IF m = n THEN v ELSE Archived(s.versions)[m]
  BY <1>0, <1>1
<1>4. \A m \in DOMAIN s.versions : /\ Restated(s.versions[m], t.versions[m])
                                   /\ t.versions[m].status = "active" <=> m = n
  BY <1>1, <1>2, <1>3
<1>5. \A m \in DOMAIN s.versions : s.versions[m].id = s.versions[n].id <=> m = n
  BY IdsAreDistinct
<1>6. ASSUME NEW m \in DOMAIN t.versions PROVE SoundVersion(l, t, m)
  <2>1. SoundVersion(l, s, m) /\ m \in DOMAIN s.versions
    BY <1>3, <1>6 DEF SoundState
  <2>2. 1..(m - 1) \subseteq DOMAIN s.versions
    BY <2>1 DEF IsState, IsLog
  <2>3. \A k \in 1..(m - 1) : t.versions[k].id = s.versions[k].id
    BY <1>4, <2>2 DEF Restated
  <2>4. t.versions[m].supersedes \in {None} \cup {t.versions[k].id : k \in 1..(m - 1)}
    BY <1>4, <2>1, <2>3 DEF Restated, SoundVersion
  <2>5. t.versions[m].status = "active" <=> t.versions[m].id = t.active
    BY <1>0, <1>4, <1>5, <2>1 DEF Restated
  <2> QED BY <1>0, <1>4, <2>1, <2>4, <2>5 DEF SoundVersion, Restated
<1>7. ActiveFound(t)
  BY <1>0, <1>3, <1>4 DEF ActiveFound, Restated
<1>8. \A i \in DOMAIN t.proposals :
        /\ t.proposals[i].payload \in PayloadsOf(l)
        /\ t.proposals[i].status \in Statuses
        /\ t.proposals[i].status = "accepted" => \E m \in DOMAIN t.versions : t.versions[m].proposal = i
  BY <1>0, <1>3, <1>4 DEF SoundState, Restated
<1>9. \A m, k \in DOMAIN t.versions : t.versions[m].proposal = t.versions[k].proposal => m = k
  BY <1>3, <1>4 DEF SoundState, Restated
<1> QED BY <1>0, <1>6, <1>7, <1>8, <1>9 DEF SoundState

\* Proposal i of s is accepted: t has one version more, which is the active one.
Acceptance(l, s, i, p, v, t) ==
  /\ s.proposals[i].status = "proposed"
  /\ p.payload = s.proposals[i].payload /\ p.status = "accepted"
  /\ v.payload \in PayloadsOf(l) /\ v.proposal = i /\ v.status = "active"
  /\ v.supersedes = s.active /\ \E d \in Nat : v.id = <<d, Len(s.versions) + 1>>
  /\ t.stateVersion \in Nat
  /\ t.proposals = [s.proposals EXCEPT ![i] = p]
  /\ t.versions = Append(Archived(s.versions), v) /\ t.active = v.id

LEMMA SoundAccepted ==
  ASSUME NEW l, NEW s, IsState(s), SoundState(l, s), NEW i \in DOMAIN s.proposals,
         NEW p, NEW v, NEW t, Acceptance(l, s, i, p, v, t)
  PROVE  SoundState(l, t)
<1> DEFINE old == Archived(s.versions)
           k   == Len(s.versions) + 1
<1>1. /\ DOMAIN old = DOMAIN s.versions
      /\ \A m \in DOMAIN s.versions : /\ Restated(s.versions[m], old[m])
                                      /\ old[m].status = "archived"
  BY ArchivedRestates
<1>2. IsLog(s.versions) /\ IsLog(old)
  BY VersionsArchived DEF IsState
<1>3. DOMAIN s.versions = 1..Len(s.versions) /\ Len(s.versions) \in Nat /\ Len(old) = Len(s.versions)
  BY <1>1, <1>2 DEF IsLog
<1>4. /\ DOMAIN t.versions = DOMAIN s.versions \cup {k}
      /\ \A m \in DOMAIN s.versions : t.versions[m] = old[m]
      /\ t.versions[k] = v
  BY <1>1, <1>2, <1>3, LogAppended DEF Acceptance
<1>5. /\ DOMAIN t.proposals = DOMAIN s.proposals
      /\ \A j \in DOMAIN s.proposals : t.proposals[j] = IF j = i THEN p ELSE s.proposals[j]
  BY DEF Acceptance
<1>v. /\ v.payload \in PayloadsOf(l) /\ v.proposal = i /\ v.status = "active" /\ v.supersedes = s.active
      /\ s.proposals[i].status = "proposed" /\ t.active = v.id /\ t.stateVersion \in Nat
      /\ p.payload = s.proposals[i].payload /\ p.status = "accepted"
  BY DEF Acceptance
<1>d. PICK d \in Nat : v.id = <<d, k>>
  BY DEF Acceptance
<1>6. k \in Nat /\ k \notin DOMAIN s.versions /\ \A m \in DOMAIN s.versions : m \in 1..(k - 1)
  BY <1>3
<1> HIDE DEF old, k
<1>r. \A m \in DOMAIN s.versions :
        /\ t.versions[m].id = s.versions[m].id
        /\ t.versions[m].payload = s.versions[m].payload
        /\ t.versions[m].proposal = s.versions[m].proposal
        /\ t.versions[m].supersedes = s.versions[m].supersedes
        /\ t.versions[m].status = "archived"
  BY <1>1, <1>4 DEF Restated
<1>7. ASSUME NEW m \in DOMAIN s.versions PROVE SoundVersion(l, t, m)
  <2>1. SoundVersion(l, s, m)
    BY DEF SoundState
  <2>2. 1..(m - 1) \subseteq DOMAIN s.versions
    BY <1>3
  <2>3. \A j \in 1..(m - 1) : t.versions[j].id = s.versions[j].id
    BY <1>r, <2>2
  <2>4. t.versions[m].supersedes \in {None} \cup {t.versions[j].id : j \in 1..(m - 1)}
    BY <1>r, <2>1, <2>3 DEF SoundVersion
  <2>5. t.versions[m].id # v.id
    <3>1. PICK e \in Nat : s.versions[m].id = <<e, m>>
      BY <2>1 DEF SoundVersion
    <3>2. m # k
      BY <1>6
    <3> QED BY <1>r, <1>d, <3>1, <3>2
  <2>6. t.versions[m].status # "active"
    BY <1>r
  <2>7. s.versions[m].proposal # i
    BY <1>v, <2>1 DEF SoundVersion
  <2> QED BY <1>r, <1>v, <1>5, <2>1, <2>4, <2>5, <2>6, <2>7 DEF SoundVersion
<1>8. SoundVersion(l, t, k)
  <2>1. v.supersedes \in {None} \cup {t.versions[m].id : m \in 1..(k - 1)}
    <3>1. CASE s.active = None
      BY <1>v, <3>1
    <3>2. CASE s.active # None
      <4>1. PICK m \in DOMAIN s.versions : s.versions[m].id = s.active
        BY <3>2 DEF SoundState, ActiveFound
      <4>2. t.versions[m].id = s.active /\ m \in 1..(k - 1)
        BY <1>r, <1>6, <4>1
      <4> QED BY <1>v, <4>2
    <3> QED BY <3>1, <3>2
  <2> QED BY <1>4, <1>5, <1>d, <1>v, <2>1 DEF SoundVersion
<1>9. ActiveFound(t)
  BY <1>4, <1>v DEF ActiveFound
<1>10. \A j \in DOMAIN t.proposals :
        /\ t.proposals[j].payload \in PayloadsOf(l)
        /\ t.proposals[j].status \in Statuses
        /\ t.proposals[j].status = "accepted" => \E n \in DOMAIN t.versions : t.versions[n].proposal = j
  BY <1>r, <1>v, <1>4, <1>5 DEF SoundState, Statuses
<1>11. \A m, n \in DOMAIN t.versions : t.versions[m].proposal = t.versions[n].proposal => m = n
  <2>1. \A m \in DOMAIN s.versions : t.versions[m].proposal = s.versions[m].proposal
                                     /\ s.versions[m].proposal # i
    BY <1>r, <1>v DEF SoundState, SoundVersion
  <2> QED BY <1>4, <1>v, <2>1 DEF SoundState
<1> QED BY <1>4, <1>v, <1>7, <1>8, <1>9, <1>10, <1>11 DEF SoundState


-----------------------------------------------------------------------------
(* The steps, once more.                                                    *)

\* Nothing was opened: what is open was so before, on the same input.
LEMMA NothingOpened ==
  ASSUME NEW ps, NEW cs, OneAsked(ps, cs), NEW qs, NEW ds, ds \subseteq cs,
         \A i \in DOMAIN qs : IsOpen(qs[i]) => i \in DOMAIN ps /\ IsOpen(ps[i]) /\ qs[i].input = ps[i].input
  PROVE  OneAsked(qs, ds)
BY DEF OneAsked

LEMMA WrittenVersion ==
  ASSUME Shape, NEW l \in Layers, NEW s, IsState(s), Write(l, s)
  PROVE  layer'[l].stateVersion = s.stateVersion + 1
<1> DEFINE t == [s EXCEPT !.stateVersion = @ + 1]
<1>1. t.stateVersion = s.stateVersion + 1
  BY DEF IsState
<1>2. layer' = [layer EXCEPT ![l] = t]
  BY DEF Write
<1> HIDE DEF t
<1> QED BY <1>1, <1>2 DEF Shape

\* A step that leaves layer l sound and at most one generation or proposal on an input.
LEMMA RestWritten ==
  ASSUME ProfilesInv, RestInv, NEW l \in Layers,
         \A m \in Layers : m # l => layer'[m] = layer[m],
         SoundState(l, layer'[l]), layer'[l].stateVersion >= layer[l].stateVersion,
         l = "jobMatch" => profile,
         Counted(l) => OneAsked(layer'[l].proposals, Asked(l)'),
         calls' \subseteq calls, Len(evidence') <= MaxEvidence,
         UNCHANGED <<facts, changes, profile, deletes, copy, limit>>
  PROVE  RestInv'
<1>1. \A m \in Layers : SoundState(m, layer'[m])
  BY DEF RestInv
<1>2. SoundState("jobMatch", copy')
  BY DEF RestInv
<1>3. Surroundings'
  <2>1. \A c \in calls : c.layer \in Layers
    BY DEF ProfilesInv, Shape
  <2>2. \A m \in Layers : layer[m].stateVersion \in Nat /\ layer'[m].stateVersion \in Nat
    BY <1>1 DEF RestInv, SoundState
  <2>3. \A m \in Layers : layer'[m].stateVersion >= layer[m].stateVersion
    BY <2>2
  <2>4. ~profile => layer'["jobMatch"] = EmptyState
    BY DEF RestInv, Surroundings, Layers
  <2>5. \A c \in calls' : c.expected \in Nat /\ (deletes = 0 => c.expected <= layer'[c.layer].stateVersion)
    <3> SUFFICES ASSUME NEW c \in calls' PROVE c.expected \in Nat /\ (deletes = 0 => c.expected <= layer'[c.layer].stateVersion)
      OBVIOUS
    <3>1. c.expected \in Nat /\ (deletes = 0 => c.expected <= layer[c.layer].stateVersion)
      BY DEF RestInv, Surroundings
    <3> QED BY <2>1, <2>2, <2>3, <3>1
  <2> QED BY <2>4, <2>5 DEF RestInv, Surroundings
<1>4. \A m \in Layers : Counted(m)' => OneAsked(layer[m].proposals, Asked(m))'
  <2> SUFFICES ASSUME NEW m \in Layers, Counted(m) PROVE OneAsked(layer'[m].proposals, Asked(m)')
    BY DEF Counted
  <2>1. CASE m = l
    BY <2>1
  <2>2. CASE m # l
    <3>1. Asked(m)' \subseteq Asked(m)
      BY DEF Asked
    <3> QED BY <2>2, <3>1, NothingOpened DEF RestInv
  <2> QED BY <2>1, <2>2
<1> QED BY <1>1, <1>2, <1>3, <1>4 DEF RestInv

\* The drafts a user may enter are drafts of the layer, and so is what a model answers.
LEMMA AnswersAreDrafts ==
  ASSUME ProfilesInv, RestInv, NEW l \in Layers, Ready(l), NEW input, NEW payload \in Answers(l, input)
  PROVE  payload \in PayloadsOf(l)
<1>1. CASE l = "baseline"
  <2>1. payload \subseteq Accepted
    BY <1>1 DEF Answers
  <2>2. Accepted \subseteq EvidenceIds
    <3>1. DOMAIN evidence = 1..Len(evidence) /\ Len(evidence) \in Nat
      BY DEF ProfilesInv, Shape
    <3>2. PICK n \in Nat : n = Len(evidence)
      BY <3>1
    <3>3. MaxEvidence \in Nat /\ n <= MaxEvidence
      BY <3>2, ProfilesAssumption DEF RestInv, Surroundings
    <3> QED BY <3>1, <3>2, <3>3 DEF Accepted, EvidenceIds
  <2> QED BY <1>1, <2>1, <2>2 DEF PayloadsOf
<1>2. CASE l = "strategy"
  <2>1. layer["market"].active # None
    BY <1>2 DEF Ready
  <2>2. \E n \in DOMAIN Versions("market") : Versions("market")[n].id = layer["market"].active
    BY <2>1 DEF ProfilesInv, Windows, ActiveFound, Versions
  <2>3. PICK n : n = CHOOSE i \in DOMAIN Versions("market") : Versions("market")[i].id = layer["market"].active
    OBVIOUS
  <2>4. n \in DOMAIN Versions("market") /\ ActivePayload("market") = Versions("market")[n].payload
    BY <2>1, <2>2, <2>3 DEF ActivePayload
  <2>5. Versions("market")[n].payload \in Payloads
    BY <2>4 DEF RestInv, SoundState, SoundVersion, PayloadsOf, Versions, Layers
  <2>6. Window \in Levels
    BY <2>4, <2>5, ProfilesAssumption DEF Window
  <2>7. Permitted[Window] \subseteq Payloads
    BY <2>6, ProfilesAssumption
  <2> QED BY <1>2, <2>7 DEF Answers, PayloadsOf
<1>3. CASE l \in {"market", "jobMatch"}
  BY <1>3 DEF Answers, PayloadsOf
<1> QED BY <1>1, <1>2, <1>3 DEF Layers

\* A proposal is added; if it is a model's, the generation that asked for it ends.
LEMMA ProposalKeepsRest ==
  ASSUME ProfilesInv, RestInv, NEW l \in Layers, NEW payload \in PayloadsOf(l), NEW by, NEW input,
         Ready(l), Write(l, WithProposal(l, Proposal(l, payload, by, input))),
         calls' \subseteq calls,
         by = "ai" => \E c \in calls : c.layer = l /\ c.input = input /\ calls' = calls \ {c},
         UNCHANGED <<evidence, facts, changes, profile, deletes, copy, limit>>
  PROVE  RestInv'
<1> DEFINE p == Proposal(l, payload, by, input)
           s == WithProposal(l, p)
           k == Len(layer[l].proposals) + 1
<1>1. /\ DOMAIN p = ProposalFields /\ p.payload = payload /\ p.by = by /\ p.input = input
      /\ p.status = "proposed"
  BY DEF Proposal, ProposalFields
<1> HIDE DEF p
<1>2. IsState(layer[l]) /\ IsLog(layer[l].proposals) /\ SoundState(l, layer[l])
  BY DEF ProfilesInv, Shape, IsState, RestInv
<1>3. /\ DOMAIN s = DOMAIN layer[l]
      /\ s.proposals = Append(layer[l].proposals, p)
      /\ s.versions = layer[l].versions
      /\ s.active = layer[l].active
      /\ s.stateVersion = layer[l].stateVersion
  BY <1>2 DEF WithProposal, IsState
<1> HIDE DEF s
<1>4. /\ IsLog(s.proposals)
      /\ DOMAIN s.proposals = DOMAIN layer[l].proposals \cup {k}
      /\ k \notin DOMAIN layer[l].proposals
      /\ \A i \in DOMAIN layer[l].proposals : s.proposals[i] = layer[l].proposals[i]
      /\ s.proposals[k] = p
  BY <1>2, <1>3, LogAppended
<1> HIDE DEF k
<1>5. IsState(s)
  BY <1>1, <1>2, <1>3, <1>4 DEF IsState
<1>6. Write(l, s)
  BY DEF s, p
<1>7. /\ \A m \in Layers : m # l => layer'[m] = layer[m]
      /\ layer'[l].proposals = s.proposals /\ layer'[l].versions = s.versions
      /\ layer'[l].active = s.active
  BY <1>5, <1>6, WrittenState DEF ProfilesInv
<1>8. layer'[l].stateVersion = layer[l].stateVersion + 1 /\ layer[l].stateVersion \in Nat
  BY <1>2, <1>3, <1>5, <1>6, WrittenVersion DEF ProfilesInv, SoundState
<1>9. SoundState(l, layer'[l])
  BY <1>1, <1>2, <1>3, <1>7, <1>8, SoundProposed
<1>10. ASSUME Counted(l) PROVE OneAsked(layer'[l].proposals, Asked(l)')
  <2> DEFINE ps == layer[l].proposals
             cs == Asked(l)
             ds == Asked(l)'
  <2>1. OneAsked(ps, cs)
    BY <1>10 DEF RestInv
  <2>2. ds \subseteq cs
    BY DEF Asked
  <2>3. CASE by # "ai"
    <3>1. \A i \in DOMAIN s.proposals :
             IsOpen(s.proposals[i]) => i \in DOMAIN ps /\ IsOpen(ps[i]) /\ s.proposals[i].input = ps[i].input
      BY <1>1, <1>4, <2>3 DEF IsOpen
    <3> HIDE DEF ps, cs, ds
    <3>2. OneAsked(s.proposals, ds)
      BY <2>1, <2>2, <3>1, NothingOpened
    <3> QED BY <1>7, <3>2 DEF ds
  <2>4. CASE by = "ai"
    <3>1. PICK c \in cs : c.input = input /\ ds = cs \ {c}
      BY <2>4 DEF Asked
    <3> HIDE DEF ps, cs, ds
    <3>2. OneAsked(s.proposals, ds)
      <4>1. \A i \in DOMAIN ps : IsOpen(ps[i]) => ps[i].input # input
        BY <2>1, <3>1 DEF OneAsked
      <4>2. \A d \in ds : d.input # input
        BY <2>1, <3>1 DEF OneAsked
      <4>3. DOMAIN s.proposals = DOMAIN ps \cup {k} /\ k \notin DOMAIN ps /\ s.proposals[k] = p
            /\ \A i \in DOMAIN ps : s.proposals[i] = ps[i]
        BY <1>4 DEF ps
      <4>4. \A i, j \in DOMAIN s.proposals :
              IsOpen(s.proposals[i]) /\ IsOpen(s.proposals[j]) /\ s.proposals[i].input = s.proposals[j].input => i = j
        BY <1>1, <2>1, <4>1, <4>3 DEF OneAsked
      <4>5. \A i \in DOMAIN s.proposals : \A d \in ds : IsOpen(s.proposals[i]) => s.proposals[i].input # d.input
        BY <1>1, <2>1, <2>2, <4>2, <4>3 DEF OneAsked
      <4> QED BY <2>1, <2>2, <4>4, <4>5 DEF OneAsked
    <3> QED BY <1>7, <3>2 DEF ds
  <2> QED BY <2>3, <2>4
<1>11. l = "jobMatch" => profile
  BY DEF Ready
<1>12. layer'[l].stateVersion >= layer[l].stateVersion
  BY <1>8
<1>13. Len(evidence') <= MaxEvidence
  BY DEF RestInv, Surroundings
<1> QED BY <1>7, <1>9, <1>10, <1>11, <1>12, <1>13, RestWritten

\* The rest of a decision.
LEMMA DecisionKeepsRest ==
  ASSUME ProfilesInv, RestInv, NEW l \in Layers, NEW i \in DOMAIN Proposals(l),
         NEW status \in {"rejected", "deferred"}, DecideProposal(l, i, status)
  PROVE  RestInv'
<1> DEFINE p  == [layer[l].proposals[i] EXCEPT !.status = status]
           ps == [layer[l].proposals EXCEPT ![i] = p]
           s  == [layer[l] EXCEPT !.proposals[i].status = status]
<1>1. IsState(layer[l]) /\ i \in DOMAIN layer[l].proposals /\ SoundState(l, layer[l])
  BY DEF ProfilesInv, Shape, Proposals, RestInv
<1>2. /\ DOMAIN p = ProposalFields /\ SameDraft(layer[l].proposals[i], p)
      /\ p.status = status /\ p.payload = layer[l].proposals[i].payload
  BY <1>1 DEF IsState, ProposalFields, SameDraft
<1>3. /\ DOMAIN s = DOMAIN layer[l] /\ s.proposals = ps /\ s.versions = layer[l].versions
      /\ s.active = layer[l].active /\ s.stateVersion = layer[l].stateVersion
  BY <1>1 DEF IsState
<1>4. /\ Write(l, s) /\ UNCHANGED <<evidence, calls, facts, changes, profile, deletes, copy, limit>>
      /\ layer[l].proposals[i].status = "proposed" /\ (l = "jobMatch" => profile)
  BY DEF DecideProposal, Proposals
<1> HIDE DEF s, p
<1>5. SameProposals(layer[l].proposals, ps)
  <2> HIDE DEF ps
  <2> QED BY <1>1, <1>2, ProposalMarked DEF ps
<1>6. IsState(s)
  BY <1>1, <1>3, <1>5 DEF IsState, SameProposals
<1>7. /\ \A m \in Layers : m # l => layer'[m] = layer[m]
      /\ layer'[l].proposals = s.proposals /\ layer'[l].versions = s.versions
      /\ layer'[l].active = s.active
  BY <1>4, <1>6, WrittenState DEF ProfilesInv
<1>8. layer'[l].stateVersion = layer[l].stateVersion + 1 /\ layer[l].stateVersion \in Nat
  BY <1>1, <1>3, <1>4, <1>6, WrittenVersion DEF ProfilesInv, SoundState
<1>9. SoundState(l, layer'[l])
  <2>1. p.status \in Statuses \ {"accepted"} /\ layer[l].proposals[i].status # "accepted"
    BY <1>2, <1>4 DEF Statuses
  <2> QED BY <1>1, <1>2, <1>3, <1>7, <1>8, <2>1, SoundMarked
<1>10. ASSUME Counted(l) PROVE OneAsked(layer'[l].proposals, Asked(l)')
  <2>1. OneAsked(layer[l].proposals, Asked(l)) /\ Asked(l)' = Asked(l)
    BY <1>4, <1>10 DEF RestInv, Asked
  <2>2. /\ DOMAIN ps = DOMAIN layer[l].proposals
        /\ \A j \in DOMAIN ps : ps[j] = IF j = i THEN p ELSE layer[l].proposals[j]
    OBVIOUS
  <2>3. ~IsOpen(p)
    BY <1>2 DEF IsOpen
  <2> HIDE DEF ps
  <2>4. OneAsked(ps, Asked(l))
    BY <2>1, <2>2, <2>3, NothingOpened
  <2> QED BY <1>3, <1>7, <2>1, <2>4
<1>11. layer'[l].stateVersion >= layer[l].stateVersion
  BY <1>8
<1>12. Len(evidence') <= MaxEvidence
  BY <1>4 DEF RestInv, Surroundings
<1> QED BY <1>4, <1>7, <1>9, <1>10, <1>11, <1>12, RestWritten

LEMMA ExpiryKeepsRest ==
  ASSUME ProfilesInv, RestInv, NEW i \in DOMAIN Proposals("strategy"), WindowExpires(i)
  PROVE  RestInv'
<1> DEFINE l  == "strategy"
           p  == [layer[l].proposals[i] EXCEPT !.expired = TRUE]
           ps == [layer[l].proposals EXCEPT ![i] = p]
           s  == [layer[l] EXCEPT !.proposals = ps]
<1>1. l \in Layers /\ IsState(layer[l]) /\ i \in DOMAIN layer[l].proposals /\ DOMAIN layer = Layers
      /\ SoundState(l, layer[l])
  BY DEF ProfilesInv, Shape, Proposals, Layers, RestInv
<1>2. /\ DOMAIN p = ProposalFields
      /\ p.status = layer[l].proposals[i].status /\ p.payload = layer[l].proposals[i].payload
      /\ p.by = layer[l].proposals[i].by /\ p.input = layer[l].proposals[i].input
  BY <1>1 DEF IsState, ProposalFields
<1>3. /\ s.proposals = ps /\ s.versions = layer[l].versions
      /\ s.active = layer[l].active /\ s.stateVersion = layer[l].stateVersion
  BY <1>1 DEF IsState
<1>4. /\ layer' = [layer EXCEPT ![l] = s]
      /\ UNCHANGED <<evidence, calls, facts, changes, profile, deletes, copy, limit>>
      /\ layer[l].proposals[i].status = "proposed"
  BY DEF WindowExpires, Proposals
<1> HIDE DEF s, p
<1>5. layer'[l] = s /\ \A m \in Layers : m # l => layer'[m] = layer[m]
  BY <1>1, <1>4
<1>6. layer'[l].stateVersion = layer[l].stateVersion /\ layer[l].stateVersion \in Nat
  BY <1>1, <1>3, <1>5 DEF SoundState
<1>7. SoundState(l, layer'[l])
  <2>1. p.status \in Statuses \ {"accepted"} /\ layer[l].proposals[i].status # "accepted"
    BY <1>2, <1>4 DEF Statuses
  <2> QED BY <1>1, <1>2, <1>3, <1>5, <1>6, <2>1, SoundMarked
<1>8. ASSUME Counted(l) PROVE OneAsked(layer'[l].proposals, Asked(l)')
  <2>1. OneAsked(layer[l].proposals, Asked(l)) /\ Asked(l)' = Asked(l)
    BY <1>1, <1>4, <1>8 DEF RestInv, Asked
  <2>2. /\ DOMAIN ps = DOMAIN layer[l].proposals
        /\ \A j \in DOMAIN ps : ps[j] = IF j = i THEN p ELSE layer[l].proposals[j]
    OBVIOUS
  <2>3. \A j \in DOMAIN ps : IsOpen(ps[j]) => IsOpen(layer[l].proposals[j]) /\ ps[j].input = layer[l].proposals[j].input
    BY <1>2, <2>2 DEF IsOpen
  <2> HIDE DEF ps
  <2>4. OneAsked(ps, Asked(l))
    BY <2>1, <2>2, <2>3, NothingOpened
  <2> QED BY <1>3, <1>5, <2>1, <2>4
<1>9. layer'[l].stateVersion >= layer[l].stateVersion
  BY <1>6
<1>10. Len(evidence') <= MaxEvidence
  BY <1>4 DEF RestInv, Surroundings
<1> QED BY <1>1, <1>4, <1>5, <1>7, <1>8, <1>9, <1>10, RestWritten


\* The rest of an activation.
LEMMA ActivationKeepsRest ==
  ASSUME ProfilesInv, RestInv, NEW l \in Layers, NEW n \in DOMAIN Versions(l), ActivateVersion(l, n)
  PROVE  RestInv'
<1> DEFINE old == Archived(layer[l].versions)
           v   == [old[n] EXCEPT !.status = "active"]
           vs  == [old EXCEPT ![n] = v]
           s   == [layer[l] EXCEPT !.active = Versions(l)[n].id,
                                   !.versions = [Archived(@) EXCEPT ![n].status = "active"]]
<1>1. IsState(layer[l]) /\ n \in DOMAIN layer[l].versions /\ SoundState(l, layer[l])
  BY DEF ProfilesInv, Shape, Versions, RestInv
<1>2. /\ IsLog(old) /\ DOMAIN old = DOMAIN layer[l].versions
      /\ \A m \in DOMAIN old : DOMAIN old[m] = VersionFields
  BY <1>1, VersionsArchived DEF IsState
<1>3. /\ DOMAIN s = DOMAIN layer[l] /\ s.proposals = layer[l].proposals /\ s.versions = vs
      /\ s.active = layer[l].versions[n].id /\ s.stateVersion = layer[l].stateVersion
  BY <1>1 DEF IsState, Versions
<1>4. Write(l, s) /\ UNCHANGED <<evidence, calls, facts, changes, profile, deletes, copy, limit>>
      /\ (l = "jobMatch" => profile)
  BY DEF ActivateVersion
<1> HIDE DEF s
<1>5. IsState(s)
  <2> HIDE DEF old
  <2>1. DOMAIN v = VersionFields
    BY <1>1, <1>2
  <2> HIDE DEF v
  <2>2. IsLog(vs) /\ DOMAIN vs = DOMAIN old
    BY <1>2, OneRewritten
  <2>3. \A m \in DOMAIN vs : DOMAIN vs[m] = VersionFields
    BY <1>2, <2>1, <2>2
  <2> HIDE DEF vs
  <2> QED BY <1>1, <1>3, <2>2, <2>3 DEF IsState
<1>6. /\ \A m \in Layers : m # l => layer'[m] = layer[m]
      /\ layer'[l].proposals = s.proposals /\ layer'[l].versions = s.versions
      /\ layer'[l].active = s.active
  BY <1>4, <1>5, WrittenState DEF ProfilesInv
<1>7. layer'[l].stateVersion = layer[l].stateVersion + 1 /\ layer[l].stateVersion \in Nat
  BY <1>1, <1>3, <1>4, <1>5, WrittenVersion DEF ProfilesInv, SoundState
<1>8. SoundState(l, layer'[l])
  <2>1. layer'[l].stateVersion \in Nat /\ layer'[l].proposals = layer[l].proposals
        /\ layer'[l].versions = vs /\ layer'[l].active = layer[l].versions[n].id
    BY <1>3, <1>6, <1>7
  <2>2. PICK t : t = layer'[l]
    OBVIOUS
  <2>3. Activation(layer[l], n, v, t)
    BY <2>1, <2>2 DEF Activation
  <2> HIDE DEF v
  <2>4. SoundState(l, t)
    BY <1>1, <2>3, SoundActivated
  <2> QED BY <2>2, <2>4
<1>9. Counted(l) => OneAsked(layer'[l].proposals, Asked(l)')
  BY <1>3, <1>4, <1>6 DEF RestInv, Asked
<1>10. layer'[l].stateVersion >= layer[l].stateVersion
  BY <1>7
<1>11. Len(evidence') <= MaxEvidence
  BY <1>4 DEF RestInv, Surroundings
<1> QED BY <1>4, <1>6, <1>8, <1>9, <1>10, <1>11, RestWritten

\* The rest of an acceptance.
LEMMA AcceptanceKeepsRest ==
  ASSUME ProfilesInv, RestInv, NEW l \in Layers, NEW i \in DOMAIN Proposals(l),
         NEW payload \in PayloadsOf(l), AcceptProposal(l, i, payload)
  PROVE  RestInv'
<1> DEFINE p   == [layer[l].proposals[i] EXCEPT !.status = "accepted"]
           ps  == [layer[l].proposals EXCEPT ![i] = p]
           old == Archived(layer[l].versions)
           v   == NewVersion(l, i, payload)
           vs  == Append(old, v)
           s   == WithVersion(l, i, payload)
<1>1. IsState(layer[l]) /\ i \in DOMAIN layer[l].proposals /\ SoundState(l, layer[l])
  BY DEF ProfilesInv, Shape, Proposals, RestInv
<1>2. /\ DOMAIN p = ProposalFields /\ SameDraft(layer[l].proposals[i], p)
      /\ p.status = "accepted" /\ p.payload = layer[l].proposals[i].payload
  BY <1>1 DEF IsState, ProposalFields, SameDraft
<1>3. /\ IsLog(old) /\ DOMAIN old = DOMAIN layer[l].versions
      /\ \A m \in DOMAIN old : DOMAIN old[m] = VersionFields
  BY <1>1, VersionsArchived DEF IsState
<1>4. /\ DOMAIN v = VersionFields /\ v.payload = payload /\ v.proposal = i /\ v.status = "active"
      /\ v.supersedes = layer[l].active
      /\ \E d \in Nat : v.id = <<d, Len(layer[l].versions) + 1>>
  <2>1. deletes \in Nat
    BY DEF RestInv, Surroundings
  <2> QED BY <2>1 DEF NewVersion, VersionFields, Versions
<1>5. /\ DOMAIN s = DOMAIN layer[l] /\ s.proposals = ps /\ s.versions = vs
      /\ s.active = v.id /\ s.stateVersion = layer[l].stateVersion
  BY <1>1 DEF IsState, WithVersion
<1>6. /\ Write(l, s) /\ UNCHANGED <<evidence, calls, facts, changes, profile, deletes, copy, limit>>
      /\ layer[l].proposals[i].status = "proposed" /\ (l = "jobMatch" => profile)
  BY DEF AcceptProposal, Proposals
<1> HIDE DEF s, p, v
<1>7. IsState(s)
  <2> HIDE DEF old
  <2>1. SameProposals(layer[l].proposals, ps)
    <3> HIDE DEF ps
    <3> QED BY <1>1, <1>2, ProposalMarked DEF ps
  <2>2. IsLog(vs) /\ DOMAIN vs = DOMAIN old \cup {Len(old) + 1} /\ vs[Len(old) + 1] = v
        /\ \A m \in DOMAIN old : vs[m] = old[m]
    BY <1>3, LogAppended
  <2> HIDE DEF vs, ps
  <2>3. \A m \in DOMAIN vs : DOMAIN vs[m] = VersionFields
    BY <1>3, <1>4, <2>2
  <2> QED BY <1>1, <1>5, <2>1, <2>2, <2>3 DEF IsState, SameProposals
<1>8. /\ \A m \in Layers : m # l => layer'[m] = layer[m]
      /\ layer'[l].proposals = s.proposals /\ layer'[l].versions = s.versions
      /\ layer'[l].active = s.active
  BY <1>6, <1>7, WrittenState DEF ProfilesInv
<1>9. layer'[l].stateVersion = layer[l].stateVersion + 1 /\ layer[l].stateVersion \in Nat
  BY <1>1, <1>5, <1>6, <1>7, WrittenVersion DEF ProfilesInv, SoundState
<1>10. SoundState(l, layer'[l])
  <2>1. PICK t : t = layer'[l]
    OBVIOUS
  <2>2. Acceptance(l, layer[l], i, p, v, t)
    BY <1>2, <1>4, <1>5, <1>6, <1>8, <1>9, <2>1 DEF Acceptance
  <2>3. SoundState(l, t)
    BY <1>1, <2>2, SoundAccepted
  <2> QED BY <2>1, <2>3
<1>11. ASSUME Counted(l) PROVE OneAsked(layer'[l].proposals, Asked(l)')
  <2>1. OneAsked(layer[l].proposals, Asked(l)) /\ Asked(l)' = Asked(l)
    BY <1>6, <1>11 DEF RestInv, Asked
  <2>2. /\ DOMAIN ps = DOMAIN layer[l].proposals
        /\ \A j \in DOMAIN ps : ps[j] = IF j = i THEN p ELSE layer[l].proposals[j]
    OBVIOUS
  <2>3. ~IsOpen(p)
    BY <1>2 DEF IsOpen
  <2> HIDE DEF ps
  <2>4. OneAsked(ps, Asked(l))
    BY <2>1, <2>2, <2>3, NothingOpened
  <2> QED BY <1>5, <1>8, <2>1, <2>4
<1>12. layer'[l].stateVersion >= layer[l].stateVersion
  BY <1>9
<1>13. Len(evidence') <= MaxEvidence
  BY <1>6 DEF RestInv, Surroundings
<1> QED BY <1>6, <1>8, <1>10, <1>11, <1>12, <1>13, RestWritten

\* What is done to the evidence only raises the version of the baseline's state.
LEMMA EvidenceKeepsRest ==
  ASSUME ProfilesInv, RestInv, Write("baseline", layer["baseline"]),
         Len(evidence') <= MaxEvidence, calls' \subseteq calls,
         UNCHANGED <<facts, changes, profile, deletes, copy, limit>>
  PROVE  RestInv'
<1> DEFINE l == "baseline"
<1>1. l \in Layers /\ IsState(layer[l]) /\ SoundState(l, layer[l])
  BY DEF ProfilesInv, Shape, Layers, RestInv
<1>2. /\ \A m \in Layers : m # l => layer'[m] = layer[m]
      /\ layer'[l].proposals = layer[l].proposals /\ layer'[l].versions = layer[l].versions
      /\ layer'[l].active = layer[l].active
  BY <1>1, WrittenState DEF ProfilesInv
<1>3. layer'[l].stateVersion = layer[l].stateVersion + 1 /\ layer[l].stateVersion \in Nat
  BY <1>1, WrittenVersion DEF ProfilesInv, SoundState
<1>4. SoundState(l, layer'[l])
  BY <1>1, <1>2, <1>3 DEF SoundState, SoundVersion, ActiveFound
<1>5. ~Counted(l) /\ layer'[l].stateVersion >= layer[l].stateVersion
  BY <1>3 DEF Counted
<1> QED BY <1>1, <1>2, <1>4, <1>5, RestWritten

LEMMA EvidenceStepKeepsRest ==
  ASSUME ProfilesInv, RestInv,
         \/ \E content \in Contents : CreateManualEvidence(content)
         \/ \E e \in DOMAIN evidence, content \in Contents, status \in {"accepted", "rejected", "deferred"} :
              DecideEvidence(e, status, content)
         \/ \E c \in calls : FinishEvidenceGeneration(c)
  PROVE  RestInv'
<1>0. evidence \in Seq(Evidence) /\ Len(evidence) <= MaxEvidence /\ Len(evidence) \in Nat /\ MaxEvidence \in Nat
  BY ProfilesAssumption DEF ProfilesInv, Shape, RestInv, Surroundings
<1>1. ASSUME NEW content \in Contents, CreateManualEvidence(content) PROVE RestInv'
  <2>1. PICK e : evidence' = Append(evidence, e)
    BY <1>1 DEF CreateManualEvidence
  <2>2. Len(evidence') = Len(evidence) + 1
    BY <1>0, <2>1
  <2>3. Len(evidence') <= MaxEvidence
    BY <1>0, <1>1, <2>2 DEF CreateManualEvidence
  <2> QED BY <1>1, <2>3, EvidenceKeepsRest DEF CreateManualEvidence
<1>2. ASSUME NEW e \in DOMAIN evidence, NEW content \in Contents,
             NEW status \in {"accepted", "rejected", "deferred"}, DecideEvidence(e, status, content)
      PROVE  RestInv'
  <2> DEFINE entry == [content |-> content, status |-> status]
  <2>1. entry \in Evidence
    BY DEF Evidence
  <2>2. evidence' = [evidence EXCEPT ![e] = entry]
    BY <1>2 DEF DecideEvidence
  <2> HIDE DEF entry
  <2>3. Len(evidence') = Len(evidence)
    BY <1>0, <2>1, <2>2
  <2>4. Len(evidence') <= MaxEvidence
    BY <1>0, <2>3
  <2> QED BY <1>2, <2>4, EvidenceKeepsRest DEF DecideEvidence
<1>3. ASSUME NEW c \in calls, FinishEvidenceGeneration(c) PROVE RestInv'
  <2>1. PICK new \in SUBSET {x \in Contents : ~IsDuplicate(x)} :
           /\ Len(evidence) + Cardinality(new) <= MaxEvidence
           /\ \E added \in [1..Cardinality(new) -> new] :
                evidence' = evidence \o [k \in DOMAIN added |-> Candidate(added[k])]
    BY <1>3 DEF FinishEvidenceGeneration
  <2>2. PICK added \in [1..Cardinality(new) -> new] :
           evidence' = evidence \o [k \in DOMAIN added |-> Candidate(added[k])]
    BY <2>1
  <2> DEFINE more == [k \in DOMAIN added |-> Candidate(added[k])]
  <2>3. Cardinality(new) \in Nat
    <3>1. new \subseteq Contents
      OBVIOUS
    <3> QED BY <3>1, ProfilesAssumption, FS_Subset, FS_CardinalityType
  <2>4. PICK n \in Nat : n = Cardinality(new)
    BY <2>3
  <2>5. more \in Seq(Evidence) /\ Len(more) = n
    <3>1. \A x \in Contents : Candidate(x) \in Evidence
      BY DEF Candidate, Evidence
    <3> QED BY <2>4, <3>1
  <2> HIDE DEF more
  <2>6. evidence' = evidence \o more
    BY <2>2 DEF more
  <2>7. Len(evidence') = Len(evidence) + n
    <3>1. Len(evidence \o more) = Len(evidence) + Len(more)
      BY <1>0, <2>5
    <3> QED BY <2>5, <2>6, <3>1
  <2>8. Len(evidence') <= MaxEvidence
    BY <2>1, <2>4, <2>7
  <2> QED BY <1>3, <2>8, EvidenceKeepsRest DEF FinishEvidenceGeneration
<1> QED BY <1>1, <1>2, <1>3

\* A generation starts, on an input that no other and no open proposal of a model is on.
LEMMA CallStartsRest ==
  ASSUME ProfilesInv, RestInv, NEW l \in Layers, NEW kind, NEW key,
         calls' = calls \cup {Call(l, kind, key)},
         l # "baseline" => OpenAiProposals(l, Input(l)) = {} /\ PendingOn(l, Input(l)) = {},
         UNCHANGED <<layer, evidence, facts, changes, profile, deletes, copy, limit>>
  PROVE  RestInv'
<1> DEFINE c == Call(l, kind, key)
<1>1. c.layer = l /\ c.input = Input(l) /\ c.expected = layer[l].stateVersion
  BY DEF Call, StateVersion
<1> HIDE DEF c
<1>2. calls' = calls \cup {c} /\ layer[l].stateVersion \in Nat
  BY DEF c, RestInv, SoundState
<1>3. Surroundings'
  BY <1>1, <1>2 DEF RestInv, Surroundings
<1>4. ASSUME NEW m \in Layers, Counted(m) PROVE OneAsked(layer[m].proposals, Asked(m)')
  <2>1. OneAsked(layer[m].proposals, Asked(m))
    BY <1>4 DEF RestInv
  <2>2. CASE m # l
    <3>1. Asked(m)' = Asked(m)
      BY <1>1, <1>2, <2>2 DEF Asked
    <3> QED BY <2>1, <3>1
  <2>3. CASE m = l
    <3>1. Asked(m)' = Asked(m) \cup {c}
      BY <1>1, <1>2, <2>3 DEF Asked
    <3>2. \A d \in Asked(m) : d.input # c.input
      BY <1>1, <1>4, <2>3 DEF Asked, PendingOn, Counted
    <3>3. \A i \in DOMAIN layer[m].proposals : IsOpen(layer[m].proposals[i]) => layer[m].proposals[i].input # c.input
      BY <1>1, <1>4, <2>3 DEF OpenAiProposals, Proposals, IsOpen, Counted
    <3> QED BY <2>1, <3>1, <3>2, <3>3 DEF OneAsked
  <2> QED BY <2>2, <2>3
<1>5. \A m \in Layers : Counted(m)' => OneAsked(layer[m].proposals, Asked(m))'
  BY <1>4 DEF Counted
<1> QED BY <1>3, <1>5 DEF RestInv

\* A step that writes no layer and no evidence, and starts no generation.
LEMMA QuietKeepsRest ==
  ASSUME RestInv, UNCHANGED <<layer, evidence, profile, deletes, limit>>, SoundState("jobMatch", copy'),
         calls' \subseteq calls, facts' \in Facts, changes' \in Nat
  PROVE  RestInv'
<1>1. Surroundings'
  BY DEF RestInv, Surroundings
<1>2. ASSUME NEW m \in Layers, Counted(m) PROVE OneAsked(layer[m].proposals, Asked(m)')
  <2>1. Asked(m)' \subseteq Asked(m)
    BY DEF Asked
  <2>2. OneAsked(layer[m].proposals, Asked(m))
    BY <1>2 DEF RestInv
  <2> QED BY <2>1, <2>2, NothingOpened
<1>3. \A m \in Layers : Counted(m)' => OneAsked(layer[m].proposals, Asked(m))'
  BY <1>2 DEF Counted
<1> QED BY <1>1, <1>3 DEF RestInv

\* The job-match state goes or returns; while no profile was deleted it stays what it is.
LEMMA ReplacementKeepsRest ==
  ASSUME ProfilesInv, RestInv, NEW s, SoundState("jobMatch", s), layer' = [layer EXCEPT !["jobMatch"] = s],
         deletes' \in Nat, profile' \in BOOLEAN, ~profile' => s = EmptyState /\ deletes' # 0,
         deletes' = 0 => /\ deletes = 0 /\ s.proposals = layer["jobMatch"].proposals
                         /\ s.stateVersion >= layer["jobMatch"].stateVersion,
         UNCHANGED <<evidence, calls, facts, changes, copy, limit>>
  PROVE  RestInv'
<1>1. /\ layer'["jobMatch"] = s
      /\ \A m \in Layers : m # "jobMatch" => layer'[m] = layer[m]
  BY DEF ProfilesInv, Shape, Layers
<1>2. Surroundings'
  <2>1. \A m \in Layers : layer[m].stateVersion \in Nat
    BY DEF RestInv, SoundState
  <2>2. \A c \in calls : c.layer \in Layers
    BY DEF ProfilesInv, Shape
  <2>3. s.stateVersion \in Nat
    BY DEF SoundState
  <2>4. ASSUME NEW c \in calls, deletes' = 0 PROVE c.expected <= layer'[c.layer].stateVersion
    <3>1. c.expected \in Nat /\ c.expected <= layer[c.layer].stateVersion
      BY <2>4 DEF RestInv, Surroundings
    <3>2. layer'[c.layer].stateVersion >= layer[c.layer].stateVersion
      BY <1>1, <2>1, <2>2, <2>4
    <3>3. layer'[c.layer].stateVersion \in Nat
      BY <1>1, <2>1, <2>2, <2>3
    <3> QED BY <2>1, <2>2, <3>1, <3>2, <3>3
  <2> QED BY <1>1, <2>4 DEF RestInv, Surroundings
<1>3. \A m \in Layers : SoundState(m, layer'[m])
  BY <1>1 DEF RestInv
<1>4. \A m \in Layers : Counted(m)' => OneAsked(layer[m].proposals, Asked(m))'
  <2>1. \A m \in Layers : Counted(m)' => Counted(m) /\ layer'[m].proposals = layer[m].proposals
    BY <1>1 DEF Counted
  <2> QED BY <2>1 DEF RestInv, Asked
<1> QED BY <1>2, <1>3, <1>4 DEF RestInv

LEMMA InitRest == Init => RestInv
<1> SUFFICES ASSUME Init PROVE RestInv
  OBVIOUS
<1>1. \A l \in Layers : layer[l] = EmptyState /\ Asked(l) = {}
  BY DEF Init, Asked
<1>2. Surroundings
  BY ProfilesAssumption DEF Init, Surroundings
<1>3. SoundState("jobMatch", copy)
  BY EmptyIsSound DEF Init, Layers
<1> QED BY <1>1, <1>2, <1>3, EmptyIsSound DEF RestInv

LEMMA CommandKeepsRest ==
  ASSUME ProfilesInv, RestInv, NEW l \in Layers, Command(l)
  PROVE  RestInv'
<1>1. CASE \E key \in Keys : GenerateProposal(l, key)
  <2>1. PICK key \in Keys : GenerateProposal(l, key)
    BY <1>1
  <2> QED BY <2>1, CallStartsRest DEF GenerateProposal
<1>2. ASSUME NEW payload \in PayloadsOf(l), CreateManualProposal(l, payload) PROVE RestInv'
  BY <1>2, ProposalKeepsRest DEF CreateManualProposal
<1>3. CASE \E payload \in PayloadsOf(l), i \in DOMAIN Proposals(l) : AcceptProposal(l, i, payload)
  BY <1>3, AcceptanceKeepsRest
<1>4. CASE \E i \in DOMAIN Proposals(l), status \in {"rejected", "deferred"} : DecideProposal(l, i, status)
  BY <1>4, DecisionKeepsRest
<1>5. CASE \E n \in DOMAIN Versions(l) : ActivateVersion(l, n)
  BY <1>5, ActivationKeepsRest
<1> QED BY <1>1, <1>2, <1>3, <1>4, <1>5 DEF Command

LEMMA NextKeepsRest ==
  ASSUME ProfilesInv, RestInv, CopyInv, Next
  PROVE  RestInv'
<1>0. /\ SoundState("jobMatch", copy) /\ facts \in Facts /\ changes \in Nat /\ deletes \in Nat
      /\ profile \in BOOLEAN /\ (~profile => deletes # 0)
      /\ SoundState("jobMatch", layer["jobMatch"]) /\ SoundState("jobMatch", EmptyState)
  BY EmptyIsSound DEF RestInv, Surroundings, Layers
<1>1. CASE \E l \in Layers : Command(l)
  BY <1>1, CommandKeepsRest
<1>2. CASE EvidenceCommand
  <2>1. ASSUME NEW key \in Keys, GenerateEvidence(key) PROVE RestInv'
    <3>1. "baseline" \in Layers
      BY DEF Layers
    <3> QED BY <2>1, <3>1, CallStartsRest DEF GenerateEvidence
  <2> QED BY <1>2, <2>1, EvidenceStepKeepsRest DEF EvidenceCommand
<1>3. ASSUME NEW c \in calls, FinishAiGeneration(c) PROVE RestInv'
  <2>1. c.layer \in Layers
    BY DEF ProfilesInv, Shape
  <2>2. PICK payload \in Answers(c.layer, c.input) :
          Write(c.layer, WithProposal(c.layer, Proposal(c.layer, payload, "ai", c.input)))
    BY <1>3 DEF FinishAiGeneration
  <2>3. /\ Ready(c.layer) /\ calls' = calls \ {c}
        /\ UNCHANGED <<evidence, facts, changes, profile, deletes, copy, limit>>
    BY <1>3 DEF FinishAiGeneration
  <2>4. payload \in PayloadsOf(c.layer)
    BY <2>1, <2>3, AnswersAreDrafts
  <2> QED BY <2>1, <2>2, <2>3, <2>4, ProposalKeepsRest
<1>4. CASE \E c \in calls : FinishEvidenceGeneration(c)
  BY <1>4, EvidenceStepKeepsRest
<1>5. CASE \E c \in calls : GenerationFails(c)
  BY <1>0, <1>5, QuietKeepsRest DEF GenerationFails
<1>6. CASE \E i \in DOMAIN Proposals("strategy") : WindowExpires(i)
  BY <1>6, ExpiryKeepsRest
<1>7. CASE \E f \in Facts : FactsChange(f)
  BY <1>0, <1>7, QuietKeepsRest DEF FactsChange
<1>8. CASE LoadProfile
  BY <1>0, <1>8, QuietKeepsRest DEF LoadProfile
<1>9. CASE DeleteProfile
  <2>1. /\ layer' = [layer EXCEPT !["jobMatch"] = EmptyState]
        /\ profile' = FALSE /\ deletes' = deletes + 1
        /\ UNCHANGED <<evidence, calls, facts, changes, copy, limit>>
    BY <1>9 DEF DeleteProfile
  <2>2. deletes' \in Nat /\ deletes' # 0
    BY <1>0, <2>1
  <2>3. profile' \in BOOLEAN
    BY <2>1
  <2> QED BY <1>0, <2>1, <2>2, <2>3, ReplacementKeepsRest
<1>10. ASSUME NEW body \in {EmptyState, copy}, SaveProfile(body) PROVE RestInv'
  <2>1. SoundState("jobMatch", body)
    BY <1>0
  <2>2. /\ layer' = [layer EXCEPT !["jobMatch"] = body] /\ layer["jobMatch"].stateVersion = 0
        /\ profile' = TRUE /\ deletes' = deletes
        /\ UNCHANGED <<evidence, calls, facts, changes, copy, limit>>
    BY <1>10 DEF SaveProfile, StateVersion
  <2>3. body.stateVersion \in Nat /\ copy.stateVersion \in Nat
    BY <1>0, <2>1 DEF SoundState
  <2>4. deletes = 0 => body.proposals = layer["jobMatch"].proposals
    <3>1. EmptyState.proposals = << >>
      BY DEF EmptyState
    <3>2. deletes = 0 => copy.stateVersion = 0
      BY <2>2, <2>3 DEF CopyInv
    <3> QED BY <1>10, <2>2, <3>1, <3>2 DEF CopyInv
  <2>5. body.stateVersion >= layer["jobMatch"].stateVersion
    BY <2>2, <2>3
  <2> QED BY <1>0, <2>1, <2>2, <2>4, <2>5, ReplacementKeepsRest
<1> QED BY <1>1, <1>2, <1>3, <1>4, <1>5, <1>6, <1>7, <1>8, <1>9, <1>10 DEF Next

\* What a step writes of the job-match state, or of a layer, moves its version by one.
LEMMA WriteMoves ==
  ASSUME ProfilesInv, NEW l \in Layers, NEW s, Write(l, s), s.stateVersion = layer[l].stateVersion,
         "stateVersion" \in DOMAIN s
  PROVE  \/ layer'["jobMatch"] = layer["jobMatch"]
         \/ layer'["jobMatch"].stateVersion = layer["jobMatch"].stateVersion + 1
<1> DEFINE t == [s EXCEPT !.stateVersion = @ + 1]
<1>1. t.stateVersion = s.stateVersion + 1
  OBVIOUS
<1>2. layer' = [layer EXCEPT ![l] = t]
  BY DEF Write
<1> HIDE DEF t
<1>3. CASE l = "jobMatch"
  BY <1>1, <1>2, <1>3 DEF ProfilesInv, Shape
<1>4. CASE l # "jobMatch"
  BY <1>2, <1>4 DEF ProfilesInv, Shape, Layers
<1> QED BY <1>3, <1>4

\* Every command that writes a layer does so.
LEMMA CommandMoves ==
  ASSUME ProfilesInv, NEW l \in Layers, Command(l)
  PROVE  /\ UNCHANGED <<copy, deletes>>
         /\ \/ layer'["jobMatch"] = layer["jobMatch"]
            \/ layer'["jobMatch"].stateVersion = layer["jobMatch"].stateVersion + 1
<1>0. "stateVersion" \in DOMAIN layer[l]
  BY DEF ProfilesInv, Shape, IsState
<1>1. CASE \E key \in Keys : GenerateProposal(l, key)
  BY <1>1 DEF GenerateProposal
<1>2. ASSUME NEW payload \in PayloadsOf(l), CreateManualProposal(l, payload)
      PROVE  /\ UNCHANGED <<copy, deletes>>
             /\ \E s : Write(l, s) /\ s.stateVersion = layer[l].stateVersion /\ "stateVersion" \in DOMAIN s
  BY <1>0, <1>2 DEF CreateManualProposal, WithProposal
<1>3. ASSUME NEW payload \in PayloadsOf(l), NEW i \in DOMAIN Proposals(l), AcceptProposal(l, i, payload)
      PROVE  /\ UNCHANGED <<copy, deletes>>
             /\ \E s : Write(l, s) /\ s.stateVersion = layer[l].stateVersion /\ "stateVersion" \in DOMAIN s
  <2> DEFINE s == WithVersion(l, i, payload)
  <2>1. IsState(layer[l])
    BY DEF ProfilesInv, Shape
  <2>2. s.stateVersion = layer[l].stateVersion /\ "stateVersion" \in DOMAIN s
    BY <2>1 DEF IsState, WithVersion
  <2>3. Write(l, s) /\ UNCHANGED <<copy, deletes>>
    BY <1>3 DEF AcceptProposal
  <2> HIDE DEF s
  <2> QED BY <2>2, <2>3
<1>4. ASSUME NEW i \in DOMAIN Proposals(l), NEW status, DecideProposal(l, i, status)
      PROVE  /\ UNCHANGED <<copy, deletes>>
             /\ \E s : Write(l, s) /\ s.stateVersion = layer[l].stateVersion /\ "stateVersion" \in DOMAIN s
  BY <1>0, <1>4 DEF DecideProposal
<1>5. ASSUME NEW n \in DOMAIN Versions(l), ActivateVersion(l, n)
      PROVE  /\ UNCHANGED <<copy, deletes>>
             /\ \E s : Write(l, s) /\ s.stateVersion = layer[l].stateVersion /\ "stateVersion" \in DOMAIN s
  BY <1>0, <1>5 DEF ActivateVersion
<1>6. ASSUME NEW s, Write(l, s), s.stateVersion = layer[l].stateVersion, "stateVersion" \in DOMAIN s
      PROVE  \/ layer'["jobMatch"] = layer["jobMatch"]
             \/ layer'["jobMatch"].stateVersion = layer["jobMatch"].stateVersion + 1
  BY <1>6, WriteMoves
<1> QED BY <1>1, <1>2, <1>3, <1>4, <1>5, <1>6 DEF Command

LEMMA NextKeepsCopy ==
  ASSUME ProfilesInv, RestInv, CopyInv, Next
  PROVE  CopyInv'
<1>0. layer["jobMatch"].stateVersion \in Nat /\ copy.stateVersion \in Nat
  BY DEF RestInv, SoundState, Layers
<1>1. ASSUME UNCHANGED <<copy, deletes>>,
             \/ layer'["jobMatch"] = layer["jobMatch"]
             \/ layer'["jobMatch"].stateVersion = layer["jobMatch"].stateVersion + 1
      PROVE  CopyInv'
  BY <1>0, <1>1 DEF CopyInv
<1>2. CASE \E l \in Layers : Command(l)
  BY <1>1, <1>2, CommandMoves
<1>3. CASE EvidenceCommand \/ \E c \in calls : FinishEvidenceGeneration(c)
  <2>1. UNCHANGED <<copy, deletes>>
    BY <1>3 DEF EvidenceCommand, FinishEvidenceGeneration, GenerateEvidence, CreateManualEvidence, DecideEvidence
  <2>2. layer' = layer \/ Write("baseline", layer["baseline"])
    BY <1>3 DEF EvidenceCommand, FinishEvidenceGeneration, GenerateEvidence, CreateManualEvidence, DecideEvidence
  <2>3. layer'["jobMatch"] = layer["jobMatch"]
    BY <2>2 DEF Write, ProfilesInv, Shape, Layers
  <2> QED BY <1>1, <2>1, <2>3
<1>4. ASSUME NEW c \in calls, FinishAiGeneration(c) PROVE CopyInv'
  <2>1. c.layer \in Layers /\ "stateVersion" \in DOMAIN layer[c.layer] /\ UNCHANGED <<copy, deletes>>
    BY <1>4 DEF FinishAiGeneration, ProfilesInv, Shape, IsState
  <2>2. PICK p : Write(c.layer, WithProposal(c.layer, p))
    BY <1>4 DEF FinishAiGeneration
  <2>3. WithProposal(c.layer, p).stateVersion = layer[c.layer].stateVersion
        /\ "stateVersion" \in DOMAIN WithProposal(c.layer, p)
    BY <2>1 DEF WithProposal
  <2> QED BY <1>1, <2>1, <2>2, <2>3, WriteMoves
<1>5. CASE \E c \in calls : GenerationFails(c)
  BY <1>1, <1>5 DEF GenerationFails
<1>6. CASE \E i \in DOMAIN Proposals("strategy") : WindowExpires(i)
  <2>1. UNCHANGED <<copy, deletes>> /\ layer'["jobMatch"] = layer["jobMatch"]
    BY <1>6 DEF WindowExpires, ProfilesInv, Shape, Layers
  <2> QED BY <1>1, <2>1
<1>7. CASE \E f \in Facts : FactsChange(f)
  BY <1>1, <1>7 DEF FactsChange
<1>8. CASE LoadProfile
  BY <1>0, <1>8 DEF LoadProfile, CopyInv
<1>9. EmptyState.stateVersion = 0 /\ EmptyState.proposals = << >>
  BY DEF EmptyState
<1>10. CASE DeleteProfile
  <2>1. layer'["jobMatch"] = EmptyState /\ copy' = copy /\ deletes' = deletes + 1 /\ deletes \in Nat
    BY <1>10 DEF DeleteProfile, ProfilesInv, Shape, Layers, RestInv, Surroundings
  <2> QED BY <1>9, <2>1 DEF CopyInv
<1>11. ASSUME NEW body \in {EmptyState, copy}, SaveProfile(body) PROVE CopyInv'
  <2>1. /\ layer'["jobMatch"] = body /\ copy' = copy /\ deletes' = deletes
        /\ layer["jobMatch"].stateVersion = 0
    BY <1>11 DEF SaveProfile, StateVersion, ProfilesInv, Shape, Layers
  <2>2. body.stateVersion = 0 => body.proposals = << >>
    BY <1>9, <1>11 DEF CopyInv
  <2>3. deletes = 0 => copy.stateVersion <= body.stateVersion
    BY <1>0, <1>9, <1>11, <2>1 DEF CopyInv
  <2> QED BY <2>1, <2>2, <2>3 DEF CopyInv
<1> QED BY <1>2, <1>3, <1>4, <1>5, <1>6, <1>7, <1>8, <1>10, <1>11 DEF Next

LEMMA RestHolds == Spec => []RestInv
<1>1. ProfilesInv /\ RestInv /\ CopyInv /\ [Next]_vars => RestInv' /\ CopyInv'
  <2>1. ASSUME ProfilesInv, RestInv, CopyInv, UNCHANGED vars PROVE RestInv' /\ CopyInv'
    BY <2>1, QuietKeepsRest DEF vars, RestInv, Surroundings, CopyInv
  <2> QED BY <2>1, NextKeepsRest, NextKeepsCopy
<1>2. Init => CopyInv
  <2>1. Init => layer["jobMatch"] = EmptyState /\ copy = EmptyState
    BY DEF Init, Layers
  <2>2. EmptyState.stateVersion = 0 /\ EmptyState.proposals = << >>
    BY DEF EmptyState
  <2> QED BY <2>1, <2>2 DEF CopyInv
<1> QED BY <1>1, <1>2, InitRest, InvHolds, PTL DEF Spec

\* A sound state is one the schemas accept.
LEMMA SoundIsAccepted ==
  ASSUME NEW l, NEW s, IsState(s), SoundState(l, s)
  PROVE  /\ {s.versions[n].id : n \in {n \in DOMAIN s.versions : s.versions[n].status = "active"}}
              = {s.active} \ {None}
         /\ \A m, n \in DOMAIN s.versions : s.versions[m].id = s.versions[n].id => m = n
         /\ \A n \in DOMAIN s.versions :
              s.versions[n].supersedes \in {None} \cup {s.versions[m].id : m \in 1..(n - 1)}
         /\ \A i \in DOMAIN s.proposals :
              Cardinality({n \in DOMAIN s.versions : s.versions[n].proposal = i})
                = IF s.proposals[i].status = "accepted" THEN 1 ELSE 0
<1>1. /\ \A m, n \in DOMAIN s.versions : s.versions[m].id = s.versions[n].id => m = n
      /\ \A n \in DOMAIN s.versions : s.versions[n].id # None
  BY IdsAreDistinct
<1>2. {s.versions[n].id : n \in {n \in DOMAIN s.versions : s.versions[n].status = "active"}} = {s.active} \ {None}
  <2>1. \A n \in DOMAIN s.versions : s.versions[n].status = "active" <=> s.versions[n].id = s.active
    BY DEF SoundState, SoundVersion
  <2>2. s.active # None => \E n \in DOMAIN s.versions : s.versions[n].id = s.active
    BY DEF SoundState, ActiveFound
  <2> QED BY <1>1, <2>1, <2>2
<1>3. \A n \in DOMAIN s.versions :
        s.versions[n].supersedes \in {None} \cup {s.versions[m].id : m \in 1..(n - 1)}
  BY DEF SoundState, SoundVersion
<1>4. ASSUME NEW i \in DOMAIN s.proposals
      PROVE  Cardinality({n \in DOMAIN s.versions : s.versions[n].proposal = i})
               = IF s.proposals[i].status = "accepted" THEN 1 ELSE 0
  <2> DEFINE made == {n \in DOMAIN s.versions : s.versions[n].proposal = i}
  <2>1. CASE s.proposals[i].status = "accepted"
    <3>1. PICK n \in DOMAIN s.versions : s.versions[n].proposal = i
      BY <2>1 DEF SoundState
    <3>2. made = {n}
      BY <3>1 DEF SoundState
    <3>3. Cardinality({n}) = 1
      BY FS_Singleton
    <3> QED BY <2>1, <3>2, <3>3
  <2>2. CASE s.proposals[i].status # "accepted"
    <3>1. made = {}
      BY <2>2 DEF SoundState, SoundVersion
    <3> QED BY <2>2, <3>1, FS_EmptySet
  <2> QED BY <2>1, <2>2
<1> QED BY <1>1, <1>2, <1>3, <1>4

\* In every layer one version is active, each version was made of one accepted proposal and
\* supersedes an earlier one, a baseline cites accepted evidence and a strategy stays within
\* its window, in whatever order evidence, proposals, versions and the profile row come and go.
THEOREM ProfilesStaySound == Spec => []ProfilesAreSound
<1>1. ProfilesInv /\ RestInv => ProfilesAreSound
  <2> SUFFICES ASSUME ProfilesInv, RestInv PROVE ProfilesAreSound
    OBVIOUS
  <2>1. \A l \in Layers : IsState(layer[l]) /\ SoundState(l, layer[l])
    BY DEF ProfilesInv, Shape, RestInv
  <2>2. StatesAreSound
    BY <2>1, SoundIsAccepted DEF StatesAreSound, Versions, Proposals
  <2>3. \A l \in Layers :
       /\ StateVersion(l) \in Nat
       /\ \A i \in DOMAIN Proposals(l) :
            /\ Proposals(l)[i].payload \in PayloadsOf(l)
            /\ Proposals(l)[i].status \in {"proposed", "accepted", "rejected", "deferred"}
       /\ \A n \in DOMAIN Versions(l) :
            /\ Versions(l)[n].payload \in PayloadsOf(l)
            /\ Versions(l)[n].proposal \in DOMAIN Proposals(l)
    BY <2>1 DEF SoundState, SoundVersion, Versions, Proposals, StateVersion, Statuses
  <2>4. TypeOK
    BY <2>2, <2>3 DEF TypeOK, ProfilesInv, Shape, RestInv, Surroundings, Evidence, StateVersion
  <2>5. GatesHold
    BY DEF ProfilesInv, Windows, Within, StandsFor, GatesHold, Versions
  <2> QED BY <2>4, <2>5 DEF ProfilesAreSound, ProfilesInv
<1> QED BY <1>1, InvHolds, RestHolds, PTL

\* A model is not asked twice about one input, nor while its proposal on that input is
\* open, however many generations run at once.
THEOREM NoQuestionTwice == Spec => []OneOpenPerInput
<1>1. RestInv => OneOpenPerInput
  <2> SUFFICES ASSUME RestInv, NEW l \in Layers \ {"baseline"}, l = "jobMatch" => deletes = 0, NEW input
               PROVE  Cardinality(OpenAiProposals(l, input)) + Cardinality(PendingOn(l, input)) <= 1
    BY DEF OneOpenPerInput
  <2> DEFINE O == OpenAiProposals(l, input)
             P == PendingOn(l, input)
  <2>1. OneAsked(layer[l].proposals, Asked(l))
    BY DEF RestInv, Counted
  <2>2. /\ \A i, j \in O : i = j
        /\ \A c, d \in P : c = d
        /\ O = {} \/ P = {}
    BY <2>1 DEF OneAsked, IsOpen, Asked, OpenAiProposals, PendingOn, Proposals
  <2> HIDE DEF O, P
  <2>3. \A S : (\A x, y \in S : x = y) => Cardinality(S) \in 0..1 /\ (S = {} => Cardinality(S) = 0)
    <3> SUFFICES ASSUME NEW S, \A x, y \in S : x = y
                 PROVE  Cardinality(S) \in 0..1 /\ (S = {} => Cardinality(S) = 0)
      OBVIOUS
    <3>1. CASE S = {}
      BY <3>1, FS_EmptySet
    <3>2. CASE S # {}
      <4>1. PICK x : S = {x}
        BY <3>2
      <4>2. Cardinality({x}) = 1
        BY FS_Singleton
      <4> QED BY <3>2, <4>1, <4>2
    <3> QED BY <3>1, <3>2
  <2>4. Cardinality(O) \in 0..1 /\ Cardinality(P) \in 0..1 /\ (O = {} => Cardinality(O) = 0) /\ (P = {} => Cardinality(P) = 0)
    BY <2>2, <2>3
  <2> QED BY <2>2, <2>4 DEF O, P
<1> QED BY <1>1, RestHolds, PTL

=============================================================================
