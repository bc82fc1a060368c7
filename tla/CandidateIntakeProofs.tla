------------------------ MODULE CandidateIntakeProofs ------------------------
(***************************************************************************)
(* Every reachable state of CandidateIntake satisfies IInv: identities are  *)
(* unique and version histories sound, in the tables and in the private     *)
(* copy of a commit in progress.  The work is in the lemmas on the table    *)
(* operators; a commit is then a sequence of MaterializeItem steps.  The    *)
(* second part is about the answers: what an outcome told the client stays  *)
(* true of the tables, whatever is committed later.                         *)
(***************************************************************************)
EXTENDS CandidateIntake, TLAPS, WellFoundedInduction, FiniteSetTheorems

-----------------------------------------------------------------------------
(* Sequences and numbers.                                                   *)

\* Append adds one element at the end and leaves the others alone.
LEMMA AppendProperties ==
  ASSUME NEW T, NEW q \in Seq(T), NEW x \in T
  PROVE  /\ Append(q, x) \in Seq(T)
         /\ DOMAIN q = 1 .. Len(q)
         /\ Len(q) \in Nat
         /\ DOMAIN Append(q, x) = 1 .. Len(q) + 1
         /\ Len(Append(q, x)) = Len(q) + 1
         /\ \A i \in 1 .. Len(q) : Append(q, x)[i] = q[i]
         /\ Append(q, x)[Len(q) + 1] = x
         /\ \A i \in 1 .. Len(q) : q[i] \in T
OBVIOUS

\* Replacing an element of a sequence.
LEMMA UpdateProperties ==
  ASSUME NEW T, NEW q \in Seq(T), NEW i \in DOMAIN q, NEW x \in T
  PROVE  /\ [q EXCEPT ![i] = x] \in Seq(T)
         /\ DOMAIN [q EXCEPT ![i] = x] = DOMAIN q
         /\ [q EXCEPT ![i] = x][i] = x
         /\ \A j \in DOMAIN q : j # i => [q EXCEPT ![i] = x][j] = q[j]
OBVIOUS

\* A nonempty set of numbers up to K has a largest element.
LEMMA MaxIsLargest ==
  ASSUME NEW K \in Nat, NEW S, S \subseteq 0 .. K, S # {}
  PROVE  Max(S) \in S /\ \A y \in S : Max(S) >= y
<1> DEFINE R == OpToRel(<, Nat)
           T == {K - y : y \in S}
<1>0. \A y \in S : y \in Nat /\ y <= K /\ K - y \in Nat
  OBVIOUS
<1>1. T \subseteq Nat /\ T # {}
  BY <1>0
<1>2. PICK x \in T : \A y \in T : ~ (<<y, x>> \in R)
  <2> HIDE DEF T
  <2> QED BY <1>1, NatLessThanWellFounded, WFMin
<1>3. PICK m \in S : x = K - m
  BY <1>2
<1>4. \A y \in S : m >= y
  <2> SUFFICES ASSUME NEW y \in S PROVE m >= y
    OBVIOUS
  <2>1. ~ (<<K - y, K - m>> \in R)
    BY <1>2, <1>3
  <2>2. y \in Nat /\ m \in Nat /\ K - y \in Nat /\ K - m \in Nat
    BY <1>0
  <2>3. ~ (K - y < K - m)
    BY <2>1, <2>2 DEF OpToRel
  <2> QED BY <2>2, <2>3
<1> QED BY <1>4 DEF Max

-----------------------------------------------------------------------------
(* The table operators.                                                     *)

\* The fields of a record of tables.
LEMMA TablesFields ==
  ASSUME NEW d \in Tables
  PROVE  /\ d.snapshots \in Seq(Snapshot)
         /\ d.sources \in Seq(Source)
         /\ d.candidates \in Seq(Candidate)
         /\ d.versions \in Seq(Version)
         /\ d.links \in SUBSET (Nat \X Nat)
BY DEF Tables

\* A snapshot more changes nothing that refers to the others.
LEMMA AppendSnapshotSound ==
  ASSUME NEW d \in Tables, TablesInv(d), NEW s \in Sessions, NEW item \in Item
  PROVE  LET e == AppendSnapshot(d, s, item)
         IN  /\ e \in Tables
             /\ TablesInv(e)
             /\ Len(e.snapshots) \in DOMAIN e.snapshots
             /\ e.snapshots[Len(e.snapshots)].item = item
<1> DEFINE x == [session |-> s, item |-> item]
           e == AppendSnapshot(d, s, item)
<1>1. x \in Snapshot
  BY DEF Snapshot
<1>2. d.snapshots \in Seq(Snapshot)
  BY TablesFields
<1> HIDE DEF x
<1>3. /\ Append(d.snapshots, x) \in Seq(Snapshot)
      /\ DOMAIN d.snapshots = 1 .. Len(d.snapshots)
      /\ Len(d.snapshots) \in Nat
      /\ DOMAIN Append(d.snapshots, x) = 1 .. Len(d.snapshots) + 1
      /\ Len(Append(d.snapshots, x)) = Len(d.snapshots) + 1
      /\ \A i \in 1 .. Len(d.snapshots) : Append(d.snapshots, x)[i] = d.snapshots[i]
      /\ Append(d.snapshots, x)[Len(d.snapshots) + 1] = x
  BY <1>1, <1>2, AppendProperties
<1>4. /\ e \in Tables
      /\ e.snapshots = Append(d.snapshots, x)
      /\ e.sources = d.sources /\ e.candidates = d.candidates
      /\ e.versions = d.versions /\ e.links = d.links
  BY <1>3 DEF AppendSnapshot, Tables, x
<1> HIDE DEF e
<1>5. VersionsAreEarnedIn(e)
  BY <1>3, <1>4 DEF TablesInv, VersionsAreEarnedIn
<1>6. OneSourcePerKeyIn(e) /\ OneCandidatePerSourceIn(e)
  BY <1>4 DEF TablesInv, OneSourcePerKeyIn, OneCandidatePerSourceIn, ByPrimarySource
<1>7. VersionHistoryIn(e)
  BY <1>4 DEF TablesInv, VersionHistoryIn, DistinctFacts, DistinctNumbers, NumberedFromOne,
              SupersedesOwn, ActiveIsOwn, VersionsOf
<1>8. Len(e.snapshots) \in DOMAIN e.snapshots /\ e.snapshots[Len(e.snapshots)].item = item
  BY <1>3, <1>4 DEF x
<1> QED BY <1>4, <1>5, <1>6, <1>7, <1>8 DEF TablesInv, e

\* So does the latest snapshot of a source.
LEMMA TouchSourceSound ==
  ASSUME NEW d \in Tables, TablesInv(d), NEW src \in DOMAIN d.sources \cup {0}, NEW snap \in Nat
  PROVE  LET e == TouchSource(d, src, snap)
         IN  /\ e \in Tables
             /\ TablesInv(e)
             /\ e.snapshots = d.snapshots /\ e.candidates = d.candidates
             /\ e.versions = d.versions
             /\ DOMAIN e.sources = DOMAIN d.sources
             /\ \A i \in DOMAIN d.sources : /\ e.sources[i].provider = d.sources[i].provider
                                            /\ e.sources[i].ext = d.sources[i].ext
                                            /\ e.sources[i].url = d.sources[i].url
<1>1. CASE src = 0
  BY <1>1 DEF TouchSource
<1>2. CASE src # 0
  <2> DEFINE e == TouchSource(d, src, snap)
             x == [d.sources[src] EXCEPT !.latest = snap]
  <2>1. d.sources \in Seq(Source) /\ src \in DOMAIN d.sources
    BY <1>2, TablesFields
  <2>2. d.sources[src] \in Source
    BY <2>1
  <2>3. x \in Source /\ x.provider = d.sources[src].provider
        /\ x.ext = d.sources[src].ext /\ x.url = d.sources[src].url
    BY <2>2 DEF Source
  <2> HIDE DEF x
  <2>4. /\ [d.sources EXCEPT ![src] = x] \in Seq(Source)
        /\ DOMAIN [d.sources EXCEPT ![src] = x] = DOMAIN d.sources
        /\ [d.sources EXCEPT ![src] = x][src] = x
        /\ \A j \in DOMAIN d.sources : j # src => [d.sources EXCEPT ![src] = x][j] = d.sources[j]
    BY <2>1, <2>3, UpdateProperties
  <2>5. e = [d EXCEPT !.sources = [d.sources EXCEPT ![src] = x]]
    BY <1>2 DEF TouchSource, x, Tables
  <2>6. /\ e \in Tables
        /\ e.sources = [d.sources EXCEPT ![src] = x]
        /\ e.snapshots = d.snapshots /\ e.candidates = d.candidates
        /\ e.versions = d.versions /\ e.links = d.links
    <3> HIDE DEF e
    <3> QED BY <2>4, <2>5 DEF Tables
  <2> HIDE DEF e
  <2>7. \A i \in DOMAIN d.sources : /\ e.sources[i].provider = d.sources[i].provider
                                    /\ e.sources[i].ext = d.sources[i].ext
                                    /\ e.sources[i].url = d.sources[i].url
    BY <2>3, <2>4, <2>6
  <2>8. DOMAIN e.sources = DOMAIN d.sources
    BY <2>4, <2>6
  <2>9. OneSourcePerKeyIn(e)
    BY <2>7, <2>8 DEF TablesInv, OneSourcePerKeyIn, HasProviderKey
  <2>10. OneCandidatePerSourceIn(e)
    BY <2>6, <2>8 DEF TablesInv, OneCandidatePerSourceIn, ByPrimarySource
  <2>11. VersionHistoryIn(e) /\ VersionsAreEarnedIn(e)
    BY <2>6 DEF TablesInv, VersionHistoryIn, DistinctFacts, DistinctNumbers, NumberedFromOne,
              SupersedesOwn, ActiveIsOwn, VersionsOf, VersionsAreEarnedIn
  <2> QED BY <2>6, <2>7, <2>8, <2>9, <2>10, <2>11 DEF TablesInv, e
<1> QED BY <1>1, <1>2

-----------------------------------------------------------------------------
(* Versions.                                                                *)

\* The part of the invariant that does not look at what is active.
Recorded(d) ==
  /\ DistinctFacts(d)
  /\ DistinctNumbers(d)
  /\ NumberedFromOne(d)
  /\ SupersedesOwn(d)
  /\ VersionsAreEarnedIn(d)
  /\ \A v \in DOMAIN d.versions : d.versions[v].candidate \in DOMAIN d.candidates

\* The next number of a candidate is one more than its largest.
LEMMA NextVersionNumber ==
  ASSUME NEW d \in Tables, NumberedFromOne(d), NEW c
  PROVE  LET n == NextVersionNo(d, c)
         IN  /\ n \in 1 .. Len(d.versions) + 1
             /\ \A v \in VersionsOf(d, c) : d.versions[v].no < n
             /\ VersionsOf(d, c) = {} => n = 1
             /\ VersionsOf(d, c) # {} =>
                  n # 1 /\ \E w \in VersionsOf(d, c) : n = d.versions[w].no + 1
<1> DEFINE S == {d.versions[v].no : v \in VersionsOf(d, c)}
<1>1. Len(d.versions) \in Nat
  BY TablesFields
<1>2. CASE VersionsOf(d, c) = {}
  BY <1>1, <1>2 DEF NextVersionNo
<1>3. CASE VersionsOf(d, c) # {}
  <2>1. \A v \in VersionsOf(d, c) : d.versions[v].no \in 1 .. Len(d.versions)
    BY DEF NumberedFromOne, VersionsOf
  <2>2. S \subseteq 0 .. Len(d.versions) /\ S # {}
    BY <1>1, <1>3, <2>1
  <2> HIDE DEF S
  <2>3. Max(S) \in S /\ \A y \in S : Max(S) >= y
    BY <1>1, <2>2, MaxIsLargest
  <2>4. NextVersionNo(d, c) = Max(S) + 1
    BY <1>3 DEF NextVersionNo, S
  <2>5. PICK w \in VersionsOf(d, c) : Max(S) = d.versions[w].no
    BY <2>3 DEF S
  <2>6. \A v \in VersionsOf(d, c) : Max(S) >= d.versions[v].no
    BY <2>3 DEF S
  <2> QED BY <1>1, <1>3, <2>1, <2>4, <2>5, <2>6
<1> QED BY <1>2, <1>3

\* Making a version active touches that field of that candidate only.
LEMMA SetActiveVersionFrame ==
  ASSUME NEW d \in Tables, NEW c \in DOMAIN d.candidates, NEW v \in Nat
  PROVE  LET e == SetActiveVersion(d, c, v)
         IN  /\ e \in Tables
             /\ e.snapshots = d.snapshots /\ e.sources = d.sources
             /\ e.versions = d.versions /\ e.links = d.links
             /\ DOMAIN e.candidates = DOMAIN d.candidates
             /\ Len(e.candidates) = Len(d.candidates)
             /\ \A b \in DOMAIN d.candidates : e.candidates[b].source = d.candidates[b].source
             /\ \A b \in DOMAIN d.candidates : b # c => e.candidates[b].active = d.candidates[b].active
             /\ e.candidates[c].active = v
<1> DEFINE e == SetActiveVersion(d, c, v)
           x == [d.candidates[c] EXCEPT !.active = v]
<1>1. d.candidates \in Seq(Candidate) /\ d.candidates[c] \in Candidate
  BY TablesFields
<1>2. x \in Candidate /\ x.active = v /\ x.source = d.candidates[c].source
  BY <1>1 DEF Candidate
<1> HIDE DEF x
<1>3. /\ [d.candidates EXCEPT ![c] = x] \in Seq(Candidate)
      /\ DOMAIN [d.candidates EXCEPT ![c] = x] = DOMAIN d.candidates
      /\ [d.candidates EXCEPT ![c] = x][c] = x
      /\ \A j \in DOMAIN d.candidates : j # c => [d.candidates EXCEPT ![c] = x][j] = d.candidates[j]
  BY <1>1, <1>2, UpdateProperties
<1>4. e = [d EXCEPT !.candidates = [d.candidates EXCEPT ![c] = x]]
  BY DEF SetActiveVersion, x, Tables
<1>5. /\ e \in Tables
      /\ e.candidates = [d.candidates EXCEPT ![c] = x]
      /\ e.snapshots = d.snapshots /\ e.sources = d.sources
      /\ e.versions = d.versions /\ e.links = d.links
  <2> HIDE DEF e
  <2> QED BY <1>3, <1>4 DEF Tables
<1> HIDE DEF e
<1>6. Len(e.candidates) = Len(d.candidates)
  BY <1>1, <1>3, <1>5
<1> QED BY <1>2, <1>3, <1>5, <1>6 DEF e

\* What a new version must bring: it is the candidate's first, or it follows
\* the active one unambiguously and adds to it.
MayAppend(d, c, facts, snap) ==
  /\ snap \in DOMAIN d.snapshots
  /\ facts = d.snapshots[snap].item.reading.facts
  /\ \/ d.candidates[c].active = 0 /\ VersionsOf(d, c) = {}
     \/ /\ d.candidates[c].active \in VersionsOf(d, c)
        /\ Forward(d.versions[d.candidates[c].active].facts, facts) # {}
        /\ ~ d.snapshots[snap].item.reading.ambiguous

\* A version with facts the candidate did not have keeps the history sound.
LEMMA AppendVersionSound ==
  ASSUME NEW d \in Tables, NEW c \in DOMAIN d.candidates, NEW facts \in Facts, NEW snap \in Nat,
         Recorded(d), MayAppend(d, c, facts, snap),
         \A v \in VersionsOf(d, c) : d.versions[v].facts # facts
  PROVE  LET e == AppendVersion(d, c, facts, snap)
         IN  /\ e \in Tables
             /\ Recorded(e)
             /\ e.snapshots = d.snapshots /\ e.sources = d.sources
             /\ e.candidates = d.candidates /\ e.links = d.links
             /\ VersionsOf(e, c) = VersionsOf(d, c) \cup {Len(d.versions) + 1}
             /\ \A b : b # c => VersionsOf(e, b) = VersionsOf(d, b)
<1> DEFINE e == AppendVersion(d, c, facts, snap)
           n == NextVersionNo(d, c)
           k == Len(d.versions) + 1
           x == [candidate |-> c, no |-> n, facts |-> facts,
                 supersedes |-> d.candidates[c].active, snapshot |-> snap]
<1>1. /\ d.versions \in Seq(Version)
      /\ d.candidates \in Seq(Candidate)
      /\ d.candidates[c] \in Candidate
  BY TablesFields
<1>2. /\ n \in 1 .. Len(d.versions) + 1
      /\ \A v \in VersionsOf(d, c) : d.versions[v].no < n
      /\ VersionsOf(d, c) = {} => n = 1
      /\ VersionsOf(d, c) # {} =>
            n # 1 /\ \E w \in VersionsOf(d, c) : n = d.versions[w].no + 1
  BY NextVersionNumber DEF Recorded
<1>3. n \in Nat /\ c \in Nat /\ d.candidates[c].active \in Nat
  BY <1>1, <1>2 DEF Candidate
<1>4. x \in Version
  <2> HIDE DEF n
  <2> QED BY <1>3 DEF Version
<1>5. /\ x.candidate = c /\ x.no = n /\ x.facts = facts
      /\ x.supersedes = d.candidates[c].active /\ x.snapshot = snap
  OBVIOUS
<1>6. e = [d EXCEPT !.versions = Append(d.versions, x)]
  BY DEF AppendVersion, Tables
<1> HIDE DEF x, e, n
<1>7. /\ Append(d.versions, x) \in Seq(Version)
      /\ DOMAIN d.versions = 1 .. Len(d.versions)
      /\ Len(d.versions) \in Nat
      /\ DOMAIN Append(d.versions, x) = 1 .. Len(d.versions) + 1
      /\ Len(Append(d.versions, x)) = Len(d.versions) + 1
      /\ \A i \in 1 .. Len(d.versions) : Append(d.versions, x)[i] = d.versions[i]
      /\ Append(d.versions, x)[Len(d.versions) + 1] = x
  BY <1>1, <1>4, AppendProperties
<1>8. /\ e \in Tables
      /\ e.versions = Append(d.versions, x)
      /\ e.snapshots = d.snapshots /\ e.sources = d.sources
      /\ e.candidates = d.candidates /\ e.links = d.links
  BY <1>6, <1>7 DEF Tables
<1>9. /\ DOMAIN e.versions = DOMAIN d.versions \cup {k}
      /\ k \notin DOMAIN d.versions
      /\ k \in Nat /\ Len(e.versions) = k
      /\ \A v \in DOMAIN d.versions : v \in Nat /\ v < k
      /\ \A v \in DOMAIN d.versions : e.versions[v] = d.versions[v]
      /\ e.versions[k] = x
  BY <1>7, <1>8
<1>10. Len(d.versions) \in Nat /\ k = Len(d.versions) + 1
  BY <1>7
<1> HIDE DEF k
<1>11. /\ VersionsOf(e, c) = VersionsOf(d, c) \cup {k}
       /\ \A b : b # c => VersionsOf(e, b) = VersionsOf(d, b)
  BY <1>5, <1>9 DEF VersionsOf
<1>12. /\ VersionsOf(d, c) \subseteq DOMAIN d.versions
       /\ \A v \in VersionsOf(d, c) : d.versions[v].candidate = c
       /\ \A v \in DOMAIN d.versions : d.versions[v].candidate = c => v \in VersionsOf(d, c)
  BY DEF VersionsOf
<1>13. DistinctFacts(e)
  <2> SUFFICES ASSUME NEW v \in DOMAIN e.versions, NEW w \in DOMAIN e.versions,
                      e.versions[v].candidate = e.versions[w].candidate,
                      e.versions[v].facts = e.versions[w].facts
               PROVE  v = w
    BY DEF DistinctFacts
  <2>1. \A u \in DOMAIN d.versions : ~ (d.versions[u].candidate = c /\ d.versions[u].facts = facts)
    BY DEF VersionsOf
  <2>2. CASE v \in DOMAIN d.versions /\ w \in DOMAIN d.versions
    BY <1>9, <2>2 DEF DistinctFacts, Recorded
  <2>3. CASE v = k \/ w = k
    BY <1>5, <1>9, <2>1, <2>3
  <2> QED BY <1>9, <2>2, <2>3
<1>14. DistinctNumbers(e)
  <2>1. \A v \in VersionsOf(d, c) : d.versions[v].no # n
    <3>1. \A v \in DOMAIN d.versions : d.versions[v].no \in Nat
      BY <1>10 DEF Recorded, NumberedFromOne
    <3> QED BY <1>2, <1>3, <1>12, <3>1
  <2> SUFFICES ASSUME NEW v \in DOMAIN e.versions, NEW w \in DOMAIN e.versions,
                      e.versions[v].candidate = e.versions[w].candidate,
                      e.versions[v].no = e.versions[w].no
               PROVE  v = w
    BY DEF DistinctNumbers
  <2>2. CASE v \in DOMAIN d.versions /\ w \in DOMAIN d.versions
    BY <1>9, <2>2 DEF DistinctNumbers, Recorded
  <2>0. \A u \in DOMAIN d.versions : ~ (d.versions[u].candidate = c /\ d.versions[u].no = n)
    BY <2>1 DEF VersionsOf
  <2>3. CASE v = k \/ w = k
    BY <1>5, <1>9, <2>0, <2>3
  <2> QED BY <1>9, <2>2, <2>3
<1>15. NumberedFromOne(e)
  <2> SUFFICES ASSUME NEW v \in DOMAIN e.versions
               PROVE  /\ e.versions[v].no \in 1 .. k
                      /\ e.versions[v].no # 1 =>
                           \E w \in VersionsOf(e, e.versions[v].candidate) :
                              e.versions[v].no = e.versions[w].no + 1
    BY <1>9 DEF NumberedFromOne
  <2>1. CASE v = k
    <3>1. e.versions[v].no \in 1 .. k
      BY <1>2, <1>5, <1>9, <1>10, <2>1
    <3>2. ASSUME n # 1 PROVE \E w \in VersionsOf(e, c) : n = e.versions[w].no + 1
      BY <1>2, <1>9, <1>11, <1>12, <3>2
    <3> QED BY <1>5, <1>9, <2>1, <3>1, <3>2
  <2>2. CASE v # k
    <3>1. v \in DOMAIN d.versions /\ e.versions[v] = d.versions[v]
      BY <1>9, <2>2
    <3>2. /\ d.versions[v].no \in 1 .. Len(d.versions)
          /\ d.versions[v].no # 1 =>
               \E w \in VersionsOf(d, d.versions[v].candidate) : d.versions[v].no = d.versions[w].no + 1
      BY <3>1 DEF Recorded, NumberedFromOne
    <3>3. VersionsOf(d, d.versions[v].candidate) \subseteq VersionsOf(e, d.versions[v].candidate)
      BY <1>11
    <3>4. \A w \in VersionsOf(d, d.versions[v].candidate) : e.versions[w] = d.versions[w]
      BY <1>9 DEF VersionsOf
    <3> QED BY <1>10, <3>1, <3>2, <3>3, <3>4
  <2> QED BY <2>1, <2>2
<1>16. SupersedesOwn(e)
  <2> SUFFICES ASSUME NEW v \in DOMAIN e.versions
               PROVE  IF e.versions[v].no = 1 THEN e.versions[v].supersedes = 0
                      ELSE /\ e.versions[v].supersedes \in VersionsOf(e, e.versions[v].candidate)
                           /\ e.versions[v].supersedes < v
    BY DEF SupersedesOwn
  <2>1. CASE v = k
    <3>1. CASE d.candidates[c].active = 0 /\ VersionsOf(d, c) = {}
      BY <1>2, <1>5, <1>9, <2>1, <3>1
    <3>2. CASE d.candidates[c].active \in VersionsOf(d, c)
      <4>1. n # 1
        BY <1>2, <3>2
      <4>2. d.candidates[c].active \in VersionsOf(e, c) /\ d.candidates[c].active < k
        BY <1>9, <1>11, <1>12, <3>2
      <4> QED BY <1>5, <1>9, <2>1, <4>1, <4>2
    <3> QED BY <3>1, <3>2 DEF MayAppend
  <2>2. CASE v # k
    <3>1. v \in DOMAIN d.versions /\ e.versions[v] = d.versions[v]
      BY <1>9, <2>2
    <3>2. VersionsOf(d, d.versions[v].candidate) \subseteq VersionsOf(e, d.versions[v].candidate)
      BY <1>11
    <3> QED BY <3>1, <3>2 DEF Recorded, SupersedesOwn
  <2> QED BY <2>1, <2>2
<1>17. VersionsAreEarnedIn(e)
  <2>1. \A v \in DOMAIN d.versions : d.versions[v].supersedes # 0 => d.versions[v].supersedes \in DOMAIN d.versions
    BY DEF Recorded, SupersedesOwn, VersionsOf
  <2>2. x.supersedes # 0 => x.supersedes \in DOMAIN d.versions
                            /\ Forward(d.versions[x.supersedes].facts, facts) # {}
                            /\ ~ d.snapshots[snap].item.reading.ambiguous
    BY <1>5, <1>12 DEF MayAppend
  <2>3. snap \in DOMAIN d.snapshots /\ facts = d.snapshots[snap].item.reading.facts
    BY DEF MayAppend
  <2> SUFFICES ASSUME NEW v \in DOMAIN e.versions
               PROVE  /\ e.versions[v].snapshot \in DOMAIN e.snapshots
                      /\ e.versions[v].facts = e.snapshots[e.versions[v].snapshot].item.reading.facts
                      /\ e.versions[v].supersedes # 0 =>
                           /\ Forward(e.versions[e.versions[v].supersedes].facts, e.versions[v].facts) # {}
                           /\ ~ e.snapshots[e.versions[v].snapshot].item.reading.ambiguous
    BY DEF VersionsAreEarnedIn
  <2>4. CASE v = k
    BY <1>5, <1>8, <1>9, <2>2, <2>3, <2>4
  <2>5. CASE v # k
    BY <1>8, <1>9, <2>1, <2>5 DEF Recorded, VersionsAreEarnedIn
  <2> QED BY <2>4, <2>5
<1>18. \A v \in DOMAIN e.versions : e.versions[v].candidate \in DOMAIN e.candidates
  BY <1>5, <1>8, <1>9 DEF Recorded
<1>19. Recorded(e)
  BY <1>13, <1>14, <1>15, <1>16, <1>17, <1>18 DEF Recorded
<1> QED BY <1>8, <1>10, <1>11, <1>19 DEF e

\* What insertNewVersion leaves: the history of every candidate sound, c with
\* an active version that states the facts.
LEMMA InsertNewVersionSound ==
  ASSUME NEW d \in Tables, NEW c \in DOMAIN d.candidates, NEW facts \in Facts, NEW snap \in Nat,
         Recorded(d), MayAppend(d, c, facts, snap),
         \A b \in DOMAIN d.candidates : b # c => d.candidates[b].active \in VersionsOf(d, b)
  PROVE  LET e == InsertNewVersion(d, c, facts, snap)
         IN  /\ e \in Tables
             /\ VersionHistoryIn(e)
             /\ VersionsAreEarnedIn(e)
             /\ e.snapshots = d.snapshots /\ e.sources = d.sources /\ e.links = d.links
             /\ DOMAIN e.candidates = DOMAIN d.candidates
             /\ Len(e.candidates) = Len(d.candidates)
             /\ \A b \in DOMAIN d.candidates : e.candidates[b].source = d.candidates[b].source
             /\ e.candidates[c].active \in Nat
<1> DEFINE same == {v \in VersionsOf(d, c) : d.versions[v].facts = facts}
           e == InsertNewVersion(d, c, facts, snap)
<1>1. /\ d.versions \in Seq(Version) /\ Len(d.versions) \in Nat
      /\ DOMAIN d.versions = 1 .. Len(d.versions)
  BY TablesFields
<1>2. CASE same # {}
  <2> DEFINE v == CHOOSE v \in same : TRUE
  <2>1. v \in same
    BY <1>2
  <2>a. v \in VersionsOf(d, c)
    BY <2>1
  <2>b. \A u \in VersionsOf(d, c) : u \in Nat
    BY <1>1 DEF VersionsOf
  <2>2. v \in VersionsOf(d, c) /\ v \in Nat
    BY <2>a, <2>b
  <2>3. e = SetActiveVersion(d, c, v)
    BY <1>2 DEF InsertNewVersion
  <2> HIDE DEF same, v, e
  <2>4. /\ e \in Tables
        /\ e.snapshots = d.snapshots /\ e.sources = d.sources
        /\ e.versions = d.versions /\ e.links = d.links
        /\ DOMAIN e.candidates = DOMAIN d.candidates
        /\ Len(e.candidates) = Len(d.candidates)
        /\ \A b \in DOMAIN d.candidates : e.candidates[b].source = d.candidates[b].source
        /\ \A b \in DOMAIN d.candidates : b # c => e.candidates[b].active = d.candidates[b].active
        /\ e.candidates[c].active = v
    BY <2>2, <2>3, SetActiveVersionFrame
  <2>5. ActiveIsOwn(e)
    BY <2>2, <2>4 DEF ActiveIsOwn, VersionsOf, Recorded
  <2>6. VersionHistoryIn(e) /\ VersionsAreEarnedIn(e)
    BY <2>4, <2>5 DEF Recorded, VersionHistoryIn, DistinctFacts, DistinctNumbers,
                      NumberedFromOne, SupersedesOwn, VersionsOf, VersionsAreEarnedIn
  <2> QED BY <2>2, <2>4, <2>6 DEF e
<1>3. CASE same = {}
  <2> DEFINE k == Len(d.versions) + 1
             a == AppendVersion(d, c, facts, snap)
  <2>1. /\ a \in Tables
        /\ Recorded(a)
        /\ a.snapshots = d.snapshots /\ a.sources = d.sources
        /\ a.candidates = d.candidates /\ a.links = d.links
        /\ VersionsOf(a, c) = VersionsOf(d, c) \cup {k}
        /\ \A b : b # c => VersionsOf(a, b) = VersionsOf(d, b)
    BY <1>3, AppendVersionSound
  <2>2. e = SetActiveVersion(a, c, k)
    BY <1>3 DEF InsertNewVersion
  <2>3. k \in Nat
    BY <1>1
  <2> HIDE DEF same, k, a, e
  <2>4. /\ e \in Tables
        /\ e.snapshots = a.snapshots /\ e.sources = a.sources
        /\ e.versions = a.versions /\ e.links = a.links
        /\ DOMAIN e.candidates = DOMAIN a.candidates
        /\ Len(e.candidates) = Len(a.candidates)
        /\ \A b \in DOMAIN a.candidates : e.candidates[b].source = a.candidates[b].source
        /\ \A b \in DOMAIN a.candidates : b # c => e.candidates[b].active = a.candidates[b].active
        /\ e.candidates[c].active = k
    BY <2>1, <2>2, <2>3, SetActiveVersionFrame
  <2>5. \A b : VersionsOf(e, b) = VersionsOf(a, b)
    BY <2>4 DEF VersionsOf
  <2>6. ActiveIsOwn(e)
    BY <2>1, <2>4, <2>5 DEF ActiveIsOwn, Recorded
  <2>7. VersionHistoryIn(e) /\ VersionsAreEarnedIn(e)
    BY <2>1, <2>4, <2>6 DEF Recorded, VersionHistoryIn, DistinctFacts, DistinctNumbers,
                      NumberedFromOne, SupersedesOwn, VersionsOf, VersionsAreEarnedIn
  <2> QED BY <2>1, <2>3, <2>4, <2>7 DEF e
<1> QED BY <1>2, <1>3

\* A new candidate, on a source of its own.
LEMMA CreateCandidateSound ==
  ASSUME NEW d \in Tables, TablesInv(d), NEW item \in Item, NEW snap \in DOMAIN d.snapshots,
         item.reading.facts = d.snapshots[snap].item.reading.facts,
         HasProviderKey(item) => ByProviderKey(d, item) = {}
  PROVE  LET e == CreateCandidate(d, 0, item, snap)
         IN  /\ e \in Tables
             /\ TablesInv(e)
             /\ Len(e.candidates) = Len(d.candidates) + 1
             /\ Len(d.candidates) \in Nat
             /\ e.candidates[Len(e.candidates)].active \in Nat
             /\ e.candidates[Len(e.candidates)].source \in Nat
<1> DEFINE src == Len(d.sources) + 1
           c   == Len(d.candidates) + 1
           x   == [provider |-> item.provider, ext |-> item.ext, url |-> item.url, latest |-> snap]
           y   == [source |-> src, active |-> 0]
           d1  == [d EXCEPT !.sources = Append(@, x)]
           d2  == [d1 EXCEPT !.candidates = Append(@, y)]
           d3  == InsertNewVersion(d2, c, item.reading.facts, snap)
           e   == CreateCandidate(d, 0, item, snap)
<1>1. /\ d.snapshots \in Seq(Snapshot) /\ d.sources \in Seq(Source)
      /\ d.candidates \in Seq(Candidate) /\ d.versions \in Seq(Version)
      /\ d.links \in SUBSET (Nat \X Nat)
  BY TablesFields
<1>2. snap \in Nat /\ src \in Nat /\ c \in Nat
  BY <1>1
<1>3. /\ x \in Source /\ y \in Candidate
      /\ x.provider = item.provider /\ x.ext = item.ext
      /\ y.source = src /\ y.active = 0
  BY <1>2 DEF Source, Candidate, Item
<1>4. item.reading.facts \in Facts
  BY DEF Item, Reading
<1>5. e = [d3 EXCEPT !.links = @ \cup {<<c, src>>}]
  BY DEF CreateCandidate
<1> HIDE DEF x, y
<1>6. /\ Append(d.sources, x) \in Seq(Source)
      /\ DOMAIN d.sources = 1 .. Len(d.sources)
      /\ Len(d.sources) \in Nat
      /\ DOMAIN Append(d.sources, x) = 1 .. src
      /\ \A i \in 1 .. Len(d.sources) : Append(d.sources, x)[i] = d.sources[i]
      /\ Append(d.sources, x)[src] = x
  BY <1>1, <1>3, AppendProperties
<1>7. /\ Append(d.candidates, y) \in Seq(Candidate)
      /\ DOMAIN d.candidates = 1 .. Len(d.candidates)
      /\ Len(d.candidates) \in Nat
      /\ DOMAIN Append(d.candidates, y) = 1 .. c
      /\ Len(Append(d.candidates, y)) = c
      /\ \A i \in 1 .. Len(d.candidates) : Append(d.candidates, y)[i] = d.candidates[i]
      /\ Append(d.candidates, y)[c] = y
  BY <1>1, <1>3, AppendProperties
<1>8. /\ d2 \in Tables
      /\ d2.sources = Append(d.sources, x)
      /\ d2.candidates = Append(d.candidates, y)
      /\ d2.snapshots = d.snapshots /\ d2.versions = d.versions /\ d2.links = d.links
  BY <1>6, <1>7 DEF Tables
<1> HIDE DEF d1, d2
<1>9. /\ DOMAIN d2.sources = DOMAIN d.sources \cup {src}
      /\ src \notin DOMAIN d.sources
      /\ \A i \in DOMAIN d.sources : d2.sources[i] = d.sources[i]
      /\ d2.sources[src] = x
  BY <1>6, <1>8
<1>10. /\ DOMAIN d2.candidates = DOMAIN d.candidates \cup {c}
       /\ c \notin DOMAIN d.candidates
       /\ \A i \in DOMAIN d.candidates : d2.candidates[i] = d.candidates[i]
       /\ d2.candidates[c] = y
       /\ Len(d2.candidates) = c /\ c = Len(d.candidates) + 1
  BY <1>7, <1>8
<1> HIDE DEF src, c
<1>11. /\ Recorded(d2)
       /\ VersionsOf(d2, c) = {}
       /\ \A b \in DOMAIN d.candidates : d2.candidates[b].active \in VersionsOf(d2, b)
  <2>1. VersionHistoryIn(d) /\ VersionsAreEarnedIn(d)
    BY DEF TablesInv
  <2>2. \A b : VersionsOf(d2, b) = VersionsOf(d, b)
    BY <1>8 DEF VersionsOf
  <2>3. /\ DistinctFacts(d2) /\ DistinctNumbers(d2)
        /\ NumberedFromOne(d2) /\ SupersedesOwn(d2) /\ VersionsAreEarnedIn(d2)
    <3>1. DistinctFacts(d2) /\ DistinctNumbers(d2)
      BY <1>8, <2>1 DEF VersionHistoryIn, DistinctFacts, DistinctNumbers
    <3>2. NumberedFromOne(d2)
      BY <1>8, <2>1, <2>2 DEF VersionHistoryIn, NumberedFromOne
    <3>3. SupersedesOwn(d2)
      BY <1>8, <2>1, <2>2 DEF VersionHistoryIn, SupersedesOwn
    <3>4. VersionsAreEarnedIn(d2)
      BY <1>8, <2>1 DEF VersionsAreEarnedIn
    <3> QED BY <3>1, <3>2, <3>3, <3>4
  <2>4. /\ \A v \in DOMAIN d.versions : d.versions[v].candidate \in DOMAIN d.candidates
        /\ \A b \in DOMAIN d.candidates : d.candidates[b].active \in VersionsOf(d, b)
    BY <2>1 DEF VersionHistoryIn, ActiveIsOwn
  <2>5. VersionsOf(d2, c) = {}
    BY <1>8, <1>10, <2>4 DEF VersionsOf
  <2> QED BY <1>8, <1>10, <2>2, <2>3, <2>4, <2>5 DEF Recorded
<1>12. MayAppend(d2, c, item.reading.facts, snap)
  BY <1>3, <1>8, <1>10, <1>11 DEF MayAppend
<1>13. /\ d3 \in Tables
       /\ VersionHistoryIn(d3)
       /\ VersionsAreEarnedIn(d3)
       /\ d3.snapshots = d2.snapshots /\ d3.sources = d2.sources /\ d3.links = d2.links
       /\ DOMAIN d3.candidates = DOMAIN d2.candidates
       /\ Len(d3.candidates) = Len(d2.candidates)
       /\ \A b \in DOMAIN d2.candidates : d3.candidates[b].source = d2.candidates[b].source
       /\ d3.candidates[c].active \in Nat
  BY <1>2, <1>4, <1>8, <1>10, <1>11, <1>12, InsertNewVersionSound
<1> HIDE DEF d3
<1>14. /\ e \in Tables
       /\ e.snapshots = d3.snapshots /\ e.sources = d3.sources
       /\ e.candidates = d3.candidates /\ e.versions = d3.versions
       /\ e.links = d.links \cup {<<c, src>>}
  <2>1. <<c, src>> \in Nat \X Nat
    BY <1>2
  <2>2. d3.links \cup {<<c, src>>} \in SUBSET (Nat \X Nat)
    BY <2>1, <1>13, TablesFields
  <2> HIDE DEF e
  <2> QED BY <1>5, <1>8, <1>13, <2>2 DEF Tables
<1> HIDE DEF e
<1>15. VersionHistoryIn(e) /\ VersionsAreEarnedIn(e)
  <2>1. \A b : VersionsOf(e, b) = VersionsOf(d3, b)
    BY <1>14 DEF VersionsOf
  <2> QED BY <1>13, <1>14, <2>1 DEF VersionHistoryIn, DistinctFacts, DistinctNumbers, NumberedFromOne,
                        SupersedesOwn, ActiveIsOwn, VersionsAreEarnedIn
<1>16. OneSourcePerKeyIn(e)
  <2> SUFFICES ASSUME NEW i \in DOMAIN e.sources, NEW j \in DOMAIN e.sources,
                      HasProviderKey(e.sources[i]),
                      e.sources[i].provider = e.sources[j].provider,
                      e.sources[i].ext = e.sources[j].ext
               PROVE  i = j
    BY DEF OneSourcePerKeyIn
  <2>1. e.sources = d2.sources
    BY <1>13, <1>14
  <2>2. HasProviderKey(item) =>
           \A a \in DOMAIN d.sources : ~ (d.sources[a].provider = item.provider /\ d.sources[a].ext = item.ext)
    BY DEF ByProviderKey
  <2>3. CASE i \in DOMAIN d.sources /\ j \in DOMAIN d.sources
    BY <1>9, <2>1, <2>3 DEF TablesInv, OneSourcePerKeyIn
  <2>4. CASE i = src \/ j = src
    BY <1>3, <1>9, <2>1, <2>2, <2>4 DEF HasProviderKey
  <2> QED BY <1>9, <2>1, <2>3, <2>4
<1>17. OneCandidatePerSourceIn(e)
  <2>1. OneCandidatePerSourceIn(d)
    BY DEF TablesInv
  <2>2. /\ DOMAIN e.sources = DOMAIN d.sources \cup {src}
        /\ DOMAIN e.candidates = DOMAIN d.candidates \cup {c}
        /\ \A b \in DOMAIN d.candidates : e.candidates[b].source = d.candidates[b].source
        /\ e.candidates[c].source = src
    BY <1>3, <1>9, <1>10, <1>13, <1>14
  <2>3. /\ \A b \in DOMAIN d.candidates : d.candidates[b].source \in DOMAIN d.sources
        /\ \A i \in DOMAIN d.sources : \E b \in DOMAIN d.candidates : ByPrimarySource(d, i) = {b}
        /\ d.links = {<<b, d.candidates[b].source>> : b \in DOMAIN d.candidates}
    BY <2>1 DEF OneCandidatePerSourceIn
  <2>4. \A b \in DOMAIN e.candidates : e.candidates[b].source \in DOMAIN e.sources
    BY <2>2, <2>3
  <2>5. \A i \in DOMAIN d.sources : ByPrimarySource(e, i) = ByPrimarySource(d, i)
    BY <1>9, <2>2 DEF ByPrimarySource
  <2>6. ByPrimarySource(e, src) = {c}
    BY <1>9, <2>2, <2>3 DEF ByPrimarySource
  <2>7. \A i \in DOMAIN e.sources : \E b \in DOMAIN e.candidates : ByPrimarySource(e, i) = {b}
    BY <2>2, <2>3, <2>5, <2>6
  <2>8. e.links = {<<b, e.candidates[b].source>> : b \in DOMAIN e.candidates}
    BY <1>14, <2>2, <2>3
  <2> QED BY <2>4, <2>7, <2>8 DEF OneCandidatePerSourceIn
<1>18. /\ Len(e.candidates) = Len(d.candidates) + 1
       /\ e.candidates[Len(e.candidates)].active \in Nat
       /\ e.candidates[Len(e.candidates)].source \in Nat
  BY <1>2, <1>3, <1>10, <1>13, <1>14
<1> QED BY <1>7, <1>14, <1>15, <1>16, <1>17, <1>18 DEF TablesInv, e

-----------------------------------------------------------------------------
(* One item of a commit.                                                    *)

\* A material change adds or corrects at least one fact.
LEMMA MaterialChangeIsForward ==
  ASSUME NEW old \in Facts, NEW new \in Facts, MaterialChange(old, new) = "material_change"
  PROVE  Forward(old, new) # {}
<1> SUFFICES ASSUME Forward(old, new) = {} PROVE FALSE
  OBVIOUS
<1>1. \A f \in FieldNames : new[f] = None \/ new[f] = old[f]
  BY DEF Forward
<1>2. Lost(old, new) = {}
  BY DEF MaterialChange
<1>3. \A f \in FieldNames : new[f] = old[f]
  BY <1>1, <1>2 DEF Lost
<1>4. old = new
  BY <1>3 DEF Facts
<1> QED BY <1>4 DEF MaterialChange

\* What resolveIdentity can answer.
LEMMA ResolveIdentityAnswers ==
  ASSUME NEW d \in Tables, NEW item \in Item
  PROVE  LET identity == ResolveIdentity(d, item)
         IN  \/ /\ identity.kind = "new_source" /\ identity.matched = 0
                /\ HasProviderKey(item) => ByProviderKey(d, item) = {}
             \/ identity.kind = "exact_existing" /\ identity.matched \in DOMAIN d.sources
             \/ identity.kind = "identity_conflict" /\ identity.matched = 0
<1>1. \A hits : \/ hits = {} /\ Hits(hits) = NewSource
                \/ hits # {} /\ Hits(hits).kind = "exact_existing" /\ Hits(hits).matched \in hits
                \/ Hits(hits).kind = "identity_conflict" /\ Hits(hits).matched = 0
  BY DEF Hits, NewSource
<1>2. ByProviderKey(d, item) \subseteq DOMAIN d.sources
      /\ ByProviderAndUrl(d, item) \subseteq DOMAIN d.sources
  BY DEF ByProviderKey, ByProviderAndUrl
<1>3. NewSource.kind = "new_source" /\ NewSource.matched = 0
  BY DEF NewSource
<1>4. CASE HasProviderKey(item)
  <2>1. ResolveIdentity(d, item) = Hits(ByProviderKey(d, item))
    BY <1>4 DEF ResolveIdentity
  <2> QED BY <1>1, <1>2, <1>3, <2>1
<1>5. CASE ~ HasProviderKey(item) /\ HasIdentityUrl(item)
  <2>1. ResolveIdentity(d, item) = Hits(ByProviderAndUrl(d, item))
    BY <1>5 DEF ResolveIdentity
  <2> QED BY <1>1, <1>2, <1>3, <1>5, <2>1
<1>6. CASE ~ HasProviderKey(item) /\ ~ HasIdentityUrl(item)
  <2>1. ResolveIdentity(d, item) = NewSource
    BY <1>6 DEF ResolveIdentity
  <2> QED BY <1>3, <1>6, <2>1
<1> QED BY <1>4, <1>5, <1>6

\* In sound tables a known source leads to its candidate and its active
\* version, and no source leads nowhere.
LEMMA KnownSourceLeadsToVersion ==
  ASSUME NEW d \in Tables, TablesInv(d)
  PROVE  /\ \A src \in DOMAIN d.sources :
              /\ CandidateOf(d, src) \in DOMAIN d.candidates
              /\ CandidateOf(d, src) # 0
              /\ ActiveOf(d, CandidateOf(d, src)) = d.candidates[CandidateOf(d, src)].active
              /\ ActiveOf(d, CandidateOf(d, src)) \in VersionsOf(d, CandidateOf(d, src))
              /\ ActiveOf(d, CandidateOf(d, src)) # 0
         /\ CandidateOf(d, 0) = 0
         /\ ActiveOf(d, 0) = 0
<1>1. /\ DOMAIN d.sources = 1 .. Len(d.sources)
      /\ DOMAIN d.candidates = 1 .. Len(d.candidates)
      /\ DOMAIN d.versions = 1 .. Len(d.versions)
      /\ Len(d.sources) \in Nat /\ Len(d.candidates) \in Nat /\ Len(d.versions) \in Nat
  BY TablesFields
<1>2. OneCandidatePerSourceIn(d) /\ ActiveIsOwn(d)
  BY DEF TablesInv, VersionHistoryIn
<1>3. ASSUME NEW src \in DOMAIN d.sources
      PROVE  CandidateOf(d, src) \in DOMAIN d.candidates
  <2>1. PICK c \in DOMAIN d.candidates : ByPrimarySource(d, src) = {c}
    BY <1>2 DEF OneCandidatePerSourceIn
  <2> QED BY <2>1 DEF CandidateOf
<1>4. 0 \notin DOMAIN d.candidates /\ 0 \notin DOMAIN d.sources /\ 0 \notin DOMAIN d.versions
  BY <1>1
<1>5. \A c \in DOMAIN d.candidates :
        ActiveOf(d, c) = d.candidates[c].active /\ ActiveOf(d, c) \in VersionsOf(d, c)
        /\ ActiveOf(d, c) # 0
  BY <1>2, <1>4 DEF ActiveOf, ActiveIsOwn, VersionsOf
<1>6. ByPrimarySource(d, 0) = {}
  BY <1>2, <1>4 DEF ByPrimarySource, OneCandidatePerSourceIn
<1>7. CandidateOf(d, 0) = 0 /\ ActiveOf(d, 0) = 0
  BY <1>6 DEF CandidateOf, ActiveOf
<1> QED BY <1>3, <1>4, <1>5, <1>7

\* Materialising an item keeps the tables sound.
LEMMA MaterializeItemSound ==
  ASSUME NEW d \in Tables, TablesInv(d), NEW s \in Sessions, NEW item \in Item
  PROVE  LET done == MaterializeItem(d, s, item)
         IN  done.tables \in Tables /\ TablesInv(done.tables) /\ done.outcome \in Outcome
<1> DEFINE d1       == AppendSnapshot(d, s, item)
           snap     == Len(d1.snapshots)
           identity == ResolveIdentity(d1, item)
           src      == identity.matched
           c        == CandidateOf(d1, src)
           v        == ActiveOf(d1, c)
           old      == IF v = 0 THEN NoFacts ELSE d1.versions[v].facts
           decision == DecideCommit(identity.kind, v # 0, old, item.reading)
           d2       == TouchSource(d1, src, snap)
           grown    == InsertNewVersion(d2, c, item.reading.facts, snap)
           new      == CreateCandidate(d2, src, item, snap)
           made     == Len(new.candidates)
           done     == MaterializeItem(d, s, item)
<1>1. /\ d1 \in Tables /\ TablesInv(d1)
      /\ snap \in DOMAIN d1.snapshots /\ d1.snapshots[snap].item = item
  BY AppendSnapshotSound
<1>2. \/ /\ identity.kind = "new_source" /\ src = 0
         /\ HasProviderKey(item) => ByProviderKey(d1, item) = {}
      \/ identity.kind = "exact_existing" /\ src \in DOMAIN d1.sources
      \/ identity.kind = "identity_conflict" /\ src = 0
  BY <1>1, ResolveIdentityAnswers
<1>3. done = CASE decision = "identity_conflict" -> Result(d1, 0, 0, 0, snap, decision)
               [] decision = "new_identity" ->
                    Result(new, made, new.candidates[made].active, new.candidates[made].source, snap, decision)
               [] decision = "material_change" -> Result(grown, c, grown.candidates[c].active, src, snap, decision)
               [] OTHER -> Result(d2, c, v, src, snap, decision)
  BY DEF MaterializeItem
<1>4. snap \in Nat /\ snap # 0
  BY <1>1, TablesFields
<1>5. item.reading.facts \in Facts
  BY DEF Item, Reading
<1>6. \A e : \A a \in Nat, b \in Nat, g \in Nat, D \in Decisions :
        Result(e, a, b, g, snap, D).tables = e /\ Result(e, a, b, g, snap, D).outcome \in Outcome
  BY <1>4 DEF Result, Outcome, AnalysisEligible
<1>7. decision \in Decisions
  BY DEF DecideCommit, MaterialChange, Decisions
<1> HIDE DEF d1, snap, identity, src, c, v, done
<1>8. CASE identity.kind = "new_source"
  <2>1. src = 0 /\ (HasProviderKey(item) => ByProviderKey(d1, item) = {})
    BY <1>2, <1>8
  <2>2. decision = "new_identity"
    BY <1>8 DEF DecideCommit
  <2>3. d2 = d1
    BY <2>1 DEF TouchSource
  <2>4. new = CreateCandidate(d1, 0, item, snap)
    BY <2>1, <2>3
  <2> HIDE DEF new, decision
  <2>5. /\ new \in Tables
        /\ TablesInv(new)
        /\ Len(new.candidates) = Len(d1.candidates) + 1
        /\ Len(d1.candidates) \in Nat
        /\ new.candidates[Len(new.candidates)].active \in Nat
        /\ new.candidates[Len(new.candidates)].source \in Nat
    BY <1>1, <2>1, <2>4, CreateCandidateSound
  <2>6. done = Result(new, made, new.candidates[made].active, new.candidates[made].source, snap, decision)
    BY <1>3, <2>2
  <2>7. made \in Nat
    BY <2>5
  <2> QED BY <1>6, <1>7, <2>5, <2>6, <2>7 DEF done
<1>9. CASE identity.kind = "identity_conflict"
  <2>1. decision = "identity_conflict"
    BY <1>9 DEF DecideCommit
  <2>2. done = Result(d1, 0, 0, 0, snap, decision)
    BY <1>3, <2>1
  <2> HIDE DEF decision
  <2> QED BY <1>1, <1>6, <1>7, <2>2 DEF done
<1>10. CASE identity.kind = "exact_existing"
  <2>1. src \in DOMAIN d1.sources
    BY <1>2, <1>10, <1>1, TablesFields
  <2>2. /\ c \in DOMAIN d1.candidates /\ c # 0
        /\ v = d1.candidates[c].active
        /\ v \in VersionsOf(d1, c) /\ v # 0
    BY <1>1, <2>1, KnownSourceLeadsToVersion DEF c, v
  <2>3. old = d1.versions[v].facts /\ old \in Facts
    <3>1. v \in DOMAIN d1.versions
      BY <2>2 DEF VersionsOf
    <3>2. d1.versions[v] \in Version
      BY <1>1, <3>1, TablesFields
    <3> QED BY <2>2, <3>2 DEF Version
  <2>4. decision = IF item.reading.ambiguous THEN "ambiguous_change" ELSE MaterialChange(old, item.reading.facts)
    BY <1>10, <2>2 DEF DecideCommit
  <2>5. /\ d2 \in Tables
        /\ TablesInv(d2)
        /\ d2.snapshots = d1.snapshots /\ d2.candidates = d1.candidates
        /\ d2.versions = d1.versions
    BY <1>1, <1>4, <2>1, TouchSourceSound
  <2>6. c \in Nat /\ v \in Nat /\ src \in Nat
    <3>1. /\ d1.candidates \in Seq(Candidate) /\ d1.sources \in Seq(Source) /\ d1.versions \in Seq(Version)
      BY <1>1, TablesFields
    <3>2. v \in DOMAIN d1.versions
      BY <2>2 DEF VersionsOf
    <3> QED BY <2>1, <2>2, <3>1, <3>2
  <2> HIDE DEF d2, grown, old
  <2>7. CASE decision = "material_change"
    <3>1. ~ item.reading.ambiguous /\ MaterialChange(old, item.reading.facts) = "material_change"
      BY <2>4, <2>7
    <3>2. Forward(old, item.reading.facts) # {}
      BY <1>5, <2>3, <3>1, MaterialChangeIsForward
    <3>3. VersionsOf(d2, c) = VersionsOf(d1, c)
      BY <2>5 DEF VersionsOf
    <3>4. MayAppend(d2, c, item.reading.facts, snap)
      BY <1>1, <2>2, <2>3, <2>5, <3>1, <3>2, <3>3 DEF MayAppend
    <3>5. /\ Recorded(d2)
          /\ \A b \in DOMAIN d2.candidates : d2.candidates[b].active \in VersionsOf(d2, b)
      BY <2>5 DEF TablesInv, VersionHistoryIn, Recorded, ActiveIsOwn
    <3>6. /\ grown \in Tables
          /\ VersionHistoryIn(grown)
          /\ VersionsAreEarnedIn(grown)
          /\ grown.snapshots = d2.snapshots /\ grown.sources = d2.sources /\ grown.links = d2.links
          /\ DOMAIN grown.candidates = DOMAIN d2.candidates
          /\ \A b \in DOMAIN d2.candidates : grown.candidates[b].source = d2.candidates[b].source
          /\ grown.candidates[c].active \in Nat
      BY <1>4, <1>5, <2>2, <2>5, <3>4, <3>5, InsertNewVersionSound DEF grown
    <3>7. OneSourcePerKeyIn(grown) /\ OneCandidatePerSourceIn(grown)
      <4>1. \A i : ByPrimarySource(grown, i) = ByPrimarySource(d2, i)
        BY <3>6 DEF ByPrimarySource
      <4> QED BY <2>5, <3>6, <4>1 DEF TablesInv, OneSourcePerKeyIn, OneCandidatePerSourceIn
    <3>8. done = Result(grown, c, grown.candidates[c].active, src, snap, decision)
      BY <1>3, <2>7
    <3> HIDE DEF decision
    <3>9. done.tables = grown /\ done.outcome \in Outcome
      BY <1>6, <1>7, <2>6, <3>6, <3>8
    <3> QED BY <3>6, <3>7, <3>9 DEF TablesInv, done
  <2>8. CASE decision # "material_change"
    <3>1. decision \notin {"identity_conflict", "new_identity"}
      BY <2>4 DEF MaterialChange
    <3>2. done = Result(d2, c, v, src, snap, decision)
      BY <1>3, <2>8, <3>1
    <3> HIDE DEF decision
    <3> QED BY <1>6, <1>7, <2>5, <2>6, <3>2 DEF done
  <2> QED BY <2>7, <2>8
<1> QED BY <1>2, <1>8, <1>9, <1>10

-----------------------------------------------------------------------------
(* The specification.                                                       *)

\* The empty tables are sound.
LEMMA EmptyTablesSound == NoTables \in Tables /\ TablesInv(NoTables)
<1>1. NoTables \in Tables
  BY DEF NoTables, Tables
<1>2. /\ OneSourcePerKeyIn(NoTables) /\ OneCandidatePerSourceIn(NoTables)
      /\ VersionHistoryIn(NoTables) /\ VersionsAreEarnedIn(NoTables)
  BY DEF NoTables, OneSourcePerKeyIn, OneCandidatePerSourceIn, VersionHistoryIn, DistinctFacts,
         DistinctNumbers, NumberedFromOne, SupersedesOwn, ActiveIsOwn, VersionsAreEarnedIn
<1> QED BY <1>1, <1>2 DEF TablesInv

\* The types of the records the variables hold.
SessionRow == [status : {"absent", "preview", "committed", "cancelled", "expired"},
               items : Seq(Item), late : BOOLEAN,
               request : Requests \cup {None}, outcomes : Seq(Outcome)]
TxRow == [session : Sessions \cup {None}, request : Requests \cup {None},
          todo : Seq(Nat), items : Seq(Item), outcomes : Seq(Outcome), work : Tables]

\* No commit in progress is a well-typed value of tx.
LEMMA NoTxType == NoTx \in TxRow /\ NoTx.session = None /\ NoTx.work = NoTables
  BY EmptyTablesSound DEF NoTx, TxRow

\* The initial state satisfies the invariant.
LEMMA InitSound == Init => IInv
<1> SUFFICES ASSUME Init PROVE IInv
  OBVIOUS
<1>1. Absent \in SessionRow
  BY DEF Absent, SessionRow
<1>2. TypeOK
  BY <1>1, EmptyTablesSound, NoTxType DEF Init, TypeOK, SessionRow, TxRow
<1>3. TablesInv(db) /\ TablesInv(tx.work) /\ Idle
  BY EmptyTablesSound, NoTxType DEF Init, Idle
<1> QED BY <1>2, <1>3 DEF IInv, Init, AnswersAgree

\* Corrections keep items items.
LEMMA CorrectedItems ==
  ASSUME NEW items \in Seq(Item), NEW request \in Requests
  PROVE  ApplyCorrections(items, request.corrections) \in Seq(Item)
<1> DEFINE cor == request.corrections
           new(i) == IF i \in DOMAIN cor THEN [items[i] EXCEPT !.reading = cor[i]] ELSE items[i]
<1>1. \A i \in DOMAIN cor : cor[i] \in Reading
  BY RequestAssumption
<1>2. DOMAIN items = 1 .. Len(items) /\ Len(items) \in Nat
  OBVIOUS
<1>3. ApplyCorrections(items, request.corrections) = [i \in 1 .. Len(items) |-> new(i)]
  BY <1>2 DEF ApplyCorrections
<1> HIDE DEF cor
<1>4. ASSUME NEW i \in 1 .. Len(items) PROVE new(i) \in Item
  <2>1. items[i] \in Item
    BY <1>2
  <2>2. CASE i \in DOMAIN cor
    <3>1. cor[i] \in Reading
      BY <1>1, <2>2
    <3>2. [items[i] EXCEPT !.reading = cor[i]] \in Item
      BY <2>1, <3>1 DEF Item
    <3> QED BY <2>2, <3>2
  <2> QED BY <2>1, <2>2
<1> HIDE DEF new
<1> QED BY <1>2, <1>3, <1>4

\* Steps that change a session that is not committed, and nothing of the
\* tables, the commit in progress or the answers.
LEMMA SessionStepSound ==
  ASSUME IInv, NEW s \in Sessions, NEW row \in SessionRow, Idle,
         session[s].status # "committed",
         session' = [session EXCEPT ![s] = row],
         UNCHANGED <<db, tx, answered, faults>>, refused' \subseteq Sessions
  PROVE  IInv'
<1>1. TypeOK'
  BY DEF IInv, TypeOK, SessionRow
<1>2. AnswersAgree'
  BY DEF IInv, TypeOK, AnswersAgree
<1> QED BY <1>1, <1>2 DEF IInv, Idle

\* Every handler and every step of a commit keeps the invariant.
LEMMA StepSound == IInv /\ [Next]_vars => IInv'
<1> SUFFICES ASSUME IInv, [Next]_vars PROVE IInv'
  OBVIOUS
<1> USE DEF SessionRow
<1>t. /\ session \in [Sessions -> SessionRow]
      /\ db \in Tables /\ tx \in TxRow
      /\ answered \subseteq [session : Sessions, request : Requests, outcomes : Seq(Outcome)]
      /\ refused \subseteq Sessions /\ faults \in Nat
  BY DEF IInv, TypeOK, TxRow
<1>i. /\ TablesInv(db) /\ TablesInv(tx.work)
      /\ ~ Idle => session[tx.session].status = "preview" /\ tx.request \in Requests
      /\ AnswersAgree
  BY DEF IInv
<1>n. ASSUME NEW s \in Sessions, session[s].status # "committed"
      PROVE  \A a \in answered : a.session # s
  BY <1>i, <1>n DEF AnswersAgree
<1>b. ~ Idle => tx.session \in Sessions
  BY <1>t DEF Idle, TxRow
<1>1. ASSUME NEW s \in Sessions, CreateSession(s) PROVE IInv'
  <2>1. [Absent EXCEPT !.status = "preview"] \in SessionRow
    <3>1. Absent \in SessionRow
      BY DEF Absent
    <3> QED BY <3>1
  <2> QED BY <1>1, <1>t, <2>1, SessionStepSound DEF CreateSession
<1>2. ASSUME NEW s \in Sessions, NEW item \in Captures, AddItem(s, item) PROVE IInv'
  <2>1. item \in Item
    BY CaptureAssumption
  <2> DEFINE row == [session[s] EXCEPT !.items = Append(session[s].items, item)]
  <2>2. Append(session[s].items, item) \in Seq(Item)
    BY <1>t, <2>1
  <2>3. row \in SessionRow
    BY <1>t, <2>2
  <2>4. session' = [session EXCEPT ![s] = row]
    BY <1>2, <1>t DEF AddItem
  <2> HIDE DEF row
  <2> QED BY <1>2, <1>t, <2>3, <2>4, SessionStepSound DEF AddItem, Draftable
<1>3. ASSUME NEW s \in Sessions, CancelSession(s) PROVE IInv'
  <2> DEFINE row == [session[s] EXCEPT !.status = "cancelled"]
  <2>1. row \in SessionRow
    BY <1>t
  <2>2. session' = [session EXCEPT ![s] = row]
    BY <1>3, <1>t DEF CancelSession
  <2> HIDE DEF row
  <2> QED BY <1>3, <1>t, <2>1, <2>2, SessionStepSound DEF CancelSession, Draftable
<1>4. ASSUME NEW s \in Sessions, TimePasses(s) PROVE IInv'
  <2> DEFINE row == [session[s] EXCEPT !.late = TRUE]
  <2>1. row \in SessionRow
    BY <1>t
  <2>2. session' = [session EXCEPT ![s] = row]
    BY <1>4, <1>t DEF TimePasses
  <2> HIDE DEF row
  <2> QED BY <1>4, <1>t, <2>1, <2>2, SessionStepSound DEF TimePasses
<1>5. ASSUME NEW s \in Sessions, RefuseExpired(s) PROVE IInv'
  <2>1. TypeOK'
    BY <1>5, <1>t DEF RefuseExpired, TypeOK, TxRow
  <2> QED BY <1>5, <1>i, <2>1 DEF RefuseExpired, IInv, Idle, AnswersAgree
<1>6. ASSUME NEW s \in Sessions, NEW request \in Requests, BeginCommit(s, request) PROVE IInv'
  <2>1. request.confirmed \in Seq(Nat)
    BY RequestAssumption
  <2>2. ApplyCorrections(session[s].items, request.corrections) \in Seq(Item)
    BY <1>t, CorrectedItems
  <2>3. tx' \in TxRow /\ tx'.session = s /\ tx'.work = db /\ tx'.request = request
    BY <1>6, <1>t, <2>1, <2>2 DEF BeginCommit, TxRow
  <2>4. TypeOK'
    BY <1>6, <1>t, <2>3 DEF BeginCommit, TypeOK, TxRow
  <2>5. session'[tx'.session].status = "preview"
    BY <1>6, <2>3 DEF BeginCommit, Draftable
  <2> QED BY <1>6, <1>i, <2>3, <2>4, <2>5 DEF BeginCommit, IInv, AnswersAgree
<1>7. ASSUME NEW s \in Sessions, NEW request \in Requests, ReplayCommit(s, request) PROVE IInv'
  <2>1. /\ session[s].status = "committed" /\ session[s].request = request
        /\ answered' = answered \cup {[session |-> s, request |-> request, outcomes |-> session[s].outcomes]}
        /\ UNCHANGED <<session, db, tx, refused, faults>>
    BY <1>7 DEF ReplayCommit, SameRequest, Answer
  <2>2. session[s].outcomes \in Seq(Outcome)
    BY <1>t
  <2>3. TypeOK'
    BY <1>t, <2>1, <2>2 DEF TypeOK, TxRow
  <2>4. AnswersAgree'
    BY <1>i, <2>1 DEF AnswersAgree
  <2> QED BY <1>i, <2>1, <2>3, <2>4 DEF IInv, Idle
<1>8. ASSUME CommitItem PROVE IInv'
  <2> DEFINE item == tx.items[Head(tx.todo)]
             done == MaterializeItem(tx.work, tx.session, item)
  <2>1. /\ ~ Idle /\ tx.todo # <<>> /\ Head(tx.todo) \in DOMAIN tx.items
        /\ tx' = [tx EXCEPT !.todo = Tail(@), !.work = done.tables,
                            !.outcomes = Append(@, done.outcome)]
        /\ UNCHANGED <<session, db, answered, refused, faults>>
    BY <1>8 DEF CommitItem
  <2>2. /\ tx.work \in Tables /\ tx.session \in Sessions /\ item \in Item
        /\ tx.outcomes \in Seq(Outcome) /\ tx.todo \in Seq(Nat)
    BY <1>t, <1>b, <2>1 DEF TxRow
  <2>3. done.tables \in Tables /\ TablesInv(done.tables) /\ done.outcome \in Outcome
    <3> HIDE DEF item
    <3> QED BY <1>i, <2>2, MaterializeItemSound
  <2> HIDE DEF done, item
  <2>4. Append(tx.outcomes, done.outcome) \in Seq(Outcome) /\ Tail(tx.todo) \in Seq(Nat)
    BY <2>1, <2>2, <2>3
  <2>5. tx' \in TxRow /\ tx'.session = tx.session /\ tx'.work = done.tables
        /\ tx'.request = tx.request
    BY <1>t, <2>1, <2>3, <2>4 DEF TxRow
  <2>6. TypeOK'
    BY <1>t, <2>1, <2>5 DEF TypeOK, TxRow
  <2> QED BY <1>i, <2>1, <2>3, <2>5, <2>6 DEF IInv, Idle, AnswersAgree
<1>9. ASSUME UnknownIndex \/ Fault PROVE IInv'
  <2>1. tx' = NoTx /\ UNCHANGED <<session, db, answered, refused>> /\ faults' \in Nat
    BY <1>9, <1>t DEF UnknownIndex, Fault, Rollback
  <2>2. TypeOK'
    BY <1>t, <2>1, NoTxType DEF TypeOK, TxRow
  <2> QED BY <1>i, <2>1, <2>2, NoTxType, EmptyTablesSound DEF IInv, Idle, AnswersAgree
<1>10. ASSUME FinishCommit PROVE IInv'
  <2> DEFINE row == [session[tx.session] EXCEPT !.status = "committed", !.items = tx.items,
                                                !.request = tx.request, !.outcomes = tx.outcomes]
             answer == [session |-> tx.session, request |-> tx.request, outcomes |-> tx.outcomes]
  <2>1. /\ ~ Idle
        /\ db' = tx.work
        /\ session' = [session EXCEPT ![tx.session] = row]
        /\ tx' = NoTx
        /\ answered' = answered \cup {answer} \/ answered' = answered
        /\ UNCHANGED <<refused, faults>>
    BY <1>10 DEF FinishCommit, Answer
  <2>2. /\ tx.session \in Sessions /\ tx.items \in Seq(Item) /\ tx.outcomes \in Seq(Outcome)
        /\ tx.work \in Tables /\ tx.request \in Requests
    BY <1>t, <1>b, <1>i, <2>1 DEF TxRow
  <2>3. row \in SessionRow /\ row.status = "committed"
        /\ row.request = tx.request /\ row.outcomes = tx.outcomes
    <3>1. session[tx.session] \in SessionRow
      BY <1>t, <2>2
    <3> QED BY <2>2, <3>1
  <2>4. answered' \subseteq [session : Sessions, request : Requests, outcomes : Seq(Outcome)]
    BY <1>t, <2>1, <2>2
  <2>5. TypeOK'
    BY <1>t, <2>1, <2>2, <2>3, <2>4, NoTxType DEF TypeOK, TxRow
  <2>6. AnswersAgree'
    <3>1. \A a \in answered : a.session # tx.session
      BY <1>i, <1>n, <2>1, <2>2
    <3>2. session'[tx.session] = row /\ \A s \in Sessions : s # tx.session => session'[s] = session[s]
      BY <1>t, <2>1, <2>2
    <3> HIDE DEF row
    <3> QED BY <1>i, <1>t, <2>1, <2>3, <3>1, <3>2 DEF AnswersAgree
  <2> QED BY <1>i, <2>1, <2>5, <2>6, NoTxType, EmptyTablesSound DEF IInv, Idle
<1>11. CASE UNCHANGED vars
  BY <1>11 DEF vars, IInv, TypeOK, Idle, AnswersAgree
<1> QED BY <1>1, <1>2, <1>3, <1>4, <1>5, <1>6, <1>7, <1>8, <1>9, <1>10, <1>11 DEF Next

-----------------------------------------------------------------------------
(* The theorems.                                                            *)

\* The tables and the copy a commit works on are sound in every reachable
\* state, for any captures, requests and number of sessions.
THEOREM InductiveInvariant == Spec => []IInv
<1>1. Init => IInv
  BY InitSound
<1>2. IInv /\ [Next]_vars => IInv'
  BY StepSound
<1> QED BY <1>1, <1>2, PTL DEF Spec

\* A candidate's versions are numbered without a gap, state different facts,
\* supersede older ones, and one of them is active.
THEOREM VersionHistoryHolds == Spec => []VersionHistory
<1>1. IInv => VersionHistory
  BY DEF IInv, TablesInv, VersionHistory
<1> QED BY <1>1, InductiveInvariant, PTL

\* No version is the fruit of an ambiguous or an impoverished reading.
THEOREM VersionsAreEarnedHolds == Spec => []VersionsAreEarned
<1>1. IInv => VersionsAreEarned
  BY DEF IInv, TablesInv, VersionsAreEarned
<1> QED BY <1>1, InductiveInvariant, PTL

\* A provider's record id names at most one source record.
THEOREM OneSourcePerKeyHolds == Spec => []OneSourcePerKey
<1>1. IInv => OneSourcePerKey
  BY DEF IInv, TablesInv, OneSourcePerKey
<1> QED BY <1>1, InductiveInvariant, PTL

\* A source record is the primary source of exactly one candidate.
THEOREM OneCandidatePerSourceHolds == Spec => []OneCandidatePerSource
<1>1. IInv => OneCandidatePerSource
  BY DEF IInv, TablesInv, OneCandidatePerSource
<1> QED BY <1>1, InductiveInvariant, PTL

\* A repeated commit is answered as the first one was.
THEOREM AnswersAgreeHolds == Spec => []AnswersAgree
<1>1. IInv => AnswersAgree
  BY DEF IInv
<1> QED BY <1>1, InductiveInvariant, PTL

-----------------------------------------------------------------------------
(* What the outcomes of commits say of the tables.                          *)

SourceOfVersion(d, v) == d.candidates[d.versions[v].candidate].source
\* o's snapshot and source exist, and if o may be analysed its version states
\* the facts of its snapshot.
NamesItsFacts(d, o) ==
  /\ o.snapshot \in DOMAIN d.snapshots
  /\ o.source \in DOMAIN d.sources \cup {0}
  /\ o.eligible =>
       /\ o.version \in VersionsOf(d, o.candidate)
       /\ d.versions[o.version].facts = d.snapshots[o.snapshot].item.reading.facts
ByUrlAlone(d, o) ==
  /\ o.decision \notin {"new_identity", "identity_conflict"}
  /\ ~ HasProviderKey(d.snapshots[o.snapshot].item)
Matches(d, j, item) ==
  d.sources[j].provider = item.provider /\ d.sources[j].url = item.url
\* A version of another source with o's URL came after o.
OthersAreLater(d, o) ==
  ByUrlAlone(d, o) =>
    \A v \in DOMAIN d.versions :
      LET j == SourceOfVersion(d, v)
      IN  j # o.source /\ Matches(d, j, d.snapshots[o.snapshot].item)
          => d.versions[v].snapshot > o.snapshot
\* The latest snapshot of a source is the newest that H attributes to it.
LatestIsNewest(d, H) ==
  \A i \in DOMAIN d.sources :
    /\ \E o \in H : o.source = i /\ o.snapshot = d.sources[i].latest
    /\ \A o \in H : o.source = i => d.sources[i].latest >= o.snapshot
Accounts(d, H) ==
  /\ \A o \in H : NamesItsFacts(d, o) /\ OthersAreLater(d, o)
  /\ LatestIsNewest(d, H)

InProgress == {tx.outcomes[k] : k \in DOMAIN tx.outcomes}
\* The snapshots session s left in d.
SnapshotsOf(d, s) == {i \in DOMAIN d.snapshots : d.snapshots[i].session = s}
Counts ==
  /\ \A s \in Sessions : Cardinality(SnapshotsOf(db, s)) =
       IF session[s].status = "committed" THEN Len(session[s].request.confirmed) ELSE 0
  /\ ~ Idle =>
       /\ \A s \in Sessions \ {tx.session} : SnapshotsOf(tx.work, s) = SnapshotsOf(db, s)
       /\ Cardinality(SnapshotsOf(tx.work, tx.session)) + Len(tx.todo) = Len(tx.request.confirmed)
LInv ==
  /\ Accounts(db, Outcomes)
  /\ ~ Idle => Accounts(tx.work, Outcomes \cup InProgress)
  /\ Counts

-----------------------------------------------------------------------------
(* What one item adds to the tables.                                        *)

\* What a step that writes snapshot snap leaves of d: every version stays as
\* it was, and a new one was read from snap.
KeepsVersions(d, e, snap) ==
  /\ DOMAIN d.versions \subseteq DOMAIN e.versions
  /\ \A v \in DOMAIN d.versions : e.versions[v] = d.versions[v]
  /\ \A v \in DOMAIN e.versions \ DOMAIN d.versions : e.versions[v].snapshot = snap
KeepsCandidates(d, e) ==
  /\ DOMAIN d.candidates \subseteq DOMAIN e.candidates
  /\ \A c \in DOMAIN d.candidates : e.candidates[c].source = d.candidates[c].source
\* The active version of c is one of c's and states the facts.
ActiveStates(e, c, facts) ==
  /\ e.candidates[c].active \in VersionsOf(e, c)
  /\ e.versions[e.candidates[c].active].facts = facts

\* Appending a version changes no other.
LEMMA AppendVersionKeeps ==
  ASSUME NEW d \in Tables, NEW c \in DOMAIN d.candidates, NEW facts \in Facts, NEW snap \in Nat,
         NumberedFromOne(d)
  PROVE  LET e == AppendVersion(d, c, facts, snap)
             k == Len(d.versions) + 1
         IN  /\ KeepsVersions(d, e, snap)
             /\ k \in DOMAIN e.versions
             /\ e.versions[k].candidate = c /\ e.versions[k].facts = facts
<1> DEFINE e == AppendVersion(d, c, facts, snap)
           n == NextVersionNo(d, c)
           k == Len(d.versions) + 1
           x == [candidate |-> c, no |-> n, facts |-> facts,
                 supersedes |-> d.candidates[c].active, snapshot |-> snap]
<1>1. /\ d.versions \in Seq(Version)
      /\ d.candidates \in Seq(Candidate)
      /\ d.candidates[c] \in Candidate
      /\ Len(d.versions) \in Nat
  BY TablesFields
<1>2. n \in 1 .. Len(d.versions) + 1
  BY NextVersionNumber
<1>3. n \in Nat /\ c \in Nat /\ d.candidates[c].active \in Nat
  BY <1>1, <1>2 DEF Candidate
<1>4. x \in Version
  <2> HIDE DEF n
  <2> QED BY <1>3 DEF Version
<1>5. x.candidate = c /\ x.facts = facts /\ x.snapshot = snap
  OBVIOUS
<1>6. e.versions = Append(d.versions, x)
  BY DEF AppendVersion, Tables
<1> HIDE DEF x, e, n
<1>7. /\ DOMAIN d.versions = 1 .. Len(d.versions)
      /\ DOMAIN Append(d.versions, x) = 1 .. Len(d.versions) + 1
      /\ \A i \in 1 .. Len(d.versions) : Append(d.versions, x)[i] = d.versions[i]
      /\ Append(d.versions, x)[Len(d.versions) + 1] = x
  BY <1>1, <1>4, AppendProperties
<1>8. DOMAIN e.versions = DOMAIN d.versions \cup {k} /\ k \notin DOMAIN d.versions
      /\ (\A i \in DOMAIN d.versions : e.versions[i] = d.versions[i])
      /\ e.versions[k] = x
  BY <1>1, <1>6, <1>7
<1> HIDE DEF k
<1> QED BY <1>5, <1>8 DEF KeepsVersions, e, k

\* insertNewVersion changes no recorded version, and makes one with the facts active.
LEMMA InsertNewVersionKeeps ==
  ASSUME NEW d \in Tables, NEW c \in DOMAIN d.candidates, NEW facts \in Facts, NEW snap \in Nat,
         Recorded(d), MayAppend(d, c, facts, snap)
  PROVE  LET e == InsertNewVersion(d, c, facts, snap)
         IN  KeepsVersions(d, e, snap) /\ ActiveStates(e, c, facts)
<1> DEFINE same == {v \in VersionsOf(d, c) : d.versions[v].facts = facts}
           e == InsertNewVersion(d, c, facts, snap)
<1>1. /\ d.versions \in Seq(Version) /\ Len(d.versions) \in Nat
      /\ DOMAIN d.versions = 1 .. Len(d.versions)
  BY TablesFields
<1>2. CASE same # {}
  <2> DEFINE v == CHOOSE v \in same : TRUE
  <2>1. v \in same
    BY <1>2
  <2>2. v \in VersionsOf(d, c) /\ d.versions[v].facts = facts
    BY <2>1
  <2>3. \A u \in VersionsOf(d, c) : u \in Nat
    BY <1>1 DEF VersionsOf
  <2>4. v \in Nat
    BY <2>2, <2>3
  <2>5. e = SetActiveVersion(d, c, v)
    BY <1>2 DEF InsertNewVersion
  <2> HIDE DEF same, v, e
  <2>6. e.versions = d.versions /\ e.candidates[c].active = v
    BY <2>4, <2>5, SetActiveVersionFrame
  <2> QED BY <2>2, <2>6 DEF e, KeepsVersions, ActiveStates, VersionsOf
<1>3. CASE same = {}
  <2> DEFINE k == Len(d.versions) + 1
             a == AppendVersion(d, c, facts, snap)
  <2>1. a \in Tables /\ a.candidates = d.candidates
    BY <1>3, AppendVersionSound
  <2>2. KeepsVersions(d, a, snap) /\ k \in DOMAIN a.versions
        /\ a.versions[k].candidate = c /\ a.versions[k].facts = facts
    BY AppendVersionKeeps DEF Recorded
  <2>3. e = SetActiveVersion(a, c, k)
    BY <1>3 DEF InsertNewVersion
  <2>4. k \in Nat
    BY <1>1
  <2> HIDE DEF same, k, a, e
  <2>5. e.versions = a.versions /\ e.candidates[c].active = k
    BY <2>1, <2>3, <2>4, SetActiveVersionFrame
  <2> QED BY <2>2, <2>5 DEF e, KeepsVersions, ActiveStates, VersionsOf
<1> QED BY <1>2, <1>3

\* What creating a candidate on a source of its own adds.
LEMMA CreateCandidateKeeps ==
  ASSUME NEW d \in Tables, TablesInv(d), NEW item \in Item, NEW snap \in DOMAIN d.snapshots,
         item.reading.facts = d.snapshots[snap].item.reading.facts
  PROVE  LET e == CreateCandidate(d, 0, item, snap)
             c == Len(d.candidates) + 1
             n == Len(d.sources) + 1
         IN  /\ e.snapshots = d.snapshots
             /\ KeepsVersions(d, e, snap) /\ KeepsCandidates(d, e)
             /\ ActiveStates(e, c, item.reading.facts)
             /\ Len(e.candidates) = c /\ e.candidates[c].source = n
             /\ DOMAIN e.sources = DOMAIN d.sources \cup {n} /\ n \notin DOMAIN d.sources
             /\ n # 0
             /\ \A i \in DOMAIN d.sources : e.sources[i] = d.sources[i]
             /\ e.sources[n].latest = snap
<1> DEFINE src == Len(d.sources) + 1
           c   == Len(d.candidates) + 1
           x   == [provider |-> item.provider, ext |-> item.ext, url |-> item.url, latest |-> snap]
           y   == [source |-> src, active |-> 0]
           d1  == [d EXCEPT !.sources = Append(@, x)]
           d2  == [d1 EXCEPT !.candidates = Append(@, y)]
           d3  == InsertNewVersion(d2, c, item.reading.facts, snap)
           e   == CreateCandidate(d, 0, item, snap)
<1>1. /\ d.snapshots \in Seq(Snapshot) /\ d.sources \in Seq(Source)
      /\ d.candidates \in Seq(Candidate) /\ d.versions \in Seq(Version)
      /\ d.links \in SUBSET (Nat \X Nat)
  BY TablesFields
<1>2. snap \in Nat /\ src \in Nat /\ c \in Nat /\ src # 0
  BY <1>1
<1>3. /\ x \in Source /\ y \in Candidate /\ x.latest = snap
      /\ y.source = src /\ y.active = 0
  BY <1>2 DEF Source, Candidate, Item
<1>4. item.reading.facts \in Facts
  BY DEF Item, Reading
<1>5. e = [d3 EXCEPT !.links = @ \cup {<<c, src>>}]
  BY DEF CreateCandidate
<1> HIDE DEF x, y
<1>6. /\ Append(d.sources, x) \in Seq(Source)
      /\ DOMAIN d.sources = 1 .. Len(d.sources)
      /\ Len(d.sources) \in Nat
      /\ DOMAIN Append(d.sources, x) = 1 .. src
      /\ \A i \in 1 .. Len(d.sources) : Append(d.sources, x)[i] = d.sources[i]
      /\ Append(d.sources, x)[src] = x
  BY <1>1, <1>3, AppendProperties
<1>7. /\ Append(d.candidates, y) \in Seq(Candidate)
      /\ DOMAIN d.candidates = 1 .. Len(d.candidates)
      /\ Len(d.candidates) \in Nat
      /\ DOMAIN Append(d.candidates, y) = 1 .. c
      /\ Len(Append(d.candidates, y)) = c
      /\ \A i \in 1 .. Len(d.candidates) : Append(d.candidates, y)[i] = d.candidates[i]
      /\ Append(d.candidates, y)[c] = y
  BY <1>1, <1>3, AppendProperties
<1>8. /\ d2 \in Tables
      /\ d2.sources = Append(d.sources, x)
      /\ d2.candidates = Append(d.candidates, y)
      /\ d2.snapshots = d.snapshots /\ d2.versions = d.versions /\ d2.links = d.links
  BY <1>6, <1>7 DEF Tables
<1> HIDE DEF d1, d2
<1>9. /\ DOMAIN d2.sources = DOMAIN d.sources \cup {src}
      /\ src \notin DOMAIN d.sources
      /\ \A i \in DOMAIN d.sources : d2.sources[i] = d.sources[i]
      /\ d2.sources[src] = x
  BY <1>6, <1>8
<1>10. /\ DOMAIN d2.candidates = DOMAIN d.candidates \cup {c}
       /\ c \notin DOMAIN d.candidates
       /\ \A i \in DOMAIN d.candidates : d2.candidates[i] = d.candidates[i]
       /\ d2.candidates[c] = y
       /\ Len(d2.candidates) = c
  BY <1>7, <1>8
<1> HIDE DEF src, c
<1>11. /\ Recorded(d2)
       /\ VersionsOf(d2, c) = {}
       /\ \A b \in DOMAIN d.candidates : d2.candidates[b].active \in VersionsOf(d2, b)
  <2>1. VersionHistoryIn(d) /\ VersionsAreEarnedIn(d)
    BY DEF TablesInv
  <2>2. \A b : VersionsOf(d2, b) = VersionsOf(d, b)
    BY <1>8 DEF VersionsOf
  <2>3. /\ DistinctFacts(d2) /\ DistinctNumbers(d2)
        /\ NumberedFromOne(d2) /\ SupersedesOwn(d2) /\ VersionsAreEarnedIn(d2)
    <3>1. DistinctFacts(d2) /\ DistinctNumbers(d2)
      BY <1>8, <2>1 DEF VersionHistoryIn, DistinctFacts, DistinctNumbers
    <3>2. NumberedFromOne(d2)
      BY <1>8, <2>1, <2>2 DEF VersionHistoryIn, NumberedFromOne
    <3>3. SupersedesOwn(d2)
      BY <1>8, <2>1, <2>2 DEF VersionHistoryIn, SupersedesOwn
    <3>4. VersionsAreEarnedIn(d2)
      BY <1>8, <2>1 DEF VersionsAreEarnedIn
    <3> QED BY <3>1, <3>2, <3>3, <3>4
  <2>4. /\ \A v \in DOMAIN d.versions : d.versions[v].candidate \in DOMAIN d.candidates
        /\ \A b \in DOMAIN d.candidates : d.candidates[b].active \in VersionsOf(d, b)
    BY <2>1 DEF VersionHistoryIn, ActiveIsOwn
  <2>5. VersionsOf(d2, c) = {}
    BY <1>8, <1>10, <2>4 DEF VersionsOf
  <2> QED BY <1>8, <1>10, <2>2, <2>3, <2>4, <2>5 DEF Recorded
<1>12. MayAppend(d2, c, item.reading.facts, snap)
  BY <1>3, <1>8, <1>10, <1>11 DEF MayAppend
<1>a. /\ c \in DOMAIN d2.candidates
      /\ \A b \in DOMAIN d2.candidates : b # c => d2.candidates[b].active \in VersionsOf(d2, b)
  BY <1>10, <1>11
<1>13. /\ d3 \in Tables
       /\ VersionHistoryIn(d3)
       /\ VersionsAreEarnedIn(d3)
       /\ d3.snapshots = d2.snapshots /\ d3.sources = d2.sources /\ d3.links = d2.links
       /\ DOMAIN d3.candidates = DOMAIN d2.candidates
       /\ Len(d3.candidates) = Len(d2.candidates)
       /\ \A b \in DOMAIN d2.candidates : d3.candidates[b].source = d2.candidates[b].source
       /\ d3.candidates[c].active \in Nat
  BY <1>2, <1>4, <1>8, <1>11, <1>12, <1>a, InsertNewVersionSound
<1>14. KeepsVersions(d2, d3, snap) /\ ActiveStates(d3, c, item.reading.facts)
  BY <1>2, <1>4, <1>8, <1>11, <1>12, <1>a, InsertNewVersionKeeps
<1> HIDE DEF d3
<1>15. /\ e.snapshots = d3.snapshots /\ e.sources = d3.sources
       /\ e.candidates = d3.candidates /\ e.versions = d3.versions
  <2> HIDE DEF e
  <2> QED BY <1>5, <1>13 DEF Tables
<1> HIDE DEF e
<1>16. KeepsVersions(d, e, snap) /\ ActiveStates(e, c, item.reading.facts)
  BY <1>8, <1>14, <1>15 DEF KeepsVersions, ActiveStates, VersionsOf
<1>17. KeepsCandidates(d, e) /\ e.candidates[c].source = src
  BY <1>3, <1>10, <1>13, <1>15 DEF KeepsCandidates
<1>18. /\ e.snapshots = d.snapshots
       /\ Len(e.candidates) = c
       /\ DOMAIN e.sources = DOMAIN d.sources \cup {src} /\ src \notin DOMAIN d.sources
       /\ \A i \in DOMAIN d.sources : e.sources[i] = d.sources[i]
       /\ e.sources[src].latest = snap
  BY <1>3, <1>8, <1>9, <1>10, <1>13, <1>15
<1> QED BY <1>2, <1>16, <1>17, <1>18 DEF e, c, src

\* Recording that a source was seen changes its latest snapshot only.
LEMMA TouchSourceKeeps ==
  ASSUME NEW d \in Tables, NEW src \in DOMAIN d.sources, src # 0, NEW snap \in Nat
  PROVE  LET e == TouchSource(d, src, snap)
         IN  /\ e.sources[src].latest = snap
             /\ \A i \in DOMAIN d.sources : i # src => e.sources[i] = d.sources[i]
<1>1. d.sources \in Seq(Source) /\ d.sources[src] \in Source
  BY TablesFields
<1> DEFINE x == [d.sources[src] EXCEPT !.latest = snap]
<1>2. x.latest = snap
  BY <1>1 DEF Source
<1>3. TouchSource(d, src, snap).sources = [d.sources EXCEPT ![src] = x]
  BY DEF TouchSource, Tables
<1> HIDE DEF x
<1> QED BY <1>1, <1>2, <1>3

\* What materialising item for session s leaves: one snapshot more; every
\* version, candidate and source as it was, but for the latest snapshot of the
\* outcome's source; an outcome that names what was written.
Materialized(d, e, o, s, item) ==
  /\ e.snapshots = Append(d.snapshots, [session |-> s, item |-> item])
  /\ o.snapshot = Len(d.snapshots) + 1
  /\ KeepsVersions(d, e, o.snapshot)
  /\ KeepsCandidates(d, e)
  /\ DOMAIN d.sources \subseteq DOMAIN e.sources
  /\ DOMAIN e.sources \subseteq DOMAIN d.sources \cup {o.source}
  /\ o.source \in DOMAIN e.sources \cup {0}
  /\ o.source \in DOMAIN e.sources => e.sources[o.source].latest = o.snapshot
  /\ \A i \in DOMAIN d.sources :
       /\ e.sources[i].provider = d.sources[i].provider
       /\ e.sources[i].url = d.sources[i].url
       /\ i # o.source => e.sources[i].latest = d.sources[i].latest
  /\ o.eligible => /\ o.version \in VersionsOf(e, o.candidate)
                   /\ e.versions[o.version].facts = item.reading.facts
  /\ o.decision \notin {"new_identity", "identity_conflict"} /\ ~ HasProviderKey(item) =>
       \A j \in DOMAIN e.sources : Matches(e, j, item) => j = o.source

\* Several sources with the item's URL are a conflict.
LEMMA UrlAloneIsUnique ==
  ASSUME NEW d \in Tables, NEW item \in Item, ~ HasProviderKey(item),
         ResolveIdentity(d, item).kind = "exact_existing"
  PROVE  \A j \in DOMAIN d.sources : Matches(d, j, item) => j = ResolveIdentity(d, item).matched
<1> DEFINE hits == ByProviderAndUrl(d, item)
<1>1. ResolveIdentity(d, item) = Hits(hits)
  BY DEF ResolveIdentity, NewSource
<1>2. hits # {} /\ Cardinality(hits) = 1 /\ Hits(hits).matched = CHOOSE i \in hits : TRUE
  <2> HIDE DEF hits
  <2> QED BY <1>1 DEF Hits, NewSource
<1>3. IsFiniteSet(DOMAIN d.sources)
  <2>1. DOMAIN d.sources = 1 .. Len(d.sources) /\ Len(d.sources) \in Nat
    BY TablesFields
  <2>2. PICK m \in Nat : m = Len(d.sources)
    BY <2>1
  <2> QED BY <2>1, <2>2, FS_Interval
<1>4. IsFiniteSet(hits)
  BY <1>3, FS_Subset DEF ByProviderAndUrl
<1>5. PICK i : hits = {i}
  <2> HIDE DEF hits
  <2> QED BY <1>2, <1>4, FS_Singleton
<1>6. Hits(hits).matched = i
  BY <1>2, <1>5
<1> QED BY <1>1, <1>5, <1>6 DEF ByProviderAndUrl, Matches

\* Materialising an item does just that.
LEMMA MaterializeItemKeeps ==
  ASSUME NEW d \in Tables, TablesInv(d), NEW s \in Sessions, NEW item \in Item
  PROVE  LET done == MaterializeItem(d, s, item)
         IN  Materialized(d, done.tables, done.outcome, s, item)
<1> DEFINE d1       == AppendSnapshot(d, s, item)
           snap     == Len(d1.snapshots)
           identity == ResolveIdentity(d1, item)
           src      == identity.matched
           c        == CandidateOf(d1, src)
           v        == ActiveOf(d1, c)
           old      == IF v = 0 THEN NoFacts ELSE d1.versions[v].facts
           decision == DecideCommit(identity.kind, v # 0, old, item.reading)
           d2       == TouchSource(d1, src, snap)
           grown    == InsertNewVersion(d2, c, item.reading.facts, snap)
           new      == CreateCandidate(d2, src, item, snap)
           made     == Len(new.candidates)
           done     == MaterializeItem(d, s, item)
           entry    == [session |-> s, item |-> item]
<1>1. /\ d1 \in Tables /\ TablesInv(d1)
      /\ snap \in DOMAIN d1.snapshots /\ d1.snapshots[snap].item = item
  BY AppendSnapshotSound
<1>2. \/ /\ identity.kind = "new_source" /\ src = 0
         /\ HasProviderKey(item) => ByProviderKey(d1, item) = {}
      \/ identity.kind = "exact_existing" /\ src \in DOMAIN d1.sources
      \/ identity.kind = "identity_conflict" /\ src = 0
  BY <1>1, ResolveIdentityAnswers
<1>3. done = CASE decision = "identity_conflict" -> Result(d1, 0, 0, 0, snap, decision)
               [] decision = "new_identity" ->
                    Result(new, made, new.candidates[made].active, new.candidates[made].source, snap, decision)
               [] decision = "material_change" -> Result(grown, c, grown.candidates[c].active, src, snap, decision)
               [] OTHER -> Result(d2, c, v, src, snap, decision)
  BY DEF MaterializeItem
<1>4. snap \in Nat /\ snap # 0
  BY <1>1, TablesFields
<1>5. item.reading.facts \in Facts
  BY DEF Item, Reading
<1>6. \A e, a, b, g, D :
        /\ Result(e, a, b, g, snap, D).tables = e
        /\ Result(e, a, b, g, snap, D).outcome.candidate = a
        /\ Result(e, a, b, g, snap, D).outcome.version = b
        /\ Result(e, a, b, g, snap, D).outcome.source = g
        /\ Result(e, a, b, g, snap, D).outcome.snapshot = snap
        /\ Result(e, a, b, g, snap, D).outcome.decision = D
        /\ Result(e, a, b, g, snap, D).outcome.eligible => AnalysisEligible(D)
  BY DEF Result
<1>7. /\ d1.snapshots = Append(d.snapshots, entry)
      /\ snap = Len(d.snapshots) + 1
      /\ d1.sources = d.sources /\ d1.candidates = d.candidates /\ d1.versions = d.versions
  <2>1. entry \in Snapshot
    BY DEF Snapshot
  <2>2. d.snapshots \in Seq(Snapshot)
    BY TablesFields
  <2>3. /\ d1.snapshots = Append(d.snapshots, entry)
        /\ d1.sources = d.sources /\ d1.candidates = d.candidates /\ d1.versions = d.versions
    BY DEF AppendSnapshot, Tables
  <2> HIDE DEF entry, d1
  <2> QED BY <2>1, <2>2, <2>3, AppendProperties DEF snap
<1>8. 0 \notin DOMAIN d.sources
  BY TablesFields
<1>9. KeepsVersions(d, d1, snap) /\ KeepsCandidates(d, d1)
  BY <1>7 DEF KeepsVersions, KeepsCandidates
<1> HIDE DEF d1, snap, identity, src, c, v, done
<1>10. CASE identity.kind = "new_source"
  <2>1. src = 0
    BY <1>2, <1>10
  <2>2. decision = "new_identity"
    BY <1>10 DEF DecideCommit
  <2>3. d2 = d1
    BY <2>1 DEF TouchSource
  <2>4. new = CreateCandidate(d1, 0, item, snap)
    BY <2>1, <2>3
  <2> DEFINE n == Len(d1.sources) + 1
  <2> HIDE DEF new, decision
  <2>5. /\ new.snapshots = d1.snapshots
        /\ KeepsVersions(d1, new, snap) /\ KeepsCandidates(d1, new)
        /\ ActiveStates(new, Len(d1.candidates) + 1, item.reading.facts)
        /\ Len(new.candidates) = Len(d1.candidates) + 1
        /\ new.candidates[Len(d1.candidates) + 1].source = n
        /\ DOMAIN new.sources = DOMAIN d1.sources \cup {n} /\ n \notin DOMAIN d1.sources
        /\ n # 0
        /\ \A i \in DOMAIN d1.sources : new.sources[i] = d1.sources[i]
        /\ new.sources[n].latest = snap
    BY <1>1, <2>4, CreateCandidateKeeps
  <2>6. done = Result(new, made, new.candidates[made].active, new.candidates[made].source, snap, decision)
    BY <1>3, <2>2
  <2> HIDE DEF n
  <2>7. /\ done.tables = new /\ done.outcome.candidate = made
        /\ done.outcome.version = new.candidates[made].active
        /\ done.outcome.source = n /\ done.outcome.snapshot = snap
        /\ done.outcome.decision = "new_identity"
    BY <1>6, <2>2, <2>5, <2>6
  <2>8. ActiveStates(new, made, item.reading.facts)
    BY <2>5
  <2> QED BY <1>7, <2>5, <2>7, <2>8 DEF done, Materialized, ActiveStates, KeepsVersions, KeepsCandidates
<1>11. CASE identity.kind = "identity_conflict"
  <2>1. decision = "identity_conflict"
    BY <1>11 DEF DecideCommit
  <2>2. done = Result(d1, 0, 0, 0, snap, decision)
    BY <1>3, <2>1
  <2> HIDE DEF decision
  <2>3. /\ done.tables = d1 /\ done.outcome.source = 0 /\ done.outcome.snapshot = snap
        /\ done.outcome.decision = "identity_conflict" /\ ~ done.outcome.eligible
    BY <1>6, <2>1, <2>2 DEF AnalysisEligible
  <2> QED BY <1>7, <1>8, <1>9, <2>3 DEF done, Materialized
<1>12. CASE identity.kind = "exact_existing"
  <2>1. src \in DOMAIN d1.sources
    BY <1>2, <1>12, <1>1, TablesFields
  <2>2. /\ c \in DOMAIN d1.candidates /\ c # 0
        /\ v = d1.candidates[c].active
        /\ v \in VersionsOf(d1, c) /\ v # 0
    BY <1>1, <2>1, KnownSourceLeadsToVersion DEF c, v
  <2>3. old = d1.versions[v].facts /\ old \in Facts
    <3>1. v \in DOMAIN d1.versions
      BY <2>2 DEF VersionsOf
    <3>2. d1.versions[v] \in Version
      BY <1>1, <3>1, TablesFields
    <3> QED BY <2>2, <3>2 DEF Version
  <2>4. decision = IF item.reading.ambiguous THEN "ambiguous_change" ELSE MaterialChange(old, item.reading.facts)
    BY <1>12, <2>2 DEF DecideCommit
  <2>5. /\ d2 \in Tables
        /\ TablesInv(d2)
        /\ d2.snapshots = d1.snapshots /\ d2.candidates = d1.candidates
        /\ d2.versions = d1.versions
        /\ DOMAIN d2.sources = DOMAIN d1.sources
        /\ \A i \in DOMAIN d1.sources : /\ d2.sources[i].provider = d1.sources[i].provider
                                        /\ d2.sources[i].ext = d1.sources[i].ext
                                        /\ d2.sources[i].url = d1.sources[i].url
    BY <1>1, <1>4, <2>1, TouchSourceSound
  <2>6. src # 0
    BY <1>7, <1>8, <2>1
  <2>7. /\ d2.sources[src].latest = snap
        /\ \A i \in DOMAIN d1.sources : i # src => d2.sources[i] = d1.sources[i]
    BY <1>1, <1>4, <2>1, <2>6, TouchSourceKeeps
  <2>8. ~ HasProviderKey(item) => \A j \in DOMAIN d1.sources : Matches(d1, j, item) => j = src
    BY <1>1, <1>12, UrlAloneIsUnique DEF identity, src
  <2>9. ~ HasProviderKey(item) => \A j \in DOMAIN d2.sources : Matches(d2, j, item) => j = src
    BY <2>5, <2>8 DEF Matches
  <2> HIDE DEF d2, grown, old
  <2>10. CASE decision = "material_change"
    <3>1. ~ item.reading.ambiguous /\ MaterialChange(old, item.reading.facts) = "material_change"
      BY <2>4, <2>10
    <3>2. Forward(old, item.reading.facts) # {}
      BY <1>5, <2>3, <3>1, MaterialChangeIsForward
    <3>3. VersionsOf(d2, c) = VersionsOf(d1, c)
      BY <2>5 DEF VersionsOf
    <3>4. MayAppend(d2, c, item.reading.facts, snap)
      BY <1>1, <2>2, <2>3, <2>5, <3>1, <3>2, <3>3 DEF MayAppend
    <3>5. /\ Recorded(d2)
          /\ \A b \in DOMAIN d2.candidates : d2.candidates[b].active \in VersionsOf(d2, b)
      BY <2>5 DEF TablesInv, VersionHistoryIn, Recorded, ActiveIsOwn
    <3>6. /\ grown \in Tables
          /\ VersionHistoryIn(grown)
          /\ VersionsAreEarnedIn(grown)
          /\ grown.snapshots = d2.snapshots /\ grown.sources = d2.sources /\ grown.links = d2.links
          /\ DOMAIN grown.candidates = DOMAIN d2.candidates
          /\ \A b \in DOMAIN d2.candidates : grown.candidates[b].source = d2.candidates[b].source
          /\ grown.candidates[c].active \in Nat
      BY <1>4, <1>5, <2>2, <2>5, <3>4, <3>5, InsertNewVersionSound DEF grown
    <3>7. KeepsVersions(d2, grown, snap) /\ ActiveStates(grown, c, item.reading.facts)
      BY <1>4, <1>5, <2>2, <2>5, <3>4, <3>5, InsertNewVersionKeeps DEF grown
    <3>8. done = Result(grown, c, grown.candidates[c].active, src, snap, decision)
      BY <1>3, <2>10
    <3> HIDE DEF decision
    <3>9. /\ done.tables = grown /\ done.outcome.candidate = c
          /\ done.outcome.version = grown.candidates[c].active
          /\ done.outcome.source = src /\ done.outcome.snapshot = snap
      BY <1>6, <3>8
    <3>10. KeepsVersions(d, grown, snap) /\ KeepsCandidates(d, grown)
      BY <1>7, <2>5, <3>6, <3>7 DEF KeepsVersions, KeepsCandidates
    <3>11. ~ HasProviderKey(item) => \A j \in DOMAIN grown.sources : Matches(grown, j, item) => j = src
      BY <2>9, <3>6 DEF Matches
    <3> QED BY <1>7, <2>1, <2>5, <2>7, <3>6, <3>7, <3>9, <3>10, <3>11
            DEF done, Materialized, ActiveStates
  <2>11. CASE decision # "material_change"
    <3>1. decision \notin {"identity_conflict", "new_identity"}
      BY <2>4 DEF MaterialChange
    <3>2. done = Result(d2, c, v, src, snap, decision)
      BY <1>3, <2>11, <3>1
    <3> HIDE DEF decision
    <3>3. /\ done.tables = d2 /\ ~ done.outcome.eligible
          /\ done.outcome.source = src /\ done.outcome.snapshot = snap
      BY <1>6, <2>11, <3>1, <3>2 DEF AnalysisEligible
    <3>4. KeepsVersions(d, d2, snap) /\ KeepsCandidates(d, d2)
      BY <1>9, <2>5 DEF KeepsVersions, KeepsCandidates
    <3> QED BY <1>7, <2>1, <2>5, <2>7, <2>9, <3>3, <3>4 DEF done, Materialized
  <2> QED BY <2>10, <2>11
<1> QED BY <1>2, <1>10, <1>11, <1>12


-----------------------------------------------------------------------------
(* An item more keeps the accounts.                                         *)

\* Snapshots are only added.
LEMMA SnapshotsAreKept ==
  ASSUME NEW d \in Tables, NEW e, NEW o, NEW s \in Sessions, NEW item \in Item,
         Materialized(d, e, o, s, item)
  PROVE  /\ DOMAIN e.snapshots = DOMAIN d.snapshots \cup {o.snapshot}
         /\ o.snapshot \notin DOMAIN d.snapshots
         /\ \A i \in DOMAIN d.snapshots : e.snapshots[i] = d.snapshots[i] /\ o.snapshot > i
         /\ e.snapshots[o.snapshot].item = item /\ e.snapshots[o.snapshot].session = s
<1> DEFINE x == [session |-> s, item |-> item]
<1>1. x \in Snapshot /\ x.session = s /\ x.item = item
  BY DEF Snapshot
<1>2. d.snapshots \in Seq(Snapshot)
  BY TablesFields
<1>3. e.snapshots = Append(d.snapshots, x) /\ o.snapshot = Len(d.snapshots) + 1
  BY DEF Materialized
<1> HIDE DEF x
<1>4. /\ DOMAIN d.snapshots = 1 .. Len(d.snapshots)
      /\ Len(d.snapshots) \in Nat
      /\ DOMAIN Append(d.snapshots, x) = 1 .. Len(d.snapshots) + 1
      /\ \A i \in 1 .. Len(d.snapshots) : Append(d.snapshots, x)[i] = d.snapshots[i]
      /\ Append(d.snapshots, x)[Len(d.snapshots) + 1] = x
  BY <1>1, <1>2, AppendProperties
<1> QED BY <1>1, <1>3, <1>4

\* An old outcome still names its facts, and the versions that came since are later.
LEMMA OldOutcomeKept ==
  ASSUME NEW d \in Tables, TablesInv(d), NEW e, NEW n, NEW s \in Sessions, NEW item \in Item,
         Materialized(d, e, n, s, item),
         NEW o, NamesItsFacts(d, o), OthersAreLater(d, o)
  PROVE  NamesItsFacts(e, o) /\ OthersAreLater(e, o)
<1>1. /\ DOMAIN e.snapshots = DOMAIN d.snapshots \cup {n.snapshot}
      /\ \A i \in DOMAIN d.snapshots : e.snapshots[i] = d.snapshots[i] /\ n.snapshot > i
  BY SnapshotsAreKept
<1>2. o.snapshot \in DOMAIN d.snapshots /\ e.snapshots[o.snapshot] = d.snapshots[o.snapshot]
      /\ n.snapshot > o.snapshot
  BY <1>1 DEF NamesItsFacts
<1>3. NamesItsFacts(e, o)
  BY <1>1, <1>2 DEF NamesItsFacts, Materialized, KeepsVersions, VersionsOf
<1>4. OthersAreLater(e, o)
  <2> SUFFICES ASSUME ByUrlAlone(e, o), NEW v \in DOMAIN e.versions,
                      SourceOfVersion(e, v) # o.source,
                      Matches(e, SourceOfVersion(e, v), e.snapshots[o.snapshot].item)
               PROVE  e.versions[v].snapshot > o.snapshot
    BY DEF OthersAreLater
  <2>1. ByUrlAlone(d, o)
    BY <1>2 DEF ByUrlAlone
  <2>2. CASE v \in DOMAIN d.versions
    <3>1. e.versions[v] = d.versions[v]
      BY <2>2 DEF Materialized, KeepsVersions
    <3>2. d.versions[v].candidate \in DOMAIN d.candidates
      BY <2>2 DEF TablesInv, VersionHistoryIn, ActiveIsOwn
    <3>3. SourceOfVersion(e, v) = SourceOfVersion(d, v)
      BY <3>1, <3>2 DEF SourceOfVersion, Materialized, KeepsCandidates
    <3>4. SourceOfVersion(d, v) \in DOMAIN d.sources
      BY <3>2 DEF SourceOfVersion, TablesInv, OneCandidatePerSourceIn
    <3>5. Matches(d, SourceOfVersion(d, v), d.snapshots[o.snapshot].item)
      BY <1>2, <3>3, <3>4 DEF Matches, Materialized
    <3> QED BY <2>1, <2>2, <3>1, <3>3, <3>5 DEF OthersAreLater
  <2>3. CASE v \notin DOMAIN d.versions
    <3>1. e.versions[v].snapshot = n.snapshot
      BY <2>3 DEF Materialized, KeepsVersions
    <3> QED BY <1>2, <3>1
  <2> QED BY <2>2, <2>3
<1> QED BY <1>3, <1>4

\* The accounts of d, and the outcome of one item more, are those of e.
LEMMA AccountsKept ==
  ASSUME NEW d \in Tables, TablesInv(d), NEW e \in Tables, TablesInv(e),
         NEW n, NEW s \in Sessions, NEW item \in Item,
         Materialized(d, e, n, s, item),
         NEW H, Accounts(d, H)
  PROVE  Accounts(e, H \cup {n})
<1>1. /\ DOMAIN e.snapshots = DOMAIN d.snapshots \cup {n.snapshot}
      /\ \A i \in DOMAIN d.snapshots : n.snapshot > i
      /\ e.snapshots[n.snapshot].item = item
  BY SnapshotsAreKept
<1>2. \A o \in H : NamesItsFacts(e, o) /\ OthersAreLater(e, o)
  BY OldOutcomeKept DEF Accounts
<1>3. NamesItsFacts(e, n)
  BY <1>1 DEF NamesItsFacts, Materialized
<1>4. OthersAreLater(e, n)
  <2> SUFFICES ASSUME ByUrlAlone(e, n), NEW v \in DOMAIN e.versions,
                      Matches(e, SourceOfVersion(e, v), item)
               PROVE  SourceOfVersion(e, v) = n.source
    BY <1>1 DEF OthersAreLater
  <2>1. e.versions[v].candidate \in DOMAIN e.candidates
    BY DEF TablesInv, VersionHistoryIn, ActiveIsOwn
  <2>2. SourceOfVersion(e, v) \in DOMAIN e.sources
    BY <2>1 DEF SourceOfVersion, TablesInv, OneCandidatePerSourceIn
  <2>3. n.decision \notin {"new_identity", "identity_conflict"} /\ ~ HasProviderKey(item)
    BY <1>1 DEF ByUrlAlone
  <2> QED BY <2>2, <2>3 DEF Materialized
<1>5. LatestIsNewest(e, H \cup {n})
  <2> SUFFICES ASSUME NEW i \in DOMAIN e.sources
               PROVE  /\ \E o \in H \cup {n} : o.source = i /\ o.snapshot = e.sources[i].latest
                      /\ \A o \in H \cup {n} : o.source = i => e.sources[i].latest >= o.snapshot
    BY DEF LatestIsNewest
  <2>0. n.snapshot \in Nat /\ DOMAIN d.snapshots \subseteq Nat
    <3>1. e.snapshots \in Seq(Snapshot) /\ d.snapshots \in Seq(Snapshot)
      BY TablesFields
    <3> QED BY <1>1, <3>1
  <2>1. \A o \in H : o.snapshot \in Nat /\ n.snapshot >= o.snapshot
    BY <1>1, <2>0 DEF Accounts, NamesItsFacts
  <2>2. CASE i = n.source
    <3>1. e.sources[i].latest = n.snapshot
      BY <2>2 DEF Materialized
    <3> QED BY <2>0, <2>1, <2>2, <3>1
  <2>3. CASE i # n.source
    <3>1. i \in DOMAIN d.sources /\ e.sources[i].latest = d.sources[i].latest
      BY <2>3 DEF Materialized
    <3>2. /\ \E o \in H : o.source = i /\ o.snapshot = d.sources[i].latest
          /\ \A o \in H : o.source = i => d.sources[i].latest >= o.snapshot
      BY <3>1 DEF Accounts, LatestIsNewest
    <3> QED BY <2>3, <3>1, <3>2
  <2> QED BY <2>2, <2>3
<1> QED BY <1>2, <1>3, <1>4, <1>5 DEF Accounts

\* The item's session has one snapshot more, the others as many.
LEMMA SnapshotsCounted ==
  ASSUME NEW d \in Tables, NEW e, NEW o, NEW s \in Sessions, NEW item \in Item,
         Materialized(d, e, o, s, item)
  PROVE  /\ \A t : t # s => SnapshotsOf(e, t) = SnapshotsOf(d, t)
         /\ Cardinality(SnapshotsOf(e, s)) = Cardinality(SnapshotsOf(d, s)) + 1
         /\ Cardinality(SnapshotsOf(d, s)) \in Nat
<1>1. /\ DOMAIN e.snapshots = DOMAIN d.snapshots \cup {o.snapshot}
      /\ o.snapshot \notin DOMAIN d.snapshots
      /\ \A i \in DOMAIN d.snapshots : e.snapshots[i] = d.snapshots[i] /\ o.snapshot > i
      /\ e.snapshots[o.snapshot].item = item /\ e.snapshots[o.snapshot].session = s
  BY SnapshotsAreKept
<1>2. IsFiniteSet(SnapshotsOf(d, s))
  <2>1. DOMAIN d.snapshots = 1 .. Len(d.snapshots) /\ Len(d.snapshots) \in Nat
    BY TablesFields
  <2>2. PICK m \in Nat : m = Len(d.snapshots)
    BY <2>1
  <2>3. IsFiniteSet(DOMAIN d.snapshots)
    BY <2>1, <2>2, FS_Interval
  <2> QED BY <2>3, FS_Subset DEF SnapshotsOf
<1>3. SnapshotsOf(e, s) = SnapshotsOf(d, s) \cup {o.snapshot} /\ o.snapshot \notin SnapshotsOf(d, s)
  BY <1>1 DEF SnapshotsOf
<1>4. \A t : t # s => SnapshotsOf(e, t) = SnapshotsOf(d, t)
  BY <1>1 DEF SnapshotsOf
<1>5. Cardinality(SnapshotsOf(d, s)) \in Nat
  BY <1>2, FS_CardinalityType
<1>6. Cardinality(SnapshotsOf(d, s) \cup {o.snapshot}) = Cardinality(SnapshotsOf(d, s)) + 1
  BY <1>2, <1>3, FS_AddElement
<1> QED BY <1>3, <1>4, <1>5, <1>6

\* Nothing is written before the first commit.
LEMMA InitAccounts == Init => LInv
<1> SUFFICES ASSUME Init PROVE LInv
  OBVIOUS
<1>1. Idle
  BY NoTxType DEF Init, Idle
<1>2. \A s \in Sessions : session[s].status = "absent"
  BY DEF Init, Absent
<1>3. Outcomes = {}
  BY <1>2 DEF Outcomes, Committed
<1>4. db.sources = <<>> /\ db.snapshots = <<>>
  BY DEF Init, NoTables
<1>5. Accounts(db, Outcomes)
  BY <1>3, <1>4 DEF Accounts, LatestIsNewest
<1>6. \A s \in Sessions : SnapshotsOf(db, s) = {}
  BY <1>4 DEF SnapshotsOf
<1> QED BY <1>1, <1>2, <1>5, <1>6, FS_EmptySet DEF LInv, Counts

\* A step that changes no committed session, and neither the tables nor the
\* commit in progress.
LEMMA SessionStepAccounts ==
  ASSUME IInv, LInv, Idle, UNCHANGED <<db, tx>>,
         \A s \in Sessions : IF session[s].status = "committed" THEN session'[s] = session[s]
                             ELSE session'[s].status # "committed"
  PROVE  LInv'
<1>1. Idle'
  BY DEF Idle
<1>2. Outcomes' = Outcomes
  BY DEF Outcomes, Committed
<1>3. Counts'
  BY <1>1 DEF LInv, Counts, SnapshotsOf
<1> QED BY <1>1, <1>2, <1>3 DEF LInv

\* Every step keeps the accounts.
LEMMA StepAccounts == IInv /\ LInv /\ [Next]_vars => LInv'
<1> SUFFICES ASSUME IInv, LInv, [Next]_vars PROVE LInv'
  OBVIOUS
<1> USE DEF SessionRow
<1>t. /\ session \in [Sessions -> SessionRow]
      /\ db \in Tables /\ tx \in TxRow
  BY DEF IInv, TypeOK, TxRow
<1>i. /\ TablesInv(db) /\ TablesInv(tx.work)
      /\ ~ Idle => session[tx.session].status = "preview" /\ tx.request \in Requests
  BY DEF IInv
<1>l. /\ Accounts(db, Outcomes)
      /\ ~ Idle => Accounts(tx.work, Outcomes \cup InProgress)
      /\ Counts
  BY DEF LInv
<1>b. ~ Idle => tx.session \in Sessions
  BY <1>t DEF Idle, TxRow
<1>1. ASSUME NEW s \in Sessions,
             CreateSession(s) \/ (\E item \in Captures : AddItem(s, item)) \/ CancelSession(s) \/ TimePasses(s)
      PROVE  LInv'
  <2>1. /\ Idle /\ UNCHANGED <<db, tx>>
        /\ session[s].status # "committed" /\ session'[s].status # "committed"
        /\ \A t \in Sessions : t # s => session'[t] = session[t]
    BY <1>1, <1>t DEF CreateSession, AddItem, CancelSession, TimePasses, Draftable, Absent
  <2> QED BY <2>1, SessionStepAccounts
<1>2. ASSUME NEW s \in Sessions,
             RefuseExpired(s) \/ (\E request \in Requests : ReplayCommit(s, request))
      PROVE  LInv'
  <2>1. Idle /\ UNCHANGED <<session, db, tx>>
    BY <1>2 DEF RefuseExpired, ReplayCommit
  <2> QED BY <2>1 DEF LInv, Idle, Counts, SnapshotsOf, Outcomes, Committed, InProgress
<1>3. ASSUME NEW s \in Sessions, NEW request \in Requests, BeginCommit(s, request) PROVE LInv'
  <2>1. /\ UNCHANGED <<session, db>> /\ Idle
        /\ tx'.session = s /\ tx'.request = request /\ tx'.todo = request.confirmed
        /\ tx'.outcomes = <<>> /\ tx'.work = db
        /\ session[s].status = "preview"
    BY <1>3 DEF BeginCommit, Draftable
  <2>2. Outcomes' = Outcomes /\ InProgress' = {}
    BY <2>1 DEF Outcomes, Committed, InProgress
  <2>3. Accounts(tx.work, Outcomes \cup InProgress)'
    BY <1>l, <2>1, <2>2
  <2>4. Accounts(db, Outcomes)'
    BY <1>l, <2>1, <2>2
  <2>5. Len(request.confirmed) \in Nat
    BY RequestAssumption
  <2>6. Counts'
    BY <1>l, <2>1, <2>5 DEF Counts, SnapshotsOf
  <2> QED BY <2>3, <2>4, <2>6 DEF LInv
<1>4. ASSUME CommitItem PROVE LInv'
  <2> DEFINE item == tx.items[Head(tx.todo)]
             done == MaterializeItem(tx.work, tx.session, item)
  <2>1. /\ ~ Idle /\ tx.todo # <<>> /\ Head(tx.todo) \in DOMAIN tx.items
        /\ tx' = [tx EXCEPT !.todo = Tail(@), !.work = done.tables,
                            !.outcomes = Append(@, done.outcome)]
        /\ UNCHANGED <<session, db>>
    BY <1>4 DEF CommitItem
  <2>2. /\ tx.work \in Tables /\ tx.session \in Sessions /\ item \in Item
        /\ tx.outcomes \in Seq(Outcome) /\ tx.todo \in Seq(Nat)
    BY <1>t, <1>b, <2>1 DEF TxRow
  <2>3. /\ done.tables \in Tables /\ TablesInv(done.tables) /\ done.outcome \in Outcome
        /\ Materialized(tx.work, done.tables, done.outcome, tx.session, item)
    <3> HIDE DEF item
    <3> QED BY <1>i, <2>2, MaterializeItemSound, MaterializeItemKeeps
  <2> HIDE DEF item, done
  <2>4. /\ tx'.session = tx.session /\ tx'.request = tx.request /\ tx'.work = done.tables
        /\ tx'.outcomes = Append(tx.outcomes, done.outcome) /\ tx'.todo = Tail(tx.todo)
    BY <1>t, <2>1 DEF TxRow
  <2>5. ~ Idle'
    BY <2>1, <2>4 DEF Idle
  <2>6. PICK n : n = done.outcome
    OBVIOUS
  <2>7. InProgress' = InProgress \cup {n}
    <3>1. /\ DOMAIN tx.outcomes = 1 .. Len(tx.outcomes)
          /\ Len(tx.outcomes) \in Nat
          /\ DOMAIN Append(tx.outcomes, n) = 1 .. Len(tx.outcomes) + 1
          /\ \A i \in 1 .. Len(tx.outcomes) : Append(tx.outcomes, n)[i] = tx.outcomes[i]
          /\ Append(tx.outcomes, n)[Len(tx.outcomes) + 1] = n
      BY <2>2, <2>3, <2>6, AppendProperties
    <3> QED BY <2>4, <2>6, <3>1 DEF InProgress
  <2>8. Outcomes' = Outcomes
    BY <2>1 DEF Outcomes, Committed
  <2>9. PICK e : e = done.tables
    OBVIOUS
  <2>10. Accounts(e, (Outcomes \cup InProgress) \cup {n})
    BY <1>i, <1>l, <2>1, <2>2, <2>3, <2>6, <2>9, AccountsKept
  <2>11. Accounts(tx.work, Outcomes \cup InProgress)'
    <3>1. (Outcomes \cup InProgress)' = (Outcomes \cup InProgress) \cup {n}
      BY <2>7, <2>8
    <3> QED BY <2>4, <2>9, <2>10, <3>1
  <2>12. /\ \A t : t # tx.session => SnapshotsOf(e, t) = SnapshotsOf(tx.work, t)
         /\ Cardinality(SnapshotsOf(e, tx.session)) = Cardinality(SnapshotsOf(tx.work, tx.session)) + 1
         /\ Cardinality(SnapshotsOf(tx.work, tx.session)) \in Nat
    BY <2>2, <2>3, <2>9, SnapshotsCounted
  <2>13. Len(Tail(tx.todo)) = Len(tx.todo) - 1 /\ Len(tx.todo) \in Nat
    BY <2>1, <2>2
  <2>14. Counts'
    <3>1. \A s \in Sessions : Cardinality(SnapshotsOf(db, s))' = Cardinality(SnapshotsOf(db, s))
      BY <2>1 DEF SnapshotsOf
    <3>2. tx.work' = e
      BY <2>4, <2>9
    <3>3. \A t : SnapshotsOf(tx.work, t)' = SnapshotsOf(e, t)
      BY <3>2 DEF SnapshotsOf
    <3>4. \A s \in Sessions \ {tx.session} : SnapshotsOf(tx.work, s)' = SnapshotsOf(db, s)'
      BY <1>l, <2>1, <2>12, <3>3 DEF Counts, SnapshotsOf
    <3>5. Cardinality(SnapshotsOf(e, tx.session)) + Len(Tail(tx.todo)) = Len(tx.request.confirmed)
      BY <1>l, <2>1, <2>12, <2>13 DEF Counts
    <3>6. SnapshotsOf(tx.work, tx.session)' = SnapshotsOf(e, tx.session)
      BY <2>4, <3>2 DEF SnapshotsOf
    <3> QED BY <1>l, <2>1, <2>4, <3>1, <3>4, <3>5, <3>6 DEF Counts
  <2> QED BY <1>l, <2>1, <2>8, <2>11, <2>14 DEF LInv
<1>5. ASSUME UnknownIndex \/ Fault PROVE LInv'
  <2>1. tx' = NoTx /\ UNCHANGED <<session, db>>
    BY <1>5 DEF UnknownIndex, Fault, Rollback
  <2>2. Idle'
    BY <2>1, NoTxType DEF Idle
  <2>3. Outcomes' = Outcomes
    BY <2>1 DEF Outcomes, Committed
  <2>4. Counts'
    BY <1>l, <2>1, <2>2 DEF Counts, SnapshotsOf
  <2> QED BY <1>l, <2>1, <2>2, <2>3, <2>4 DEF LInv
<1>6. ASSUME FinishCommit PROVE LInv'
  <2> DEFINE row == [session[tx.session] EXCEPT !.status = "committed", !.items = tx.items,
                                                !.request = tx.request, !.outcomes = tx.outcomes]
  <2>1. /\ ~ Idle /\ tx.todo = <<>>
        /\ db' = tx.work
        /\ session' = [session EXCEPT ![tx.session] = row]
        /\ tx' = NoTx
    BY <1>6 DEF FinishCommit
  <2>2. tx.session \in Sessions /\ session[tx.session].status = "preview"
    BY <1>b, <1>i, <2>1
  <2>3. row.status = "committed" /\ row.request = tx.request /\ row.outcomes = tx.outcomes
    BY <1>t, <2>2
  <2>4. session'[tx.session] = row /\ \A t \in Sessions : t # tx.session => session'[t] = session[t]
    BY <1>t, <2>1, <2>2
  <2> HIDE DEF row
  <2>5. Idle'
    BY <2>1, NoTxType DEF Idle
  <2>6. Committed' = Committed \cup {tx.session} /\ tx.session \notin Committed
    BY <2>2, <2>3, <2>4 DEF Committed
  <2>7. Outcomes' = Outcomes \cup InProgress
    <3>1. \A o : o \in Outcomes' <=> \E t \in Committed' : \E k \in DOMAIN session'[t].outcomes : o = session'[t].outcomes[k]
      BY DEF Outcomes
    <3>2. \A o : o \in Outcomes <=> \E t \in Committed : \E k \in DOMAIN session[t].outcomes : o = session[t].outcomes[k]
      BY DEF Outcomes
    <3>3. \A o : o \in InProgress <=> \E k \in DOMAIN tx.outcomes : o = tx.outcomes[k]
      BY DEF InProgress
    <3>4. \A t \in Committed : t \in Sessions /\ t # tx.session /\ session'[t] = session[t]
      BY <2>2, <2>4 DEF Committed
    <3>5. \A o : o \in Outcomes' <=> o \in Outcomes \cup InProgress
      BY <2>3, <2>4, <2>6, <3>1, <3>2, <3>3, <3>4
    <3> QED BY <3>5
  <2>8. Accounts(db, Outcomes)'
    BY <1>l, <2>1, <2>7
  <2>9. Counts'
    <3>1. \A t : SnapshotsOf(db, t)' = SnapshotsOf(tx.work, t)
      BY <2>1 DEF SnapshotsOf
    <3>2. ASSUME NEW s \in Sessions
          PROVE  Cardinality(SnapshotsOf(tx.work, s)) =
                   IF session'[s].status = "committed" THEN Len(session'[s].request.confirmed) ELSE 0
      <4>1. CASE s = tx.session
        <5>1. Cardinality(SnapshotsOf(tx.work, s)) + Len(tx.todo) = Len(tx.request.confirmed)
          BY <1>l, <2>1, <4>1 DEF Counts
        <5>2. Len(tx.todo) = 0 /\ Cardinality(SnapshotsOf(tx.work, s)) \in Nat
          <6>1. DOMAIN tx.work.snapshots = 1 .. Len(tx.work.snapshots) /\ Len(tx.work.snapshots) \in Nat
            BY <1>t, TablesFields DEF TxRow
          <6>2. PICK m \in Nat : m = Len(tx.work.snapshots)
            BY <6>1
          <6>3. IsFiniteSet(DOMAIN tx.work.snapshots)
            BY <6>1, <6>2, FS_Interval
          <6>4. IsFiniteSet(SnapshotsOf(tx.work, s))
            BY <6>3, FS_Subset DEF SnapshotsOf
          <6> QED BY <2>1, <6>4, FS_CardinalityType
        <5> QED BY <2>3, <2>4, <4>1, <5>1, <5>2
      <4>2. CASE s # tx.session
        BY <1>l, <2>1, <2>4, <4>2 DEF Counts
      <4> QED BY <4>1, <4>2
    <3> QED BY <2>5, <3>1, <3>2 DEF Counts
  <2> QED BY <2>5, <2>8, <2>9 DEF LInv
<1>7. CASE UNCHANGED vars
  BY <1>7 DEF vars, LInv, Idle, Counts, SnapshotsOf, Outcomes, Committed, InProgress
<1> QED BY <1>1, <1>2, <1>3, <1>4, <1>5, <1>6, <1>7 DEF Next

\* The accounts are right in every reachable state.
THEOREM AccountsHold == Spec => []LInv
<1>1. Init => LInv
  BY InitAccounts
<1>2. IInv /\ LInv /\ [Next]_vars => LInv'
  BY StepAccounts
<1> QED BY <1>1, <1>2, InductiveInvariant, PTL DEF Spec

-----------------------------------------------------------------------------
(* What the accounts say.                                                   *)

\* A candidate with a version has a first one.
LEMMA FirstVersionExists ==
  ASSUME NEW d \in Tables, NumberedFromOne(d), NEW c, VersionsOf(d, c) # {}
  PROVE  \E v \in VersionsOf(d, c) : d.versions[v].no = 1
<1> DEFINE R == OpToRel(<, Nat)
           T == {d.versions[v].no : v \in VersionsOf(d, c)}
<1>1. Len(d.versions) \in Nat
  BY TablesFields
<1>2. \A v \in VersionsOf(d, c) : d.versions[v].no \in Nat
  BY <1>1 DEF NumberedFromOne, VersionsOf
<1>3. T \subseteq Nat /\ T # {}
  BY <1>2
<1>4. PICK n \in T : \A m \in T : ~ (<<m, n>> \in R)
  <2> HIDE DEF T
  <2> QED BY <1>3, NatLessThanWellFounded, WFMin
<1>5. PICK v \in VersionsOf(d, c) : n = d.versions[v].no
  BY <1>4
<1>6. CASE n # 1
  <2>1. PICK w \in VersionsOf(d, c) : d.versions[v].no = d.versions[w].no + 1
    BY <1>5, <1>6 DEF NumberedFromOne, VersionsOf
  <2>2. d.versions[w].no \in T /\ d.versions[w].no \in Nat /\ n \in Nat
    BY <1>2, <1>5
  <2>3. d.versions[w].no < n
    BY <1>5, <2>1, <2>2
  <2> QED BY <1>4, <2>2, <2>3 DEF OpToRel
<1> QED BY <1>5, <1>6

\* An item the client is told may be analysed names a version with the facts
\* of its snapshot.
THEOREM EligibleNamesItsFactsHolds == Spec => []EligibleNamesItsFacts
<1>1. LInv => EligibleNamesItsFacts
  BY DEF LInv, Accounts, NamesItsFacts, VersionsOf, EligibleNamesItsFacts
<1> QED BY <1>1, AccountsHold, PTL

\* Whatever other source has the URL that alone identified a capture, it came
\* later than the capture.
THEOREM TierTwoIsUniqueHolds == Spec => []TierTwoIsUnique
<1>1. IInv /\ LInv => TierTwoIsUnique
  <2> SUFFICES ASSUME IInv, LInv, NEW o \in Outcomes,
                      o.decision \notin {"new_identity", "identity_conflict"},
                      ~ HasProviderKey(db.snapshots[o.snapshot].item),
                      NEW j \in DOMAIN db.sources \ {o.source},
                      db.sources[j].provider = db.snapshots[o.snapshot].item.provider,
                      db.sources[j].url = db.snapshots[o.snapshot].item.url
               PROVE  db.versions[CHOOSE v \in VersionsOf(db, CandidateOf(db, j)) :
                              db.versions[v].no = 1].snapshot > o.snapshot
    BY DEF TierTwoIsUnique
  <2>1. db \in Tables /\ TablesInv(db)
    BY DEF IInv, TypeOK
  <2>2. PICK c : c = CandidateOf(db, j)
    OBVIOUS
  <2>3. c \in DOMAIN db.candidates /\ db.candidates[c].source = j
    <3>1. PICK b \in DOMAIN db.candidates : ByPrimarySource(db, j) = {b}
      BY <2>1 DEF TablesInv, OneCandidatePerSourceIn
    <3> QED BY <2>2, <3>1 DEF CandidateOf, ByPrimarySource
  <2>4. VersionsOf(db, c) # {}
    BY <2>1, <2>3 DEF TablesInv, VersionHistoryIn, ActiveIsOwn
  <2>5. \E v \in VersionsOf(db, c) : db.versions[v].no = 1
    BY <2>1, <2>4, FirstVersionExists DEF TablesInv, VersionHistoryIn
  <2>6. PICK w : w = CHOOSE v \in VersionsOf(db, c) : db.versions[v].no = 1
    OBVIOUS
  <2>7. w \in VersionsOf(db, c)
    BY <2>5, <2>6
  <2>8. w \in DOMAIN db.versions /\ SourceOfVersion(db, w) = j
    BY <2>3, <2>7 DEF VersionsOf, SourceOfVersion
  <2>9. OthersAreLater(db, o) /\ ByUrlAlone(db, o)
    BY DEF LInv, Accounts, ByUrlAlone
  <2>10. db.versions[w].snapshot > o.snapshot
    BY <2>8, <2>9 DEF OthersAreLater, Matches
  <2> QED BY <2>2, <2>6, <2>10
<1> QED BY <1>1, AccountsHold, InductiveInvariant, PTL

\* A committed session has one snapshot for each index it confirmed, any other
\* none, and a source record's latest snapshot is the newest attributed to it.
THEOREM SnapshotsMatchCommitHolds == Spec => []SnapshotsMatchCommit
<1>1. IInv /\ LInv => SnapshotsMatchCommit
  <2> SUFFICES ASSUME IInv, LInv PROVE SnapshotsMatchCommit
    OBVIOUS
  <2>1. \A s \in Sessions :
          Cardinality({i \in DOMAIN db.snapshots : db.snapshots[i].session = s})
            = IF s \in Committed THEN Len(session[s].request.confirmed) ELSE 0
    BY DEF LInv, Counts, SnapshotsOf, Committed
  <2>2. ASSUME NEW i \in DOMAIN db.sources
        PROVE  LET own == {o.snapshot : o \in {x \in Outcomes : x.source = i}}
               IN  own # {} /\ db.sources[i].latest = Max(own)
    <3> DEFINE own == {o.snapshot : o \in {x \in Outcomes : x.source = i}}
    <3>1. PICK o \in Outcomes : o.source = i /\ o.snapshot = db.sources[i].latest
      BY DEF LInv, Accounts, LatestIsNewest
    <3>2. \A x \in Outcomes : x.source = i => db.sources[i].latest >= x.snapshot
      BY DEF LInv, Accounts, LatestIsNewest
    <3>3. DOMAIN db.snapshots = 1 .. Len(db.snapshots) /\ Len(db.snapshots) \in Nat
      BY TablesFields DEF IInv, TypeOK
    <3>4. \A x \in Outcomes : x.snapshot \in 0 .. Len(db.snapshots)
      BY <3>3 DEF LInv, Accounts, NamesItsFacts
    <3>5. own \subseteq 0 .. Len(db.snapshots) /\ db.sources[i].latest \in own
      BY <3>1, <3>4
    <3>6. \A y \in own : db.sources[i].latest >= y
      BY <3>2
    <3> HIDE DEF own
    <3>7. Max(own) \in own /\ \A y \in own : Max(own) >= y
      BY <3>3, <3>5, MaxIsLargest
    <3>8. PICK m, n : m = Max(own) /\ n = db.sources[i].latest
      OBVIOUS
    <3>9. m \in Nat /\ n \in Nat
      <4>1. PICK K \in Nat : K = Len(db.snapshots)
        BY <3>3
      <4>2. m \in 0 .. K /\ n \in 0 .. K
        BY <3>5, <3>7, <3>8, <4>1
      <4> QED BY <4>1, <4>2
    <3>10. m >= n /\ n >= m
      BY <3>5, <3>6, <3>7, <3>8
    <3>11. db.sources[i].latest = Max(own)
      BY <3>8, <3>9, <3>10
    <3> QED BY <3>5, <3>11 DEF own
  <2> QED BY <2>1, <2>2 DEF SnapshotsMatchCommit
<1> QED BY <1>1, AccountsHold, InductiveInvariant, PTL

=============================================================================
