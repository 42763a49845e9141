---------------------------- MODULE BridgeProofs ----------------------------
(* Proofs about whoever serves a request: which bridge to a provider, which  *)
(* agent with a device, which release of the program, and the MiniMax        *)
(* WebSocket session of a bridge.                                            *)
EXTENDS ProviderSelection, EndpointRouting, ReleaseSelection, MinimaxWs,
        WellFoundedInduction, FiniteSetTheorems, TLAPS

-----------------------------------------------------------------------------
(* The least and the greatest element of a set of numbers, which stand for   *)
(* induction in the proofs about data of any size.                           *)

\* Every set of natural numbers that is not empty has a least element.
LEMMA LeastNumber ==
  ASSUME NEW T \in SUBSET Nat, T # {}
  PROVE  \E m \in T : \A n \in T : m <= n
<1> DEFINE R == OpToRel(<, Nat)
<1>1. IsWellFoundedOn(R, Nat)
  BY NatLessThanWellFounded
<1>2. \A x, y \in Nat : <<y, x>> \in R <=> y < x
  BY DEF OpToRel
<1> HIDE DEF R
<1>3. PICK m \in T : \A n \in T : <<n, m>> \notin R
  BY <1>1, WFMin
<1>4. ASSUME NEW n \in T PROVE m <= n
  <2>1. ~(n < m)
    BY <1>2, <1>3
  <2> QED BY <2>1
<1> QED BY <1>4

\* If it has a bound, it has a greatest element.
LEMMA GreatestNumber ==
  ASSUME NEW b \in Nat, NEW T \in SUBSET (0..b), T # {}
  PROVE  \E m \in T : \A n \in T : n <= m
<1> DEFINE U == {b - n : n \in T}
<1>1. U \in SUBSET Nat /\ U # {}
  <2>1. \A n \in T : b - n \in Nat
    OBVIOUS
  <2> QED BY <2>1
<1>2. PICK u \in U : \A n \in U : u <= n
  BY <1>1, LeastNumber
<1>3. PICK m \in T : u = b - m
  OBVIOUS
<1>4. ASSUME NEW n \in T PROVE n <= m
  <2>1. b - m <= b - n
    BY <1>2, <1>3
  <2> QED BY <2>1
<1> QED BY <1>4

-----------------------------------------------------------------------------
(* The choice of a provider: for any number of providers and capabilities,   *)
(* and any preferences.                                                      *)

\* A score counts at most every preference once, and the bonus.
LEMMA ScoreBounded ==
  ASSUME NEW binding \in Binding, NEW preferred \in Seq(Capability), NEW bonus
  PROVE  Score(binding, preferred, bonus) \in 0..(Len(preferred) + 1)
<1> DEFINE hits == Preferred(binding, preferred)
<1>1. Len(preferred) \in Nat /\ hits \subseteq 1..Len(preferred)
  BY DEF Preferred
<1>2. IsFiniteSet(1..Len(preferred)) /\ Cardinality(1..Len(preferred)) = Len(preferred)
  <2> DEFINE n == Len(preferred)
  <2>1. n \in Nat /\ 1 \in Int /\ n \in Int
    BY <1>1
  <2> HIDE DEF n
  <2>2. IsFiniteSet(1..n) /\ Cardinality(1..n) = IF 1 > n THEN 0 ELSE n - 1 + 1
    BY <2>1, FS_Interval
  <2>3. Cardinality(1..n) = n
    BY <2>1, <2>2
  <2> QED BY <2>2, <2>3 DEF n
<1>3. IsFiniteSet(hits) /\ Cardinality(hits) <= Len(preferred)
  BY <1>1, <1>2, FS_Subset
<1>4. Cardinality(hits) \in Nat
  BY <1>3, FS_CardinalityType
<1> HIDE DEF hits
<1>5. Cardinality(hits) + (IF bonus \cap binding.caps # {} THEN 1 ELSE 0) \in 0..(Len(preferred) + 1)
  BY <1>1, <1>3, <1>4
<1> QED BY <1>5 DEF Score, hits

\* Among candidates there is one that is better than all others: of the highest
\* score, and the last of these.
LEMMA BestExists ==
  ASSUME NEW bindings, Registered(bindings), NEW s \in Selector, NEW bonus,
         NEW candidates \in SUBSET DOMAIN bindings, candidates # {}
  PROVE  \E i \in candidates : \A j \in candidates : Better(bindings, s, bonus, i, j)
<1> DEFINE score(i) == Score(bindings[i], s.preferred, bonus)
<1>1. /\ s.preferred \in Seq(Capability)
      /\ Len(bindings) \in Nat /\ DOMAIN bindings = 1..Len(bindings)
      /\ \A i \in DOMAIN bindings : bindings[i] \in Binding
  BY DEF Registered, Selector
<1>2. Len(s.preferred) + 1 \in Nat
  BY <1>1
<1>3. \A i \in candidates : score(i) \in 0..(Len(s.preferred) + 1)
  BY <1>1, ScoreBounded
<1> HIDE DEF score
<1>4. PICK m \in {score(i) : i \in candidates} : \A n \in {score(i) : i \in candidates} : n <= m
  <2>1. {score(i) : i \in candidates} \in SUBSET (0..(Len(s.preferred) + 1))
    BY <1>3
  <2> QED BY <1>2, <2>1, GreatestNumber
<1>5. PICK i \in {k \in candidates : score(k) = m} : \A j \in {k \in candidates : score(k) = m} : j <= i
  <2>1. {k \in candidates : score(k) = m} \in SUBSET (0..Len(bindings))
    BY <1>1
  <2> QED BY <1>1, <1>4, <2>1, GreatestNumber
<1>6. ASSUME NEW j \in candidates PROVE score(j) < score(i) \/ (score(j) = score(i) /\ j <= i)
  <2>1. score(j) <= m /\ score(i) = m /\ score(j) \in Nat /\ m \in Nat
    BY <1>3, <1>4, <1>5
  <2>2. score(j) = m => j <= i
    BY <1>5
  <2> QED BY <2>1, <2>2
<1>7. ASSUME NEW j \in candidates PROVE Better(bindings, s, bonus, i, j)
  BY <1>6 DEF Better, score
<1> QED BY <1>5, <1>7

\* A request that names no provider is served whenever some provider has all
\* that it requires, and by one that has: none that would do scores higher, and
\* of those that score the same the last one serves (select_binding: filter,
\* max_by_key).
THEOREM BestIsChosen ==
  ASSUME NEW bindings, Registered(bindings), NEW s \in Selector, NEW bonus, ~Explicit(s)
  PROVE  LET i == Choose(bindings, s, bonus)
             candidates == Matching(bindings, s.required)
         IN /\ i = 0 <=> candidates = {}
            /\ i # 0 => /\ i \in candidates
                        /\ \A j \in candidates : Better(bindings, s, bonus, i, j)
<1> DEFINE candidates == Matching(bindings, s.required)
           i == Choose(bindings, s, bonus)
<1>1. candidates \in SUBSET DOMAIN bindings /\ 0 \notin DOMAIN bindings
  BY DEF Matching, Registered
<1>2. CASE candidates = {}
  BY <1>2 DEF Choose, ChooseBest
<1>3. CASE candidates # {}
  <2>1. i = CHOOSE k \in candidates : \A j \in candidates : Better(bindings, s, bonus, k, j)
    BY <1>3 DEF Choose, ChooseBest
  <2>2. \E k \in candidates : \A j \in candidates : Better(bindings, s, bonus, k, j)
    BY <1>1, <1>3, BestExists
  <2> HIDE DEF candidates, i
  <2>3. i \in candidates /\ \A j \in candidates : Better(bindings, s, bonus, i, j)
    BY <2>1, <2>2
  <2> QED BY <1>1, <1>3, <2>3 DEF candidates, i
<1> QED BY <1>2, <1>3

\* A request that names a provider is served by that provider and no other, and
\* only if it has all that the request requires; one that must name a provider
\* and does not is refused (select_binding: explicit selection).
THEOREM NamedIsChosen ==
  ASSUME NEW bindings, Registered(bindings), NEW s \in Selector, NEW bonus, Explicit(s)
  PROVE  LET i == Choose(bindings, s, bonus)
         IN /\ i # 0 => bindings[i].id = s.id /\ i \in Matching(bindings, s.required)
            /\ i = 0 => \A j \in Matching(bindings, s.required) : bindings[j].id # s.id
<1> DEFINE named == {i \in DOMAIN bindings : bindings[i].id = s.id}
           first == CHOOSE i \in named : \A j \in named : i <= j
<1>1. /\ DOMAIN bindings \in SUBSET Nat /\ 0 \notin DOMAIN bindings
      /\ \A i \in DOMAIN bindings : bindings[i].id \in Id
  <2>1. /\ Len(bindings) \in Nat /\ DOMAIN bindings = 1..Len(bindings)
        /\ \A i \in DOMAIN bindings : bindings[i] \in Binding
    BY DEF Registered
  <2> QED BY <2>1 DEF Binding
<1>2. CASE s.id = NoId
  BY <1>1, <1>2, SelectionAssumption DEF Choose, Matching
<1>3. CASE s.id # NoId /\ named = {}
  BY <1>3 DEF Choose, ChooseNamed, Matching
<1>4. CASE s.id # NoId /\ named # {}
  <2>1. first \in named
    BY <1>1, <1>4, LeastNumber
  <2>2. \A j \in named : j = first
    BY <2>1 DEF Registered
  <2>3. Choose(bindings, s, bonus) = IF Matches(bindings[first], s.required) THEN first ELSE 0
    BY <1>4 DEF Choose, ChooseNamed
  <2> HIDE DEF first
  <2> QED BY <1>1, <2>1, <2>2, <2>3 DEF Matching
<1> QED BY <1>2, <1>3, <1>4

-----------------------------------------------------------------------------
(* The agent that serves a direction of a device.                          *)

Agents(registry) ==
  \A a \in DOMAIN registry :
    Described(registry[a]) => Endpoints(registry[a]) \in Seq(AudioEndpoint)

\* The agents that select_by_direction may choose.
Serving(seen, now, device, direction) ==
  {a \in DOMAIN seen \cap DOMAIN now :
     /\ DeviceOf(seen[a]) = device
     /\ Described(seen[a]) => Supporting(seen[a], direction) # {}}

LEMMA DirectionChoices ==
  ASSUME NEW seen, NEW now, NEW device, NEW direction
  PROVE  LET serving == Serving(seen, now, device, direction)
         IN ByDirection(seen, now, device, direction) =
              IF serving = {} THEN {NoMatch}
              ELSE {[agent |-> a, endpoint |-> EndpointFor(seen[a], direction)] : a \in serving}
<1> DEFINE fits == {a \in Snapshot(seen, device) :
                      Described(seen[a]) => Supporting(seen[a], direction) # {}}
<1>1. fits \cap DOMAIN now = Serving(seen, now, device, direction)
  BY DEF Snapshot, Serving
<1> QED BY <1>1 DEF ByDirection

\* Whoever is asked for a direction is still registered, has the device, and names the
\* first of its endpoints that supports the direction, unless it is too old to have any;
\* and nobody is asked only if nobody of that kind is left (select_by_direction).
THEOREM DirectionIsSupported ==
  ASSUME NEW seen, Agents(seen), NEW now, NEW device, NEW direction,
         NEW m \in ByDirection(seen, now, device, direction)
  PROVE  \/ m = NoMatch /\ Serving(seen, now, device, direction) = {}
         \/ /\ m.agent \in Serving(seen, now, device, direction)
            /\ LET agent == seen[m.agent]
                   endpoints == Endpoints(agent)
               IN IF Described(agent)
                  THEN \E i \in DOMAIN endpoints :
                         /\ endpoints[i].id = m.endpoint /\ Supports(endpoints[i], direction)
                         /\ \A j \in DOMAIN endpoints : j < i => ~Supports(endpoints[j], direction)
                  ELSE m.endpoint = NoMatch
<1> DEFINE serving == Serving(seen, now, device, direction)
<1>1. CASE serving = {}
  <2>1. m = NoMatch
    BY <1>1, DirectionChoices
  <2> QED BY <1>1, <2>1
<1>2. CASE serving # {}
  <2>1. PICK a \in serving : m = [agent |-> a, endpoint |-> EndpointFor(seen[a], direction)]
    BY <1>2, DirectionChoices
  <2> DEFINE agent == seen[a]
             supporting == Supporting(agent, direction)
             first == CHOOSE i \in supporting : \A j \in supporting : i <= j
  <2>2. m.agent = a /\ m.endpoint = EndpointFor(agent, direction)
    BY <2>1
  <2>3. CASE ~Described(agent)
    <3>1. m.endpoint = NoMatch
      BY <2>2, <2>3 DEF EndpointFor
    <3> QED BY <2>2, <2>3, <3>1
  <2>4. CASE Described(agent)
    <3>1. DOMAIN Endpoints(agent) \subseteq Nat
      <4>1. Endpoints(agent) \in Seq(AudioEndpoint)
        BY <2>1, <2>4 DEF Agents, Serving
      <4> QED BY <4>1
    <3>2. supporting \in SUBSET Nat /\ supporting # {}
      BY <2>1, <2>4, <3>1 DEF Supporting, Serving
    <3> HIDE DEF supporting
    <3>3. first \in supporting /\ \A j \in supporting : first <= j
      BY <3>2, LeastNumber
    <3>4. m.endpoint = Endpoints(agent)[first].id
      BY <2>2, <2>4 DEF EndpointFor, supporting
    <3> HIDE DEF first
    <3>5. /\ first \in DOMAIN Endpoints(agent) /\ Supports(Endpoints(agent)[first], direction)
          /\ \A j \in DOMAIN Endpoints(agent) :
               j < first => ~Supports(Endpoints(agent)[j], direction)
      <4>1. \A j \in DOMAIN Endpoints(agent) : Supports(Endpoints(agent)[j], direction) <=> j \in supporting
        BY DEF supporting, Supporting
      <4>2. first \in DOMAIN Endpoints(agent) /\ first \in Nat
        BY <3>1, <3>3 DEF supporting, Supporting
      <4>3. \A j \in DOMAIN Endpoints(agent) : j \in supporting => ~(j < first)
        BY <3>1, <3>3, <4>2
      <4> QED BY <3>3, <4>1, <4>2, <4>3
    <3> QED BY <2>1, <2>2, <2>4, <3>4, <3>5
  <2> QED BY <2>3, <2>4
<1> QED BY <1>1, <1>2

\* An agent that goes away between the snapshot and the look-up is passed over: the choice
\* is that of a registry it was never in (the loop of select_by_direction goes on).
THEOREM GoneIsPassedOver ==
  ASSUME NEW seen, NEW gone \in SUBSET DOMAIN seen, NEW device, NEW direction
  PROVE  LET now == [a \in DOMAIN seen \ gone |-> seen[a]]
         IN ByDirection(seen, now, device, direction) = ByDirection(now, now, device, direction)
<1> DEFINE now == [a \in DOMAIN seen \ gone |-> seen[a]]
<1>1. \A a \in DOMAIN now : a \in DOMAIN seen /\ now[a] = seen[a]
  OBVIOUS
<1> HIDE DEF now
<1>2. Serving(seen, now, device, direction) = Serving(now, now, device, direction)
  BY <1>1 DEF Serving
<1>3. \A a \in Serving(now, now, device, direction) : now[a] = seen[a]
  BY <1>1 DEF Serving
<1>4. {[agent |-> a, endpoint |-> EndpointFor(seen[a], direction)] : a \in Serving(now, now, device, direction)} =
      {[agent |-> a, endpoint |-> EndpointFor(now[a], direction)] : a \in Serving(now, now, device, direction)}
  BY <1>3
<1>5. ByDirection(seen, now, device, direction) = ByDirection(now, now, device, direction)
  BY <1>2, <1>4, DirectionChoices
<1> QED BY <1>5 DEF now

-----------------------------------------------------------------------------
(* The release that is selected, from a manifest of any length.            *)

\* A manifest with any number of releases.
Published(manifest) ==
  \E n \in Nat : /\ DOMAIN manifest.releases = 1..n
                 /\ \A i \in 1..n : manifest.releases[i].version \in ReleaseVersion

\* No version comes before itself, and no two before each other.
LEMMA BeforeIsOneWay ==
  ASSUME NEW v \in ReleaseVersion, NEW w \in ReleaseVersion
  PROVE  ~Before(v, v) /\ (Before(v, w) => ~Before(w, v))
  BY DEF Before, ReleaseVersion, IsSemver

\* Of releases that are ordered at all, one is as new as every other.
LEMMA NewestExists ==
  ASSUME NEW manifest, NEW n \in Nat, NEW candidates \in SUBSET (1..n), candidates # {},
         \A i \in candidates : manifest.releases[i].version \in ReleaseVersion,
         Ordered(manifest, candidates)
  PROVE  \E i \in candidates : \A j \in candidates :
           ~Before(manifest.releases[i].version, manifest.releases[j].version)
<1> DEFINE v(i) == manifest.releases[i].version
           newest(i, m) == i \in 1..m /\ \A j \in candidates : j <= m => ~Before(v(i), v(j))
           lost == {m \in Nat : /\ \E i \in candidates : i <= m
                                /\ \A i \in candidates : ~newest(i, m)}
<1>1. \A i, j, k \in candidates : ~Before(v(i), v(j)) /\ ~Before(v(j), v(k)) => ~Before(v(i), v(k))
  BY DEF Ordered
<1>2. \A i, j \in candidates : ~Before(v(i), v(i)) /\ (Before(v(i), v(j)) => ~Before(v(j), v(i)))
  BY BeforeIsOneWay
<1> HIDE DEF v
<1>3. ASSUME lost # {} PROVE FALSE
  <2>1. PICK m \in lost : \A k \in lost : m <= k
    <3>1. lost \in SUBSET Nat
      OBVIOUS
    <3> HIDE DEF lost
    <3> QED BY <1>3, <3>1, LeastNumber
  <2>2. m \in Nat \ {0} /\ m - 1 \in Nat
    BY <2>1
  <2>3. CASE \A i \in candidates : ~(i <= m - 1)
    <3>1. PICK i \in candidates : i <= m
      BY <2>1
    <3>2. \A j \in candidates : j <= m => j = i
      BY <2>2, <2>3, <3>1
    <3>3. newest(i, m)
      BY <1>2, <2>2, <3>1, <3>2
    <3> QED BY <2>1, <3>3
  <2>4. CASE \E i \in candidates : i <= m - 1
    <3>1. PICK i \in candidates : newest(i, m - 1)
      <4>1. m - 1 \notin lost
        <5>1. ~(m <= m - 1)
          BY <2>2
        <5> HIDE DEF lost
        <5> QED BY <2>1, <5>1
      <4> QED BY <2>2, <2>4, <4>1
    <3>2. \A j \in candidates : j <= m => j <= m - 1 \/ j = m
      BY <2>2
    <3>3. CASE m \in candidates /\ Before(v(i), v(m))
      <4>1. ~Before(v(m), v(i)) /\ ~Before(v(m), v(m))
        BY <1>2, <3>1, <3>3
      <4>2. \A j \in candidates : j <= m - 1 => ~Before(v(m), v(j))
        BY <1>1, <3>1, <3>3, <4>1
      <4>3. newest(m, m)
        BY <2>2, <3>2, <4>1, <4>2
      <4> QED BY <2>1, <3>3, <4>3
    <3>4. CASE ~(m \in candidates /\ Before(v(i), v(m)))
      <4>1. newest(i, m)
        BY <2>2, <3>1, <3>2, <3>4
      <4> QED BY <2>1, <4>1
    <3> QED BY <3>3, <3>4
  <2> QED BY <2>3, <2>4
<1>4. n \notin lost
  BY <1>3
<1>5. \E i \in candidates : newest(i, n)
  BY <1>4
<1> QED BY <1>5 DEF v

\* Versions of one kind, semantic or not, are ordered; only a mixture need not be.
LEMMA OneKindIsOrdered ==
  ASSUME NEW manifest, NEW candidates,
         \A i \in candidates : manifest.releases[i].version \in ReleaseVersion,
         \A i, j \in candidates : IsSemver(manifest.releases[i].version) <=> IsSemver(manifest.releases[j].version)
  PROVE  Ordered(manifest, candidates)
<1> DEFINE v(i) == manifest.releases[i].version
<1> SUFFICES ASSUME NEW i \in candidates, NEW j \in candidates, NEW k \in candidates,
                    ~Before(v(i), v(j)), ~Before(v(j), v(k))
             PROVE  ~Before(v(i), v(k))
  BY DEF Ordered
<1>1. \A x \in candidates : v(x).semver \in Nat /\ v(x).text \in Nat
  BY DEF ReleaseVersion
<1> QED BY <1>1 DEF Before

\* The newest of the candidates, and of the newest ones the first.
FirstNewest(manifest, candidates, i) ==
  LET v(k) == manifest.releases[k].version
  IN /\ i \in candidates
     /\ \A j \in candidates : ~Before(v(i), v(j)) /\ (j < i => Before(v(j), v(i)))

\* In a manifest whose candidates are ordered, one release fits the channel and the target,
\* is as new as any that does, and is listed before the others that are as new.  That one is
\* selected; or the manifest is refused, for its schema, because nothing fits, or because
\* this very release's asset names another binary (select_manifest_release).
THEOREM NewestIsSelected ==
  ASSUME NEW manifest, Published(manifest), NEW channel, NEW target,
         Ordered(manifest, Candidates(manifest, channel, target))
  PROVE  LET candidates == Candidates(manifest, channel, target)
             selected == Selected(manifest, channel, target)
             named(i) == AssetOf(manifest.releases[i], target).binary \in {"none", "speechmesh"}
         IN IF manifest.schema \notin {"none", "v1"} \/ candidates = {} THEN selected = {0}
            ELSE \E i \in DOMAIN manifest.releases :
                   /\ FirstNewest(manifest, candidates, i)
                   /\ selected = IF named(i) THEN {i} ELSE {0}
<1> DEFINE candidates == Candidates(manifest, channel, target)
           v(i) == manifest.releases[i].version
           newest == {i \in candidates : \A j \in candidates : ~Before(v(i), v(j))}
<1>1. PICK n \in Nat : /\ DOMAIN manifest.releases = 1..n
                       /\ \A i \in 1..n : manifest.releases[i].version \in ReleaseVersion
  BY DEF Published
<1>2. candidates \in SUBSET (1..n)
  BY <1>1 DEF Candidates
<1>3. Ordered(manifest, candidates)
  OBVIOUS
<1> HIDE DEF candidates
<1>4. CASE manifest.schema \notin {"none", "v1"} \/ candidates = {}
  BY <1>4 DEF Selected, candidates
<1>5. CASE manifest.schema \in {"none", "v1"} /\ candidates # {}
  <2>1. newest # {} /\ newest \in SUBSET Nat
    <3>1. \A i \in candidates : manifest.releases[i].version \in ReleaseVersion
      BY <1>1, <1>2
    <3>2. \E i \in candidates : \A j \in candidates : ~Before(v(i), v(j))
      BY <1>2, <1>3, <1>5, <3>1, NewestExists
    <3>3. \A i \in candidates : i \in Nat
      BY <1>2
    <3> QED BY <3>2, <3>3
  <2>2. PICK i \in newest : \A j \in newest : i <= j
    <3> HIDE DEF newest
    <3> QED BY <2>1, LeastNumber
  <2>3. i \in candidates /\ i \in 1..n /\ i # 0
    BY <1>2, <2>2
  <2>4. ASSUME NEW j \in candidates, j < i PROVE Before(v(j), v(i))
    <3>1. j \notin newest
      <4>1. j \in Nat /\ i \in Nat
        BY <1>2, <2>3
      <4> HIDE DEF newest
      <4> QED BY <2>2, <2>4, <4>1
    <3>2. PICK k \in candidates : Before(v(j), v(k))
      BY <3>1
    <3>3. ~Before(v(i), v(k))
      BY <2>2
    <3> QED BY <1>3, <2>3, <3>2, <3>3 DEF Ordered
  <2>5. FirstNewest(manifest, candidates, i)
    BY <2>2, <2>3, <2>4 DEF FirstNewest
  <2>6. Fronts(manifest, candidates) = {i}
    <3>1. Fronts(manifest, candidates) = {x \in newest : \A y \in newest : x <= y}
      BY <1>3 DEF Fronts
    <3>2. \A x \in newest : (\A y \in newest : x <= y) => x = i
      <4> HIDE DEF newest
      <4> QED BY <2>1, <2>2
    <3> HIDE DEF newest
    <3> QED BY <2>2, <3>1, <3>2
  <2>7. Selected(manifest, channel, target) =
          {IF x = 0 \/ AssetOf(manifest.releases[x], target).binary \in {"none", "speechmesh"} THEN x ELSE 0 :
             x \in {i}}
    BY <1>5, <2>6 DEF Selected, candidates
  <2>8. Selected(manifest, channel, target) =
          IF AssetOf(manifest.releases[i], target).binary \in {"none", "speechmesh"} THEN {i} ELSE {0}
    BY <2>3, <2>7
  <2> QED BY <1>1, <1>5, <2>3, <2>5, <2>8 DEF candidates
<1> QED BY <1>4, <1>5

-----------------------------------------------------------------------------
(* The MiniMax WebSocket session.                                          *)

\* The strengthening of TextInOrder: text is kept back only between the
\* task_start that was sent and the task_started that was read.
TextInv ==
  mode = "streaming" =>
    /\ told \in Text /\ pending \in Text /\ appended \in Text
    /\ told \o pending = appended
    /\ started \/ ~taskStartSent => pending = <<>>

\* Concatenation of texts is associative.
LEMMA TextAssociative ==
  ASSUME NEW a \in Text, NEW b \in Text, NEW c \in Text
  PROVE  a \o (b \o c) = (a \o b) \o c
  BY SMTT(60) DEF Text

\* The new text of an append goes to the end of the provider's text.
LEMMA SendOrKeepAppends ==
  ASSUME NEW t \in Text,
         told \in Text, pending \in Text,
         started \/ ~taskStartSent => pending = <<>>,
         SendOrKeep(t), UNCHANGED started
  PROVE  /\ told' \in Text /\ pending' \in Text
         /\ told' \o pending' = (told \o pending) \o t
         /\ (started \/ ~taskStartSent => pending = <<>>)'
<1>1. CASE started
  <2>1. pending = <<>> /\ told' = told \o t /\ pending' = pending
    BY <1>1 DEF SendOrKeep
  <2>2. told \o pending = told /\ told' \o pending' = told'
    BY <2>1 DEF Text
  <2> QED BY <1>1, <2>1, <2>2 DEF Text
<1>2. CASE ~started /\ taskStartSent
  <2>1. told' = told /\ pending' = pending \o t /\ taskStartSent' = taskStartSent
    BY <1>2 DEF SendOrKeep
  <2>2. told \o (pending \o t) = (told \o pending) \o t
    BY TextAssociative
  <2> QED BY <1>2, <2>1, <2>2 DEF Text
<1>3. CASE ~started /\ ~taskStartSent
  <2>1. pending = <<>> /\ told' = told \o t /\ pending' = pending
    BY <1>3 DEF SendOrKeep
  <2>2. told \o pending = told /\ told' \o pending' = told'
    BY <2>1 DEF Text
  <2> QED BY <2>1, <2>2 DEF Text
<1> QED BY <1>1, <1>2, <1>3

\* Every step keeps the strengthened invariant.
LEMMA TextInvStep == TextInv /\ [TaskNext]_taskVars => TextInv'
<1> SUFFICES ASSUME TextInv, [TaskNext]_taskVars, mode' = "streaming"
             PROVE  TextInv'
  BY DEF TextInv
<1>m. mode = "streaming"
  BY DEF TaskNext, AppendInput, Commit, Stop, Fail, ReadEvent, Confirm, Finish, Speak, GiveUp,
         Say, client, taskVars
<1>0. /\ told \in Text /\ pending \in Text /\ appended \in Text
      /\ told \o pending = appended
      /\ started \/ ~taskStartSent => pending = <<>>
  BY <1>m DEF TextInv
<1>1. ASSUME NEW blank \in BOOLEAN, AppendInput(blank) PROVE TextInv'
  <2> DEFINE t == <<IF blank THEN 0 ELSE Len(appended) + 1>>
  <2>1. Len(appended) \in Nat
    BY <1>0 DEF Text
  <2>2. t \in Text
    BY <2>1 DEF Text
  <2>3. SendOrKeep(t) /\ appended' = appended \o t /\ started' = started
    BY <1>m, <1>1 DEF AppendInput
  <2> HIDE DEF t
  <2>4. /\ told' \in Text /\ pending' \in Text
        /\ told' \o pending' = (told \o pending) \o t
        /\ (started \/ ~taskStartSent => pending = <<>>)'
    BY <1>0, <2>2, <2>3, SendOrKeepAppends
  <2>5. appended' \in Text
    BY <1>0, <2>2, <2>3 DEF Text
  <2> QED BY <1>0, <2>3, <2>4, <2>5 DEF TextInv
<1>2. CASE Commit
  BY <1>m, <1>0, <1>2 DEF Commit, CommitBuffered, CommitStreaming, TextInv
<1>3. CASE ReadEvent
  <2>1. CASE OnTaskStarted
    <3>1. told' = told \o pending /\ pending' = <<>> /\ appended' = appended
      BY <1>3, <2>1 DEF ReadEvent, OnTaskStarted, client
    <3>2. told' \in Text /\ pending' \in Text /\ told' \o pending' = told'
      BY <1>0, <3>1 DEF Text
    <3> QED BY <1>0, <3>1, <3>2 DEF TextInv
  <2>2. CASE OnTaskFinished \/ OnAudio \/ OnTaskFailed \/ OnClosed
    <3>1. UNCHANGED <<mode, told, pending, appended, started, taskStartSent>>
      BY <1>3, <2>2 DEF ReadEvent, OnTaskFinished, OnAudio, OnTaskFailed, OnClosed, wire, client
    <3> QED BY <1>0, <3>1 DEF TextInv
  <2> QED BY <1>3, <2>1, <2>2 DEF ReadEvent
<1>4. CASE Stop \/ Fail
  BY <1>0, <1>4 DEF Stop, Fail, wire, client, TextInv
<1>5. CASE Confirm \/ Finish \/ Speak \/ GiveUp
  BY <1>0, <1>5 DEF Confirm, Finish, Speak, GiveUp, Say, wire, client, TextInv
<1>6. CASE UNCHANGED taskVars
  BY <1>0, <1>6 DEF taskVars, TextInv
<1> QED BY <1>1, <1>2, <1>3, <1>4, <1>5, <1>6 DEF TaskNext

\* With streaming input, whatever the order of the client's commands and of the
\* provider's confirmation, the provider hears the client's text once and in
\* order (run_minimax_ws_session: task_started, AppendInput).
THEOREM TextKept == TaskSpec => []TextInOrder
<1>1. TaskInit => TextInv
  BY DEF TaskInit, TextInv, Text
<1>2. TextInv => TextInOrder
  BY DEF TextInv, TextInOrder
<1> QED BY <1>1, <1>2, TextInvStep, PTL DEF TaskSpec

-----------------------------------------------------------------------------
(* Types.                                                                  *)

\* What is left of a text after str::trim is a text.
LEMMA TrimTyped ==
  ASSUME NEW t \in Text
  PROVE  Trim(t) \in Text
<1> DEFINE words == {i \in DOMAIN t : t[i] # 0}
<1>1. CASE words = {}
  BY <1>1 DEF Trim, Text
<1>2. CASE words # {}
  <2>1. Len(t) \in Nat /\ DOMAIN t = 1..Len(t)
    BY DEF Text
  <2>2. words \in SUBSET Nat /\ words \in SUBSET (0..Len(t))
    BY <2>1
  <2>3. (CHOOSE i \in words : \A j \in words : i <= j) \in words
    BY <1>2, <2>2, LeastNumber
  <2>4. (CHOOSE i \in words : \A j \in words : i >= j) \in words
    <3>1. \E i \in words : \A j \in words : j <= i
      BY <1>2, <2>1, <2>2, GreatestNumber
    <3>2. \E i \in words : \A j \in words : i >= j
      BY <2>2, <3>1
    <3> QED BY <3>2
  <2>5. \A i, j \in words : SubSeq(t, i, j) \in Text
    BY <2>1 DEF Text
  <2> QED BY <1>2, <2>3, <2>4, <2>5 DEF Trim
<1> QED BY <1>1, <1>2

\* A text and its start and finish frames.
LEMMA FramesTyped ==
  ASSUME NEW f \in Seq(Frame), NEW t \in Text
  PROVE  Append(f, StartFrame(t)) \in Seq(Frame) /\ Append(f, FinishFrame(t)) \in Seq(Frame)
  BY DEF Frame, StartFrame, FinishFrame

LEMMA ConcatTyped ==
  ASSUME NEW a \in Text, NEW b \in Text
  PROVE  a \o b \in Text
  BY DEF Text

LEMMA SendOrKeepTyped ==
  ASSUME TaskTypeOK, NEW t \in Text, SendOrKeep(t)
  PROVE  /\ told' \in Text /\ pending' \in Text
         /\ taskStartSent' \in BOOLEAN /\ frames' \in Seq(Frame)
<1>1. told \o t \in Text /\ pending \o t \in Text
  BY ConcatTyped DEF TaskTypeOK
<1>2. Append(frames, StartFrame(told \o t)) \in Seq(Frame)
  BY <1>1, FramesTyped DEF TaskTypeOK
<1> QED BY <1>1, <1>2 DEF SendOrKeep, TaskTypeOK

\* Every step keeps the types.
LEMMA SessionTypeStep == TaskTypeOK /\ [TaskNext]_taskVars => TaskTypeOK'
<1> SUFFICES ASSUME TaskTypeOK, [TaskNext]_taskVars PROVE TaskTypeOK'
  OBVIOUS
<1> USE MinimaxAssumption
<1>1. ASSUME NEW blank \in BOOLEAN, AppendInput(blank) PROVE TaskTypeOK'
  <2> DEFINE t == <<IF blank THEN 0 ELSE Len(appended) + 1>>
  <2>1. t \in Text
    <3>1. Len(appended) \in Nat
      BY DEF TaskTypeOK, Text
    <3> QED BY <3>1 DEF Text
  <2>2. /\ appended' = appended \o t
        /\ \/ buffered' = buffered \o t /\ UNCHANGED <<told, pending, taskStartSent, frames>>
           \/ SendOrKeep(t) /\ UNCHANGED buffered
        /\ UNCHANGED <<mode, started, committed, flushed, commits, provider, events, result>>
    BY <1>1 DEF AppendInput
  <2> HIDE DEF t
  <2>3. appended' \in Text /\ buffered \o t \in Text
    BY <2>1, <2>2, ConcatTyped DEF TaskTypeOK
  <2>4. /\ told' \in Text /\ pending' \in Text /\ buffered' \in Text
        /\ taskStartSent' \in BOOLEAN /\ frames' \in Seq(Frame)
    BY <2>1, <2>2, <2>3, SendOrKeepTyped DEF TaskTypeOK
  <2> QED BY <2>2, <2>3, <2>4 DEF TaskTypeOK
<1>2. CASE Commit
  <2>1. commits' \in 0..MaxCommits /\ committed' \in BOOLEAN
    BY <1>2 DEF Commit, TaskTypeOK
  <2>2. Trim(appended) \in Text /\ Trim(buffered) \in Text /\ appended \in Text
    BY TrimTyped DEF TaskTypeOK
  <2>3. flushed' \subseteq Text
    BY <1>2, <2>2 DEF Commit, TaskTypeOK
  <2>4. /\ told' \in Text /\ pending' \in Text /\ taskStartSent' \in BOOLEAN
        /\ frames' \in Seq(Frame) /\ result' \in {"run", "done", "stopped", "error"}
    <3>1. CASE CommitStreaming
      BY <3>1, FramesTyped DEF CommitStreaming, TaskTypeOK
    <3>2. CASE CommitBuffered
      <4> DEFINE t == Trim(buffered)
      <4>1. told \o t \in Text
        BY <2>2, ConcatTyped DEF TaskTypeOK
      <4>2. Append(frames, FinishFrame(told \o t)) \in Seq(Frame)
        BY <4>1, FramesTyped DEF TaskTypeOK
      <4>3. CASE SendOrKeep(t) /\ UNCHANGED result
        BY <2>2, <4>3, SendOrKeepTyped DEF TaskTypeOK
      <4>4. CASE ~(SendOrKeep(t) /\ UNCHANGED result)
        BY <3>2, <4>1, <4>2, <4>4 DEF CommitBuffered, TaskTypeOK
      <4> QED BY <4>3, <4>4
    <3> QED BY <1>2, <3>1, <3>2 DEF Commit
  <2> QED BY <1>2, <2>1, <2>3, <2>4 DEF Commit, TaskTypeOK
<1>3. CASE ReadEvent
  <2>1. events' \in Seq(Event)
    BY <1>3 DEF ReadEvent, TaskTypeOK
  <2>2. CASE OnTaskStarted
    <3>1. told' \in Text /\ pending' \in Text
      BY <2>2, ConcatTyped DEF OnTaskStarted, TaskTypeOK, Text
    <3>2. frames' \in Seq(Frame)
      BY <2>2, <3>1, FramesTyped DEF OnTaskStarted, TaskTypeOK
    <3> QED BY <1>3, <2>1, <2>2, <3>1, <3>2 DEF ReadEvent, OnTaskStarted, client, TaskTypeOK
  <2>3. CASE OnTaskFinished \/ OnAudio \/ OnTaskFailed \/ OnClosed
    BY <1>3, <2>1, <2>3
    DEF ReadEvent, OnTaskFinished, OnAudio, OnTaskFailed, OnClosed, wire, client, TaskTypeOK
  <2> QED BY <1>3, <2>2, <2>3 DEF ReadEvent
<1>4. CASE Stop \/ Fail
  BY <1>4 DEF Stop, Fail, wire, client, TaskTypeOK
<1>5. CASE Confirm \/ Finish \/ Speak \/ GiveUp
  <2>1. PICK e \in Event, p \in {"idle", "started", "finished"} : Say(e, p)
    BY <1>5 DEF Confirm, Finish, Speak, GiveUp, Event
  <2>2. events' \in Seq(Event)
    BY <2>1 DEF Say, TaskTypeOK
  <2> QED BY <2>1, <2>2 DEF Say, wire, client, TaskTypeOK
<1>6. CASE UNCHANGED taskVars
  BY <1>6 DEF taskVars, TaskTypeOK
<1> QED BY <1>1, <1>2, <1>3, <1>4, <1>5, <1>6 DEF TaskNext

LEMMA SessionTypeInit == TaskInit => TaskTypeOK
<1> SUFFICES ASSUME TaskInit PROVE TaskTypeOK
  OBVIOUS
<1>1. <<>> \in Text /\ <<>> \in Seq(Frame) /\ <<>> \in Seq(Event)
  BY DEF Text
<1>2. <<StartFrame(<<>>)>> \in Seq(Frame)
  BY <1>1 DEF StartFrame, Frame
<1>3. frames \in Seq(Frame)
  BY <1>1, <1>2 DEF TaskInit
<1>4. taskStartSent \in BOOLEAN
  BY DEF TaskInit
<1>5. commits \in 0..MaxCommits
  BY MinimaxAssumption DEF TaskInit
<1> QED BY <1>1, <1>3, <1>4, <1>5 DEF TaskInit, TaskTypeOK

\* The session's variables keep their types: str::trim of a buffer is a text,
\* an event is there when it is read.
THEOREM SessionTypes == TaskSpec => []TaskTypeOK
  BY SessionTypeInit, SessionTypeStep, PTL DEF TaskSpec

-----------------------------------------------------------------------------
(* A task_finish covers the text of the commit it answers.                 *)

\* s begins with t.
Begins(t, s) == Len(t) <= Len(s) /\ SubSeq(s, 1, Len(t)) = t

LEMMA BeginsConcat ==
  ASSUME NEW t \in Text, NEW s \in Text, NEW u \in Text, Begins(t, s)
  PROVE  Begins(t, s \o u)
<1>1. /\ Len(t) \in Nat /\ Len(s) \in Nat /\ Len(u) \in Nat
      /\ Len(s \o u) = Len(s) + Len(u)
  BY DEF Text
<1>2. SubSeq(s \o u, 1, Len(t)) = SubSeq(s, 1, Len(t))
  BY <1>1 DEF Begins, Text
<1> QED BY <1>1, <1>2 DEF Begins

LEMMA BeginsItself ==
  ASSUME NEW t \in Text
  PROVE  Begins(t, t) /\ Begins(t, t \o <<>>) /\ Begins(t, <<>> \o t)
  BY DEF Begins, Text

\* Before the first commit nothing is flushed or finished, and buffered input
\* has sent nothing; after it, what was flushed begins what was sent and kept.
CoverInv ==
  /\ ~committed => flushed = {} /\ \A i \in DOMAIN frames : frames[i].kind # "task_finish"
  /\ mode = "buffered" => /\ buffered = appended /\ taskStartSent
                          /\ ~committed => told = <<>> /\ pending = <<>>
  /\ started \/ ~taskStartSent => pending = <<>>
  /\ \A t \in flushed : Begins(t, told \o pending)
  /\ FinishCoversCommit

\* A start frame, or a finish frame behind all that is flushed, keeps the frames
\* covered.
LEMMA AppendCovered ==
  ASSUME NEW f \in Frame, frames \in Seq(Frame), frames' = Append(frames, f),
         \A i \in DOMAIN frames : frames[i].kind = "task_finish" =>
           \A t \in flushed' : Begins(t, frames[i].text),
         f.kind = "task_finish" => \A t \in flushed' : Begins(t, f.text)
  PROVE  FinishCoversCommit'
<1> SUFFICES ASSUME NEW i \in DOMAIN frames', frames'[i].kind = "task_finish", NEW t \in flushed'
             PROVE  Begins(t, frames'[i].text)
  BY DEF FinishCoversCommit, Begins
<1>1. CASE i \in DOMAIN frames
  <2>1. frames'[i] = frames[i]
    BY <1>1
  <2> QED BY <1>1, <2>1
<1>2. CASE i \notin DOMAIN frames
  <2>1. frames'[i] = f
    BY <1>2
  <2> QED BY <2>1
<1> QED BY <1>1, <1>2

\* The frames that are there stay covered when only the first commit changes
\* what is flushed.
LEMMA FramesStayCovered ==
  ASSUME CoverInv, committed => flushed' = flushed
  PROVE  \A i \in DOMAIN frames : frames[i].kind = "task_finish" =>
           \A t \in flushed' : Begins(t, frames[i].text)
<1>1. CASE committed
  BY <1>1 DEF CoverInv, FinishCoversCommit, Begins
<1>2. CASE ~committed
  BY <1>2 DEF CoverInv
<1> QED BY <1>1, <1>2

LEMMA AppendStep ==
  ASSUME TaskTypeOK, TextInv, CoverInv, NEW blank \in BOOLEAN, AppendInput(blank)
  PROVE  CoverInv'
<1> DEFINE t == <<IF blank THEN 0 ELSE Len(appended) + 1>>
<1>1. t \in Text
  <2>1. Len(appended) \in Nat
    BY DEF TaskTypeOK, Text
  <2> QED BY <2>1 DEF Text
<1>2. /\ appended' = appended \o t
      /\ UNCHANGED <<mode, started, committed, flushed>>
      /\ \/ /\ mode = "buffered" /\ buffered' = buffered \o t
            /\ UNCHANGED <<told, pending, taskStartSent, frames>>
         \/ mode = "streaming" /\ SendOrKeep(t) /\ UNCHANGED buffered
  BY DEF AppendInput
<1> HIDE DEF t
<1>3. CASE mode = "buffered"
  BY <1>2, <1>3 DEF CoverInv, FinishCoversCommit
<1>4. CASE mode = "streaming"
  <2>1. SendOrKeep(t)
    BY <1>2, <1>4
  <2>2. /\ told' \in Text /\ pending' \in Text
        /\ told' \o pending' = (told \o pending) \o t
        /\ (started \/ ~taskStartSent => pending = <<>>)'
    BY <1>1, <1>2, <2>1, SendOrKeepAppends DEF TaskTypeOK, CoverInv
  <2>3. \A u \in flushed' : Begins(u, told' \o pending')
    <3>1. told \o pending \in Text
      BY ConcatTyped DEF TaskTypeOK
    <3> QED BY <1>1, <1>2, <2>2, <3>1, BeginsConcat DEF CoverInv, TaskTypeOK
  <2>4. FinishCoversCommit' /\ (~committed => \A i \in DOMAIN frames' : frames'[i].kind # "task_finish")
    <3>1. CASE frames' = frames
      BY <1>2, <3>1 DEF CoverInv, FinishCoversCommit
    <3>2. CASE frames' = Append(frames, StartFrame(told'))
      <4>1. StartFrame(told') \in Frame /\ StartFrame(told').kind = "task_start"
        BY <2>2 DEF StartFrame, Frame
      <4>2. FinishCoversCommit'
        BY <1>2, <3>2, <4>1, AppendCovered, FramesStayCovered DEF TaskTypeOK
      <4>3. \A i \in DOMAIN frames' : (i \in DOMAIN frames /\ frames'[i] = frames[i]) \/ frames'[i] = StartFrame(told')
        BY <3>2, <4>1 DEF TaskTypeOK
      <4> QED BY <4>1, <4>2, <4>3 DEF CoverInv
    <3> QED BY <2>1, <3>1, <3>2 DEF SendOrKeep
  <2> QED BY <1>2, <1>4, <2>2, <2>3, <2>4 DEF CoverInv
<1> QED BY <1>3, <1>4 DEF TaskTypeOK

LEMMA CommitStep ==
  ASSUME TaskTypeOK, TextInv, CoverInv, Commit
  PROVE  CoverInv'
<1>1. /\ committed' = TRUE /\ UNCHANGED <<mode, started, buffered, appended>>
      /\ flushed' = IF committed THEN flushed
                    ELSE {IF mode = "buffered" THEN Trim(appended) ELSE appended}
  BY DEF Commit
<1>2. \A i \in DOMAIN frames : frames[i].kind = "task_finish" =>
        \A t \in flushed' : Begins(t, frames[i].text)
  BY <1>1, FramesStayCovered
<1>3. told \o pending \in Text /\ Trim(appended) \in Text
  BY ConcatTyped, TrimTyped DEF TaskTypeOK
<1>4. CASE CommitStreaming
  <2>1. UNCHANGED <<told, pending, taskStartSent>> /\ mode = "streaming"
    BY <1>4 DEF CommitStreaming
  <2>2. \A t \in flushed' : Begins(t, told \o pending)
    BY <1>1, <2>1, BeginsItself DEF CoverInv, TextInv
  <2>3. FinishCoversCommit'
    <3>1. CASE started
      <4>1. told \o pending = told
        BY <3>1 DEF CoverInv, TaskTypeOK, Text
      <4>2. FinishFrame(told) \in Frame /\ FinishFrame(told).text = told
        BY DEF FinishFrame, Frame, TaskTypeOK
      <4> QED BY <1>2, <1>4, <2>2, <3>1, <4>1, <4>2, AppendCovered DEF CommitStreaming, TaskTypeOK
    <3>2. CASE ~started
      BY <1>2, <1>4, <3>2 DEF CommitStreaming, FinishCoversCommit, Begins
    <3> QED BY <3>1, <3>2
  <2> QED BY <1>1, <2>1, <2>2, <2>3 DEF CoverInv
<1>5. CASE CommitBuffered
  <2> DEFINE t == Trim(buffered)
  <2>0. /\ t \in Text /\ t = Trim(appended) /\ taskStartSent /\ mode = "buffered"
        /\ ~committed => told = <<>> /\ pending = <<>>
    BY <1>3, <1>5 DEF CommitBuffered, CoverInv
  <2>1. ASSUME told' \in Text, pending' \in Text, told' \o pending' = (told \o pending) \o t
        PROVE  \A u \in flushed' : Begins(u, told' \o pending')
    <3>1. CASE committed
      BY <1>1, <1>3, <2>0, <2>1, <3>1, BeginsConcat DEF CoverInv, TaskTypeOK
    <3>2. CASE ~committed
      <4>1. (told \o pending) \o t = t
        BY <2>0, <3>2 DEF Text
      <4> QED BY <1>1, <2>0, <2>1, <3>2, <4>1, BeginsItself DEF Begins
    <3> QED BY <3>1, <3>2
  <2>2. CASE t = <<>> /\ UNCHANGED <<told, pending, taskStartSent, frames>>
    <3>1. told \o pending = (told \o pending) \o t
      BY <1>3, <2>2 DEF Text
    <3>2. \A u \in flushed' : Begins(u, told' \o pending')
      BY <2>1, <2>2, <3>1 DEF TaskTypeOK
    <3>3. FinishCoversCommit'
      BY <1>2, <2>2 DEF FinishCoversCommit, Begins
    <3> QED BY <1>1, <2>0, <2>2, <3>2, <3>3 DEF CoverInv
  <2>3. CASE started /\ told' = told \o t /\ frames' = Append(frames, FinishFrame(told')) /\ UNCHANGED <<pending, taskStartSent>>
    <3>1. pending = <<>> /\ told' \in Text
      BY <2>0, <2>3, ConcatTyped DEF CoverInv, TaskTypeOK
    <3>2. told' \o pending' = (told \o pending) \o t /\ told' \o pending' = told'
      BY <2>0, <2>3, <3>1 DEF TaskTypeOK, Text
    <3>3. \A u \in flushed' : Begins(u, told' \o pending')
      BY <2>1, <2>3, <3>1, <3>2 DEF TaskTypeOK
    <3>4. FinishFrame(told') \in Frame /\ FinishFrame(told').text = told'
      BY <3>1 DEF FinishFrame, Frame
    <3>5. FinishCoversCommit'
      BY <1>2, <2>3, <3>2, <3>3, <3>4, AppendCovered DEF TaskTypeOK
    <3> QED BY <1>1, <2>0, <2>3, <3>1, <3>3, <3>5 DEF CoverInv
  <2>4. CASE ~started /\ SendOrKeep(t)
    <3>1. told' = told /\ pending' = pending \o t /\ UNCHANGED <<taskStartSent, frames>>
      BY <2>0, <2>4 DEF SendOrKeep
    <3>2. /\ told' \in Text /\ pending' \in Text
          /\ told' \o pending' = (told \o pending) \o t
      <4>1. told \in Text /\ pending \in Text /\ t \in Text
        BY <2>0 DEF TaskTypeOK
      <4> HIDE DEF t
      <4>2. told \o (pending \o t) = (told \o pending) \o t /\ pending \o t \in Text
        BY <4>1, TextAssociative, ConcatTyped
      <4> QED BY <3>1, <4>1, <4>2
    <3>3. \A u \in flushed' : Begins(u, told' \o pending')
      BY <2>1, <3>2
    <3>4. FinishCoversCommit'
      BY <1>2, <3>1 DEF FinishCoversCommit, Begins
    <3> QED BY <1>1, <2>0, <2>4, <3>1, <3>3, <3>4 DEF CoverInv
  <2> QED BY <1>5, <2>2, <2>3, <2>4 DEF CommitBuffered
<1> QED BY <1>4, <1>5 DEF Commit

\* Every step keeps the finishes covered.
LEMMA CoverStep == TaskTypeOK /\ TextInv /\ CoverInv /\ [TaskNext]_taskVars => CoverInv'
<1> SUFFICES ASSUME TaskTypeOK, TextInv, CoverInv, [TaskNext]_taskVars PROVE CoverInv'
  OBVIOUS
<1>1. CASE ReadEvent
  <2>1. CASE OnTaskStarted
    <3>1. /\ told' = told \o pending /\ pending' = <<>> /\ UNCHANGED <<mode, appended, flushed, committed, taskStartSent, buffered>>
          /\ frames' = IF committed THEN Append(frames, FinishFrame(told')) ELSE frames
      BY <1>1, <2>1 DEF ReadEvent, OnTaskStarted, client
    <3>2. told' \in Text /\ told' \o pending' = told'
      BY <3>1, ConcatTyped DEF TaskTypeOK, Text
    <3>3. FinishFrame(told') \in Frame /\ FinishFrame(told').text = told'
      BY <3>2 DEF FinishFrame, Frame
    <3>4. FinishCoversCommit'
      <4>1. CASE committed
        BY <3>1, <3>3, <4>1, AppendCovered, FramesStayCovered DEF CoverInv, TaskTypeOK
      <4>2. CASE ~committed
        BY <3>1, <4>2 DEF CoverInv, FinishCoversCommit
      <4> QED BY <4>1, <4>2
    <3>5. ~committed /\ mode = "buffered" => told' = <<>>
      BY <3>1 DEF CoverInv
    <3> QED BY <3>1, <3>2, <3>4, <3>5 DEF CoverInv
  <2>2. CASE OnTaskFinished \/ OnAudio \/ OnTaskFailed \/ OnClosed
    BY <1>1, <2>2
    DEF ReadEvent, OnTaskFinished, OnAudio, OnTaskFailed, OnClosed, wire, client, CoverInv, FinishCoversCommit
  <2> QED BY <1>1, <2>1, <2>2 DEF ReadEvent
<1>2. CASE Stop \/ Fail \/ Confirm \/ Finish \/ Speak \/ GiveUp
  BY <1>2 DEF Stop, Fail, Confirm, Finish, Speak, GiveUp, Say, wire, client, CoverInv, FinishCoversCommit
<1>3. CASE UNCHANGED taskVars
  BY <1>3 DEF taskVars, CoverInv, FinishCoversCommit
<1> QED BY <1>1, <1>2, <1>3, AppendStep, CommitStep DEF TaskNext

\* Whatever was appended before the commit is with the provider when the
\* task_finish that answers it goes out, in both input modes and for any number
\* of appends and commits (run_minimax_ws_session: Commit, task_started).
THEOREM FinishCovers == TaskSpec => []FinishCoversCommit
<1>1. TaskInit => TaskTypeOK /\ TextInv /\ CoverInv
  <2> SUFFICES ASSUME TaskInit PROVE TextInv /\ CoverInv
    BY SessionTypeInit
  <2>1. TextInv
    BY DEF TaskInit, TextInv, Text
  <2>2. \A i \in DOMAIN frames : frames[i].kind # "task_finish"
    BY DEF TaskInit, StartFrame
  <2>3. flushed = {} /\ FinishCoversCommit
    BY <2>2 DEF TaskInit, FinishCoversCommit
  <2> QED BY <2>1, <2>2, <2>3 DEF TaskInit, CoverInv
<1>2. TaskTypeOK /\ TextInv /\ CoverInv /\ [TaskNext]_taskVars => (TaskTypeOK /\ TextInv /\ CoverInv)'
  BY SessionTypeStep, TextInvStep, CoverStep
<1>3. CoverInv => FinishCoversCommit
  BY DEF CoverInv
<1> QED BY <1>1, <1>2, <1>3, PTL DEF TaskSpec
=============================================================================
