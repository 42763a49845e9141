---------------------------- MODULE MCAlgorithms ----------------------------
(* The algorithms without a state are checked against the way the code writes *)
(* them, over small inputs.                                                   *)
EXTENDS ProviderSelection, ReleaseSelection, GatewayBoot, EndpointRouting, SequencesExt

\* bindings.iter().filter(..).max_by_key(..): a later binding replaces the best
\* one so far unless it scores less.
MaxByKey(bindings, s, bonus) ==
  FoldLeft(LAMBDA best, i :
             IF ~Matches(bindings[i], s.required) THEN best
             ELSE IF best = 0 THEN i
             ELSE IF Score(bindings[i], s.preferred, bonus) < Score(bindings[best], s.preferred, bonus)
             THEN best ELSE i,
           0, [i \in DOMAIN bindings |-> i])

SmallBindings == UNION {[1..n -> Binding] : n \in 0..3}
SmallSelectors ==
  [mode : {"auto"}, id : {NoId}, required : SUBSET Capability,
   preferred : UNION {[1..n -> Capability] : n \in 0..2}]

ASSUME \A bindings \in SmallBindings, s \in SmallSelectors, bonus \in SUBSET Capability :
  Registered(bindings) => Choose(bindings, s, bonus) = MaxByKey(bindings, s, bonus)

\* A release that is put in front by insertion, as a stable sort does it.
InFront(manifest, candidates) ==
  FoldLeft(LAMBDA front, i :
             IF i \notin candidates THEN front
             ELSE IF front = 0 \/ Before(manifest.releases[front].version, manifest.releases[i].version)
             THEN i ELSE front,
           0, [i \in DOMAIN manifest.releases |-> i])

\* 1.9.0, 1.10.0, v1.10.0 and 1.11
SmallVersions == {[text |-> 3, semver |-> 1], [text |-> 1, semver |-> 2],
                  [text |-> 4, semver |-> 2], [text |-> 2, semver |-> 0]}
SmallReleases ==
  [version : SmallVersions, channel : {"stable", "none"},
   assets : {<<>>, <<[target |-> "linux", binary |-> "none"]>>}]
SmallManifests ==
  [schema : {"none"}, default : {"none", "beta"},
   releases : UNION {[1..n -> SmallReleases] : n \in 0..3}]

ASSUME \A m \in SmallManifests :
  LET candidates == Candidates(m, "stable", "linux")
  IN Ordered(m, candidates) =>
       Selected(m, "stable", "linux") = {InFront(m, candidates)}

\* The circle of three versions is a manifest somebody may publish.
ASSUME \E m \in SmallManifests : ~Ordered(m, Candidates(m, "stable", "linux"))

\* check-update and self-update agree: what is announced as an update is what
\* is installed without --force; an asset without a version never is.
SmallArgs ==
  [manifest : BOOLEAN, asset : BOOLEAN, sha256 : BOOLEAN, named : BOOLEAN,
   version : SmallVersions, channel : {"stable"}, target : {"linux"},
   envelope : [legacy : {TRUE}, version : SmallVersions]]

ASSUME \A args \in SmallArgs, current \in SmallVersions :
  /\ (\E v \in Planned(args) : Installs(current, v, FALSE)) <=>
       "update_available" \in Checked(args, current)
  /\ ~args.manifest /\ ~args.named =>
       \A v \in Planned(args) : ~Installs(current, v, FALSE) /\ Installs(current, v, TRUE)

\* The mock and the MeloTTS provider cannot be served by the same gateway.
ASSUME \A urls \in Value \X Value, kinds \in UNION {[1..n -> {"mock", "melo", "qwen3"}] : n \in 0..3} :
  LET args == [providers |-> kinds, mode |-> "disabled", id |-> 1, qwenId |-> 2, minimaxId |-> 3,
               meloUrl |-> urls[1], qwenUrl |-> urls[2]]
  IN {"mock", "melo"} \subseteq {kinds[i] : i \in DOMAIN kinds} => SelectTts(args) = Refused

\* An older agent is chosen for the directions its from_legacy device supports,
\* input included; every endpoint it is asked for is taken to be there, though
\* that device has one only.
Agents == {"a1", "a2"}
SmallInfos  == {NoDevice} \cup
  [id : DeviceId, endpoints : UNION {[1..n -> AudioEndpoint] : n \in 0..1}]
SmallAgents == [device : DeviceId \cup {NoDevice}, info : SmallInfos]
SmallRegistries == UNION {[here -> SmallAgents] : here \in SUBSET Agents}
Default == CHOOSE e \in EndpointId : TRUE
Upgraded(registry) ==
  [a \in DOMAIN registry |->
     IF Described(registry[a]) THEN registry[a] ELSE FromLegacy(registry[a], Default)]
Chosen(matches) == {m.agent : m \in matches \ {NoMatch}}

ASSUME \A registry \in SmallRegistries, d \in DeviceId :
  /\ \A dir \in Direction :
       Chosen(ByDirection(registry, registry, d, dir)) =
         Chosen(ByDirection(Upgraded(registry), Upgraded(registry), d, dir))
  /\ Chosen(ByEndpoint(Upgraded(registry), Upgraded(registry), d, Default)) \subseteq
       Chosen(ByEndpoint(registry, registry, d, Default))

\* With an agent gone between snapshot and lookup, another one that supports the
\* direction is chosen, but another one that has the endpoint may be missed.
ASSUME \A seen \in SmallRegistries, d \in DeviceId : \A gone \in SUBSET DOMAIN seen :
  LET now == [a \in DOMAIN seen \ gone |-> seen[a]]
  IN \A dir \in Direction :
       ByDirection(seen, now, d, dir) = ByDirection(now, now, d, dir)
ASSUME \E seen \in SmallRegistries, d \in DeviceId, gone \in Agents, e \in EndpointId :
  LET now == [a \in DOMAIN seen \ {gone} |-> seen[a]]
  IN NoMatch \in ByEndpoint(seen, now, d, e) /\ NoMatch \notin ByEndpoint(now, now, d, e)
=============================================================================
