-------------------------- MODULE EndpointRouting ---------------------------
(***************************************************************************)
(* Which agent serves an endpoint, or a direction, of a device.  An agent  *)
(* describes its device with endpoints, or (older ones) names it only.     *)
(* The choice is made from a snapshot, and the agent is looked up in the   *)
(* registry afterwards: `seen` and `now` are the registry at these two     *)
(* times, a function from the registered agents.                           *)
(***************************************************************************)
EXTENDS Naturals, Sequences

CONSTANTS
  DeviceId,
  EndpointId,
  NoDevice,  \* an agent that names no device, or describes none
  NoMatch    \* no agent can be chosen; no endpoint is known

ASSUME RoutingAssumption == NoDevice \notin DeviceId

Direction     == {"input", "output", "duplex"}
AudioEndpoint == [id : EndpointId, direction : Direction]

\* RegisteredAgent: `device` is the older field, `info` the newer one.
Described(agent) == agent.info # NoDevice
DeviceOf(agent)  == IF Described(agent) THEN agent.info.id ELSE agent.device
Endpoints(agent) == agent.info.endpoints

\* snapshot, with the device as its filter, in the order of a hash map.
Snapshot(registry, device) == {a \in DOMAIN registry : DeviceOf(registry[a]) = device}

\* Device::from_legacy: the device an older agent stands for.
FromLegacy(agent, default) ==
  [device |-> agent.device,
   info   |-> [id |-> agent.device, endpoints |-> <<[id |-> default, direction |-> "duplex"]>>]]

\* As supports_input and supports_output; only a duplex endpoint is duplex.
Supports(endpoint, direction) ==
  endpoint.direction = direction \/ (direction # "duplex" /\ endpoint.direction = "duplex")

-----------------------------------------------------------------------------
Has(agent, e) == \E i \in DOMAIN Endpoints(agent) : Endpoints(agent)[i].id = e

\* select_by_endpoint: the first that has the endpoint, or is too old to say.
\* If it is gone by the time it is looked up, no other one is tried.
ByEndpoint(seen, now, device, e) ==
  LET fits == {a \in Snapshot(seen, device) : Described(seen[a]) => Has(seen[a], e)}
  IN IF fits = {} THEN {NoMatch}
     ELSE {IF a \in DOMAIN now THEN [agent |-> a, endpoint |-> e] ELSE NoMatch : a \in fits}

Supporting(agent, direction) ==
  {i \in DOMAIN Endpoints(agent) : Supports(Endpoints(agent)[i], direction)}

\* The first endpoint that supports the direction.
EndpointFor(agent, direction) ==
  IF ~Described(agent) THEN NoMatch
  ELSE Endpoints(agent)[CHOOSE i \in Supporting(agent, direction) :
                          \A j \in Supporting(agent, direction) : i <= j].id

\* select_by_direction: an agent that is gone is passed over.
ByDirection(seen, now, device, direction) ==
  LET fits == {a \in Snapshot(seen, device) :
                 Described(seen[a]) => Supporting(seen[a], direction) # {}}
      left == fits \cap DOMAIN now
  IN IF left = {} THEN {NoMatch}
     ELSE {[agent |-> a, endpoint |-> EndpointFor(seen[a], direction)] : a \in left}
=============================================================================
