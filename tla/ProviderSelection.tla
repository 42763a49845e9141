------------------------- MODULE ProviderSelection --------------------------
(***************************************************************************)
(* Which of a gateway's providers serves a session: CompositeAsrBridge and *)
(* CompositeTtsBridge.  Bindings are a sequence of provider ids, each with *)
(* the capabilities that are enabled for it; a selector asks for a         *)
(* provider, or for capabilities.                                          *)
(***************************************************************************)
EXTENDS Naturals, Sequences, FiniteSets

CONSTANTS
  Id,         \* provider ids
  Capability, \* capability keys
  NoId        \* no provider is named

ASSUME SelectionAssumption == NoId \notin Id

Binding  == [id : Id, caps : SUBSET Capability]

\* ProviderSelector.  A capability may be preferred twice, and counts twice.
Selector == [mode : {"auto", "provider"}, id : Id \cup {NoId},
             required : SUBSET Capability, preferred : Seq(Capability)]

\* CompositeAsrBridge::new, CompositeTtsBridge::new: ids differ.
Registered(bindings) ==
  /\ bindings \in Seq(Binding)
  /\ \A i, j \in DOMAIN bindings : bindings[i].id = bindings[j].id => i = j

\* descriptor_matches_required
Matches(binding, required) == required \subseteq binding.caps

Matching(bindings, required) == {i \in DOMAIN bindings : Matches(bindings[i], required)}

\* preferred_score; ASR adds one for a provider on the device when the request
\* prefers that.
Preferred(binding, preferred) == {k \in DOMAIN preferred : preferred[k] \in binding.caps}

Score(binding, preferred, bonus) ==
  Cardinality(Preferred(binding, preferred)) + (IF bonus \cap binding.caps # {} THEN 1 ELSE 0)

-----------------------------------------------------------------------------
(* select_binding.  A choice is the index of a binding, or 0 for an error.    *)

\* A provider that is named, or has to be: the first of that id, if it has what
\* is required.
Explicit(s) == s.mode = "provider" \/ s.id # NoId

ChooseNamed(bindings, s) ==
  LET named == {i \in DOMAIN bindings : bindings[i].id = s.id}
  IN IF named = {} THEN 0
     ELSE LET i == CHOOSE i \in named : \A j \in named : i <= j
          IN IF Matches(bindings[i], s.required) THEN i ELSE 0

\* Of those with the best score, max_by_key takes the last.
Better(bindings, s, bonus, i, j) ==
  LET x == Score(bindings[i], s.preferred, bonus)
      y == Score(bindings[j], s.preferred, bonus)
  IN y < x \/ (y = x /\ j <= i)

ChooseBest(bindings, s, bonus) ==
  LET candidates == Matching(bindings, s.required)
  IN IF candidates = {} THEN 0
     ELSE CHOOSE i \in candidates : \A j \in candidates : Better(bindings, s, bonus, i, j)

Choose(bindings, s, bonus) ==
  IF Explicit(s)
  THEN IF s.id = NoId THEN 0 ELSE ChooseNamed(bindings, s)
  ELSE ChooseBest(bindings, s, bonus)

\* CompositeAsrBridge::start_stream
ChooseAsr(bindings, s, onDevice, deviceCapability) ==
  Choose(bindings, s, IF onDevice THEN {deviceCapability} ELSE {})

\* apply_route_preferences: the capabilities of the route that are not preferred
\* yet, in their order, when nothing explicit was asked for.
WithRoute(s, route) ==
  IF Explicit(s) THEN s
  ELSE LET new == SelectSeq(route, LAMBDA c : c \notin {s.preferred[k] : k \in DOMAIN s.preferred})
       IN [s EXCEPT !.preferred = @ \o new]

\* CompositeTtsBridge::start_stream
ChooseTts(bindings, s, route) == Choose(bindings, WithRoute(s, route), {})

-----------------------------------------------------------------------------
\* CompositeTtsBridge::list_voices: of the named provider, or of all that match
\* one after the other; the first that fails makes the whole list fail.
VoicesFrom(bindings, s) ==
  IF Explicit(s)
  THEN {Choose(bindings, s, {})} \ {0}
  ELSE Matching(bindings, s.required)

VoicesFail(bindings, s, failing) ==
  \/ Explicit(s) /\ VoicesFrom(bindings, s) = {}
  \/ VoicesFrom(bindings, s) \cap failing # {}
=============================================================================
