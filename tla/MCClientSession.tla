-------------------------- MODULE MCClientSession --------------------------
(* One client that uses at most two sessions of one connection: which two,   *)
(* and how many frames it sends, is fixed by the scenario it is in.          *)
EXTENDS ClientSession

Served == <<"mock_asr", "http_tts", "stdio_asr", "ws_tts", "http_asr">>
Failing == <<"http_asr">> \* alone, as session 1

VARIABLE scenario

Scenario ==
  {[uses |-> {1, 2}, frames |-> 4], \* bridges that buffer
   [uses |-> {2, 4}, frames |-> 3], \* and a provider that pushes unasked
   [uses |-> {3, 5}, frames |-> 3]} \* a bridge process, and calls that may fail

ScenarioInit == Init /\ scenario \in Scenario

\* Only frames of the client, which no fairness is about, are kept out.
ScenarioNext ==
  /\ Next
  /\ starting' \in scenario.uses \cup {NoSession}
  /\ frames' <= scenario.frames
  /\ UNCHANGED scenario

ScenarioSpec ==
  /\ ScenarioInit /\ [][ScenarioNext]_<<vars, scenario>>
  /\ Fairness /\ ProcessFairness
=============================================================================
