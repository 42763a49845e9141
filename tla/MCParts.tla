------------------------------ MODULE MCParts -------------------------------
(* Parts that nothing links, side by side: the binary that updaters swap, the *)
(* provider state that commands save, and a MiniMax session.  A behaviour is  *)
(* about one of them.                                                         *)
EXTENDS Updater, ProviderStore, MinimaxWs, MCAlgorithms, TLC

CONSTANTS apple, minimax

\* The two entries of deploy/providers.catalog.example.json that differ in what
\* a gateway needs for them.
ExampleCatalog ==
  apple   :> [enabled |-> TRUE,  bridge |-> [kind |-> "agent", keyFile |-> "none"]] @@
  minimax :> [enabled |-> FALSE, bridge |-> [kind |-> "minimax", keyFile |-> "absent"]]

VARIABLE subject \* "binary", "providers" or "session"

\* What is varied of a part's initial state, is fixed when it is not the subject.
PartsInit ==
  /\ Init /\ StoreInit /\ TaskInit
  /\ subject \in {"binary", "providers", "session"}
  /\ subject # "providers" =>
       /\ stateFile = NoFile
       /\ job = [c \in Command |-> [op |-> "install", id |-> apple, flag |-> "none"]]
  /\ subject # "session" => mode = "buffered"

Updating(A) == subject = "binary" /\ A /\ UNCHANGED <<storeVars, taskVars, subject>>
Storing(A) == subject = "providers" /\ A /\ UNCHANGED <<vars, taskVars, subject>>
Speaking(A) == subject = "session" /\ A /\ UNCHANGED <<vars, storeVars, subject>>

PartsNext == Updating(Next) \/ Storing(StoreNext) \/ Speaking(TaskNext)

\* With FairSpec of Updater and TaskFairSpec.
PartsSpec ==
  /\ PartsInit /\ [][PartsNext]_<<vars, storeVars, taskVars, subject>>
  /\ \A p \in Proc :
       /\ WF_vars(Updating(Cycle(p)))
       /\ SF_vars(Updating(Check(p) /\ pc'[p] = "plan"))
       /\ SF_vars(Updating(Plan(p) /\ pc'[p] = "download"))
       /\ SF_vars(Updating(Download(p) /\ pc'[p] = "write"))
  /\ WF_taskVars(Speaking(ReadEvent))
  /\ WF_taskVars(Speaking(Confirm \/ Finish))
=============================================================================
