--------------------------- MODULE MCDeviceAgent ---------------------------
(* Two play_audio requests: on one connection with task ids of their own,   *)
(* or, the agent reconnecting between them, sharing one.                    *)
EXTENDS DeviceAgent

SharedId == \A r, q \in Request : taskId[r] = taskId[q]

\* With ids of their own the requests have symmetric roles: one assignment of
\* ids stands for the other.
First == CHOOSE r \in Request : TRUE
InstanceInit == Init /\ taskId[First] = CHOOSE t \in Task : TRUE

InstanceNext == Next /\ (conns' = MaxConns => SharedId)

InstanceSpec ==
  InstanceInit /\ [][InstanceNext]_vars /\ WF_vars(AgentStep) /\ WF_vars(PlayerStep)
=============================================================================
