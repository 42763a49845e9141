------------------------ MODULE AgentRegistryProofs ------------------------
(***************************************************************************)
(* Proofs that the invariants of AgentRegistry hold for any number of      *)
(* agents, connections, requests, task ids and chunks.                     *)
(***************************************************************************)
EXTENDS AgentRegistry, TLAPS

(***************************************************************************)
(* The inductive strengthening of WaiterHasOwner and NotStranded.          *)
(***************************************************************************)

\* The request has its task in the routing table, or had it.
Routed == {"start", "unroute", "lookup", "resolve", "send", "abort", "wait"}

\* Orphans are collected and resolved within one register or unregister call.
OrphansScoped ==
  \A c \in Conn : connPc[c] \notin {"registering", "unregistering"} => orphans[c] = {}

\* A request owns a task_id, and can be answered, only once it has subscribed.
IdleOwnsNothing ==
  \A r \in Request : reqPc[r] = "idle" => reqTask[r] = None /\ answer[r] = "pending"

\* The waiter of a routed request is reachable: through the route, or by a
\* resolver under way.
RoutedWaiterReachable ==
  \A t \in TaskId : \A r \in Request :
    waiters[t] = r /\ reqPc[r] \in Routed => tasks[t] # None \/ ResolverInFlight(t)

WaiterInv == OrphansScoped /\ IdleOwnsNothing /\ RoutedWaiterReachable /\ WaiterHasOwner

\* A generated id that no client chose belongs to one request, which keeps
\* its waiter until it is answered.
Private == GeneratedId \ SuppliedId

GeneratedOnce ==
  \A r \in Request :
    reqTask[r] \in Private =>
      /\ reqTask[r] \in issued
      /\ \A q \in Request : reqTask[q] = reqTask[r] => q = r

PrivateWaiterKept ==
  \A r \in Request :
    /\ reqTask[r] \in Private
    /\ reqPc[r] \notin Done
    /\ answer[r] = "pending"
    => waiters[reqTask[r]] = r

PrivateInv == GeneratedOnce /\ PrivateWaiterKept

IInv ==
  /\ TypeOK
  /\ RouteHasOwner
  /\ RegistrationIsServed
  /\ WaiterInv
  /\ PrivateInv

-----------------------------------------------------------------------------
(* No action leaves a variable, or a local a later step uses, outside its type. *)
LEMMA TypeStep == TypeOK /\ [Next]_vars => TypeOK'
<1> SUFFICES ASSUME TypeOK, [Next]_vars PROVE TypeOK'
  OBVIOUS
<1> USE RegistryAssumption DEF TypeOK, Types, LocalsSet, TaskReport, Done,
                               regVars, waitVars, reqVars, connVars
<1>1. ASSUME NEW r \in Request, NEW t \in TaskId, NEW m \in SUBSET AgentId,
             SubscribeSupplied(r, t, m) PROVE TypeOK'
  BY <1>1 DEF SubscribeSupplied, Subscribe, GoTo
<1>2. ASSUME NEW r \in Request, NEW t \in TaskId, NEW m \in SUBSET AgentId,
             SubscribeGenerated(r, t, m) PROVE TypeOK'
  BY <1>2 DEF SubscribeGenerated, Subscribe, GoTo
<1>3. ASSUME NEW r \in Request, RejectPayload(r) PROVE TypeOK'
  BY <1>3 DEF RejectPayload, GoTo
<1>4. ASSUME NEW r \in Request, SelectSpeakerAgent(r) PROVE TypeOK'
  BY <1>4 DEF SelectSpeakerAgent, Hold, GoTo
<1>5. ASSUME NEW r \in Request, RegisterTask(r) PROVE TypeOK'
  <2>1. CASE tasks[reqTask[r]] = None
    BY <1>5, <2>1 DEF RegisterTask, Hold, GoTo
  <2>2. CASE tasks[reqTask[r]] # None
    BY <1>5, <2>2 DEF RegisterTask, Hold, GoTo
  <2> QED
    BY <2>1, <2>2
<1>6. ASSUME NEW r \in Request, SendStart(r) PROVE TypeOK'
  BY <1>6 DEF SendStart, Hold, GoTo
<1>7. ASSUME NEW r \in Request, RemoveUndeliveredTask(r) PROVE TypeOK'
  BY <1>7 DEF RemoveUndeliveredTask, RemoveTask, RemoveTasks, GoTo
<1>8. ASSUME NEW r \in Request, LookupTask(r) PROVE TypeOK'
  <2>1. CASE tasks[reqTask[r]] = None
    <3>1. /\ Return(r, "failed")
          /\ UNCHANGED <<regVars, waitVars, issued, reqTask, matching, connVars>>
      BY <1>8, <2>1 DEF LookupTask
    <3> QED
      BY <3>1 DEF Return, Hold, GoTo
  <2>2. CASE tasks[reqTask[r]] # None
    BY <1>8, <2>2 DEF LookupTask, Return, Hold, GoTo
  <2> QED
    BY <2>1, <2>2
<1>9. ASSUME NEW r \in Request, ResolveCommandTx(r) PROVE TypeOK'
  BY <1>9 DEF ResolveCommandTx, Hold, GoTo
<1>10. ASSUME NEW r \in Request, SendCommand(r) PROVE TypeOK'
  <2>1. CASE writer[reqConn[r]] = "down"
    BY <1>10, <2>1 DEF SendCommand, Hold, GoTo
  <2>2. CASE writer[reqConn[r]] # "down" /\ chunks[r] > 0
    BY <1>10, <2>2 DEF SendCommand, Hold, GoTo
  <2>3. CASE writer[reqConn[r]] # "down" /\ ~(chunks[r] > 0)
    BY <1>10, <2>3 DEF SendCommand, Hold, GoTo
  <2> QED
    BY <2>1, <2>2, <2>3
<1>11. ASSUME NEW r \in Request, AbortTask(r) PROVE TypeOK'
  BY <1>11 DEF AbortTask, RemoveTask, RemoveTasks, GoTo
<1>12. ASSUME NEW r \in Request, SettleAborted(r) PROVE TypeOK'
  BY <1>12 DEF SettleAborted, ResolveTaskWaiter, TakeWaiter, Return, Hold, GoTo
<1>13. ASSUME NEW r \in Request, ReceiveAnswer(r) PROVE TypeOK'
  BY <1>13 DEF ReceiveAnswer, Return, Hold, GoTo
<1>14. ASSUME NEW r \in Request, AnswerTimeout(r) PROVE TypeOK'
  BY <1>14 DEF AnswerTimeout, GoTo
<1>15. ASSUME NEW r \in Request, Unsubscribe(r) PROVE TypeOK'
  BY <1>15 DEF Unsubscribe, RemoveTaskWaiter, TakeWaiter, Return, Hold, GoTo
<1>16. ASSUME NEW c \in Conn, NEW a \in AgentId, RegisterAgent(c, a) PROVE TypeOK'
  BY <1>16 DEF RegisterAgent, RemoveTasks, TasksOf, ConnGoTo
<1>17. ASSUME NEW c \in Conn, NEW t \in TaskId, ResolveOrphan(c, t) PROVE TypeOK'
  BY <1>17 DEF ResolveOrphan, ResolveTaskWaiter, TakeWaiter
<1>18. ASSUME NEW c \in Conn, NEW t \in TaskId, NEW s \in {"ok", "err"},
             ReceiveTaskStatus(c, t, s) PROVE TypeOK'
  BY <1>18 DEF ReceiveTaskStatus, ConnGoTo
<1>19. ASSUME NEW c \in Conn, RejectHello(c) PROVE TypeOK'
  BY <1>19 DEF RejectHello, ConnGoTo
<1>20. ASSUME NEW c \in Conn, SendHelloOk(c) PROVE TypeOK'
  BY <1>20 DEF SendHelloOk, ConnGoTo
<1>21. ASSUME NEW c \in Conn, RemoveReportedTask(c) PROVE TypeOK'
  BY <1>21 DEF RemoveReportedTask, RemoveTask, RemoveTasks, ConnGoTo
<1>22. ASSUME NEW c \in Conn, SettleReportedTask(c) PROVE TypeOK'
  BY <1>22 DEF SettleReportedTask, ResolveTaskWaiter, TakeWaiter, ConnGoTo
<1>23. ASSUME NEW c \in Conn, HeartbeatPing(c) PROVE TypeOK'
  BY <1>23 DEF HeartbeatPing, ConnGoTo
<1>24. ASSUME NEW c \in Conn, HeartbeatTimeout(c) PROVE TypeOK'
  BY <1>24 DEF HeartbeatTimeout, ConnGoTo
<1>25. ASSUME NEW c \in Conn, SendPing(c) PROVE TypeOK'
  BY <1>25 DEF SendPing, ConnGoTo
<1>26. ASSUME NEW c \in Conn, LeaveLoop(c) PROVE TypeOK'
  BY <1>26 DEF LeaveLoop, ConnGoTo
<1>27. ASSUME NEW c \in Conn, ReadError(c) PROVE TypeOK'
  BY <1>27 DEF ReadError, ConnGoTo
<1>28. ASSUME NEW c \in Conn, UnregisterAgent(c) PROVE TypeOK'
  BY <1>28 DEF UnregisterAgent, RemoveTasks, TasksOf, ConnGoTo
<1>29. ASSUME NEW c \in Conn, FinishUnregister(c) PROVE TypeOK'
  BY <1>29 DEF FinishUnregister, ConnGoTo
<1>30. ASSUME NEW c \in Conn, WriterStalls(c) PROVE TypeOK'
  BY <1>30 DEF WriterStalls, SetWriter
<1>31. ASSUME NEW c \in Conn, WriterDrains(c) PROVE TypeOK'
  BY <1>31 DEF WriterDrains, SetWriter
<1>32. ASSUME NEW c \in Conn, WriterFails(c) PROVE TypeOK'
  BY <1>32 DEF WriterFails, SetWriter
<1>33. ASSUME NEW c \in Conn, GoSilent(c) PROVE TypeOK'
  BY <1>33 DEF GoSilent
<1>34. CASE UNCHANGED vars
  BY <1>34 DEF vars
<1> HIDE DEF TypeOK, Types, LocalsSet, TaskReport, Done, regVars, waitVars, reqVars, connVars
<1> QED
  BY <1>1, <1>2, <1>3, <1>4, <1>5, <1>6, <1>7, <1>8, <1>9, <1>10, <1>11,
     <1>12, <1>13, <1>14, <1>15, <1>16, <1>17, <1>18, <1>19, <1>20,
     <1>21, <1>22, <1>23, <1>24, <1>25, <1>26, <1>27, <1>28, <1>29,
     <1>30, <1>31, <1>32, <1>33, <1>34
  DEF Next, ClientStep, RequestStep, PeerStep, ConnStep

(* A new route is made by a request in "start"; a registration disappears only
   together with the routes to it. *)
LEMMA RouteStep == TypeOK /\ RouteHasOwner /\ [Next]_vars => RouteHasOwner'
<1> SUFFICES ASSUME TypeOK, RouteHasOwner, [Next]_vars PROVE RouteHasOwner'
  OBVIOUS
<1> USE RegistryAssumption DEF TypeOK, Types, LocalsSet, RouteHasOwner, WillDropRoute,
                               regVars, waitVars, reqVars, connVars
<1>1. ASSUME NEW r \in Request, NEW t \in TaskId, NEW m \in SUBSET AgentId,
             SubscribeSupplied(r, t, m) PROVE RouteHasOwner'
  BY <1>1 DEF SubscribeSupplied, Subscribe, GoTo
<1>2. ASSUME NEW r \in Request, NEW t \in TaskId, NEW m \in SUBSET AgentId,
             SubscribeGenerated(r, t, m) PROVE RouteHasOwner'
  BY <1>2 DEF SubscribeGenerated, Subscribe, GoTo
<1>3. ASSUME NEW r \in Request, RejectPayload(r) PROVE RouteHasOwner'
  BY <1>3 DEF RejectPayload, GoTo
<1>4. ASSUME NEW r \in Request, SelectSpeakerAgent(r) PROVE RouteHasOwner'
  BY <1>4 DEF SelectSpeakerAgent, Hold, GoTo
<1>5. ASSUME NEW r \in Request, RegisterTask(r) PROVE RouteHasOwner'
  <2>1. CASE tasks[reqTask[r]] = None
    BY <1>5, <2>1 DEF RegisterTask, Hold, GoTo
  <2>2. CASE tasks[reqTask[r]] # None
    BY <1>5, <2>2 DEF RegisterTask, Hold, GoTo
  <2> QED
    BY <2>1, <2>2
<1>6. ASSUME NEW r \in Request, SendStart(r) PROVE RouteHasOwner'
  BY <1>6 DEF SendStart, Hold, GoTo
<1>7. ASSUME NEW r \in Request, RemoveUndeliveredTask(r) PROVE RouteHasOwner'
  BY <1>7 DEF RemoveUndeliveredTask, RemoveTask, RemoveTasks, GoTo
<1>8. ASSUME NEW r \in Request, LookupTask(r) PROVE RouteHasOwner'
  <2>1. CASE tasks[reqTask[r]] = None
    <3>1. /\ reqPc' = [reqPc EXCEPT ![r] = "failed"]
          /\ reqAgent' = [reqAgent EXCEPT ![r] = None]
          /\ UNCHANGED <<agents, tasks, reqTask>>
      BY <1>8, <2>1 DEF LookupTask, Return, Hold, GoTo
    <3> QED
      BY <1>8, <2>1, <3>1 DEF LookupTask
  <2>2. CASE tasks[reqTask[r]] # None
    BY <1>8, <2>2 DEF LookupTask, Return, Hold, GoTo
  <2> QED
    BY <2>1, <2>2
<1>9. ASSUME NEW r \in Request, ResolveCommandTx(r) PROVE RouteHasOwner'
  BY <1>9 DEF ResolveCommandTx, Hold, GoTo
<1>10. ASSUME NEW r \in Request, SendCommand(r) PROVE RouteHasOwner'
  <2>1. CASE writer[reqConn[r]] = "down"
    BY <1>10, <2>1 DEF SendCommand, Hold, GoTo
  <2>2. CASE writer[reqConn[r]] # "down" /\ chunks[r] > 0
    BY <1>10, <2>2 DEF SendCommand, Hold, GoTo
  <2>3. CASE writer[reqConn[r]] # "down" /\ ~(chunks[r] > 0)
    BY <1>10, <2>3 DEF SendCommand, Hold, GoTo
  <2> QED
    BY <2>1, <2>2, <2>3
<1>11. ASSUME NEW r \in Request, AbortTask(r) PROVE RouteHasOwner'
  BY <1>11 DEF AbortTask, RemoveTask, RemoveTasks, GoTo
<1>12. ASSUME NEW r \in Request, SettleAborted(r) PROVE RouteHasOwner'
  BY <1>12 DEF SettleAborted, ResolveTaskWaiter, TakeWaiter, Return, Hold, GoTo
<1>13. ASSUME NEW r \in Request, ReceiveAnswer(r) PROVE RouteHasOwner'
  BY <1>13 DEF ReceiveAnswer, Return, Hold, GoTo
<1>14. ASSUME NEW r \in Request, AnswerTimeout(r) PROVE RouteHasOwner'
  BY <1>14 DEF AnswerTimeout, GoTo
<1>15. ASSUME NEW r \in Request, Unsubscribe(r) PROVE RouteHasOwner'
  BY <1>15 DEF Unsubscribe, RemoveTaskWaiter, TakeWaiter, Return, Hold, GoTo
<1>16. ASSUME NEW c \in Conn, NEW a \in AgentId, RegisterAgent(c, a) PROVE RouteHasOwner'
  BY <1>16 DEF RegisterAgent, RemoveTasks, TasksOf, ConnGoTo
<1>17. ASSUME NEW c \in Conn, RemoveReportedTask(c) PROVE RouteHasOwner'
  BY <1>17 DEF RemoveReportedTask, RemoveTask, RemoveTasks, ConnGoTo
<1>18. ASSUME NEW c \in Conn, UnregisterAgent(c) PROVE RouteHasOwner'
  BY <1>18 DEF UnregisterAgent, RemoveTasks, TasksOf, ConnGoTo
<1>19. CASE
         \/ \E c \in Conn, t \in TaskId : ResolveOrphan(c, t)
         \/ \E c \in Conn, t \in TaskId, s \in {"ok", "err"} : ReceiveTaskStatus(c, t, s)
         \/ \E c \in Conn :
              \/ RejectHello(c) \/ SendHelloOk(c) \/ SettleReportedTask(c)
              \/ HeartbeatPing(c) \/ HeartbeatTimeout(c) \/ SendPing(c)
              \/ LeaveLoop(c) \/ ReadError(c) \/ FinishUnregister(c)
              \/ WriterStalls(c) \/ WriterDrains(c) \/ WriterFails(c)
              \/ GoSilent(c)
  <2>1. UNCHANGED <<regVars, reqVars>>
    BY <1>19 DEF FinishUnregister, GoSilent, HeartbeatPing, HeartbeatTimeout,
           LeaveLoop, ReadError, ReceiveTaskStatus, RejectHello,
           ResolveOrphan, SendHelloOk, SendPing, SetWriter,
           SettleReportedTask, WriterDrains, WriterFails, WriterStalls
  <2> QED
    BY <2>1
<1>20. CASE UNCHANGED vars
  BY <1>20 DEF vars
<1> HIDE DEF TypeOK, Types, LocalsSet, RouteHasOwner, WillDropRoute, regVars, waitVars, reqVars, connVars
<1> QED
  BY <1>1, <1>2, <1>3, <1>4, <1>5, <1>6, <1>7, <1>8, <1>9, <1>10, <1>11,
     <1>12, <1>13, <1>14, <1>15, <1>16, <1>17, <1>18, <1>19, <1>20
  DEF Next, ClientStep, RequestStep, PeerStep, ConnStep

(* A handler that unregisters by agent_id removes at least its own registration. *)
LEMMA ServedStep == TypeOK /\ RegistrationIsServed /\ [Next]_vars => RegistrationIsServed'
<1> SUFFICES ASSUME TypeOK, RegistrationIsServed, [Next]_vars PROVE RegistrationIsServed'
  OBVIOUS
<1> USE RegistryAssumption DEF TypeOK, Types, RegistrationIsServed,
                               regVars, waitVars, reqVars, connVars
<1>1. ASSUME NEW r \in Request, NEW t \in TaskId, NEW m \in SUBSET AgentId,
             SubscribeSupplied(r, t, m) PROVE RegistrationIsServed'
  BY <1>1 DEF SubscribeSupplied, Subscribe, GoTo
<1>2. ASSUME NEW r \in Request, NEW t \in TaskId, NEW m \in SUBSET AgentId,
             SubscribeGenerated(r, t, m) PROVE RegistrationIsServed'
  BY <1>2 DEF SubscribeGenerated, Subscribe, GoTo
<1>3. ASSUME NEW c \in Conn, NEW a \in AgentId, RegisterAgent(c, a) PROVE RegistrationIsServed'
  BY <1>3 DEF RegisterAgent, RemoveTasks, TasksOf, ConnGoTo
<1>4. ASSUME NEW c \in Conn, NEW t \in TaskId, NEW s \in {"ok", "err"},
             ReceiveTaskStatus(c, t, s) PROVE RegistrationIsServed'
  BY <1>4 DEF ReceiveTaskStatus, ConnGoTo
<1>5. ASSUME NEW c \in Conn, RejectHello(c) PROVE RegistrationIsServed'
  BY <1>5 DEF RejectHello, ConnGoTo
<1>6. ASSUME NEW c \in Conn, SendHelloOk(c) PROVE RegistrationIsServed'
  BY <1>6 DEF SendHelloOk, ConnGoTo
<1>7. ASSUME NEW c \in Conn, RemoveReportedTask(c) PROVE RegistrationIsServed'
  BY <1>7 DEF RemoveReportedTask, RemoveTask, RemoveTasks, ConnGoTo
<1>8. ASSUME NEW c \in Conn, SettleReportedTask(c) PROVE RegistrationIsServed'
  BY <1>8 DEF SettleReportedTask, ResolveTaskWaiter, TakeWaiter, ConnGoTo
<1>9. ASSUME NEW c \in Conn, HeartbeatPing(c) PROVE RegistrationIsServed'
  BY <1>9 DEF HeartbeatPing, ConnGoTo
<1>10. ASSUME NEW c \in Conn, HeartbeatTimeout(c) PROVE RegistrationIsServed'
  BY <1>10 DEF HeartbeatTimeout, ConnGoTo
<1>11. ASSUME NEW c \in Conn, SendPing(c) PROVE RegistrationIsServed'
  BY <1>11 DEF SendPing, ConnGoTo
<1>12. ASSUME NEW c \in Conn, LeaveLoop(c) PROVE RegistrationIsServed'
  BY <1>12 DEF LeaveLoop, ConnGoTo
<1>13. ASSUME NEW c \in Conn, ReadError(c) PROVE RegistrationIsServed'
  BY <1>13 DEF ReadError, ConnGoTo
<1>14. ASSUME NEW c \in Conn, UnregisterAgent(c) PROVE RegistrationIsServed'
  BY <1>14 DEF UnregisterAgent, RemoveTasks, TasksOf, ConnGoTo
<1>15. ASSUME NEW c \in Conn, FinishUnregister(c) PROVE RegistrationIsServed'
  BY <1>15 DEF FinishUnregister, ConnGoTo
<1>16. CASE
         \/ \E r \in Request : RejectPayload(r)
         \/ \E r \in Request : SelectSpeakerAgent(r)
         \/ \E r \in Request : RegisterTask(r)
         \/ \E r \in Request : SendStart(r)
         \/ \E r \in Request : RemoveUndeliveredTask(r)
         \/ \E r \in Request : LookupTask(r)
         \/ \E r \in Request : ResolveCommandTx(r)
         \/ \E r \in Request : SendCommand(r)
         \/ \E r \in Request : AbortTask(r)
         \/ \E r \in Request : SettleAborted(r)
         \/ \E r \in Request : ReceiveAnswer(r)
         \/ \E r \in Request : AnswerTimeout(r)
         \/ \E r \in Request : Unsubscribe(r)
         \/ \E c \in Conn, t \in TaskId : ResolveOrphan(c, t)
         \/ \E c \in Conn :
              \/ WriterStalls(c) \/ WriterDrains(c) \/ WriterFails(c)
              \/ GoSilent(c)
  <2>1. UNCHANGED <<agents, connAgent, connPc>>
    BY <1>16 DEF AbortTask, AnswerTimeout, GoSilent, GoTo, Hold, LookupTask,
           ReceiveAnswer, RegisterTask, RejectPayload, RemoveTask,
           RemoveTaskWaiter, RemoveTasks, RemoveUndeliveredTask,
           ResolveCommandTx, ResolveOrphan, Return, SelectSpeakerAgent,
           SendCommand, SendStart, SetWriter, SettleAborted,
           Unsubscribe, WriterDrains, WriterFails, WriterStalls
  <2> QED
    BY <2>1
<1>17. CASE UNCHANGED vars
  BY <1>17 DEF vars
<1> HIDE DEF TypeOK, Types, RegistrationIsServed, regVars, waitVars, reqVars, connVars
<1> QED
  BY <1>1, <1>2, <1>3, <1>4, <1>5, <1>6, <1>7, <1>8, <1>9, <1>10, <1>11,
     <1>12, <1>13, <1>14, <1>15, <1>16, <1>17
  DEF Next, ClientStep, RequestStep, PeerStep, ConnStep

(* Only register_agent and unregister_agent fill orphans, and their handlers
   drain it before they go on. *)
LEMMA ScopedStep == TypeOK /\ OrphansScoped /\ [Next]_vars => OrphansScoped'
<1> SUFFICES ASSUME TypeOK, OrphansScoped, [Next]_vars PROVE OrphansScoped'
  OBVIOUS
<1> USE DEF TypeOK, Types, OrphansScoped, regVars, waitVars, reqVars, connVars
<1>1. ASSUME NEW r \in Request, NEW t \in TaskId, NEW m \in SUBSET AgentId,
             SubscribeSupplied(r, t, m) PROVE OrphansScoped'
  BY <1>1 DEF SubscribeSupplied, Subscribe, GoTo
<1>2. ASSUME NEW r \in Request, NEW t \in TaskId, NEW m \in SUBSET AgentId,
             SubscribeGenerated(r, t, m) PROVE OrphansScoped'
  BY <1>2 DEF SubscribeGenerated, Subscribe, GoTo
<1>3. ASSUME NEW c \in Conn, NEW a \in AgentId, RegisterAgent(c, a) PROVE OrphansScoped'
  BY <1>3 DEF RegisterAgent, RemoveTasks, TasksOf, ConnGoTo
<1>4. ASSUME NEW c \in Conn, NEW t \in TaskId, ResolveOrphan(c, t) PROVE OrphansScoped'
  BY <1>4 DEF ResolveOrphan, ResolveTaskWaiter, TakeWaiter
<1>5. ASSUME NEW c \in Conn, NEW t \in TaskId, NEW s \in {"ok", "err"},
             ReceiveTaskStatus(c, t, s) PROVE OrphansScoped'
  BY <1>5 DEF ReceiveTaskStatus, ConnGoTo
<1>6. ASSUME NEW c \in Conn, RejectHello(c) PROVE OrphansScoped'
  BY <1>6 DEF RejectHello, ConnGoTo
<1>7. ASSUME NEW c \in Conn, SendHelloOk(c) PROVE OrphansScoped'
  BY <1>7 DEF SendHelloOk, ConnGoTo
<1>8. ASSUME NEW c \in Conn, RemoveReportedTask(c) PROVE OrphansScoped'
  BY <1>8 DEF RemoveReportedTask, RemoveTask, RemoveTasks, ConnGoTo
<1>9. ASSUME NEW c \in Conn, SettleReportedTask(c) PROVE OrphansScoped'
  BY <1>9 DEF SettleReportedTask, ResolveTaskWaiter, TakeWaiter, ConnGoTo
<1>10. ASSUME NEW c \in Conn, HeartbeatPing(c) PROVE OrphansScoped'
  BY <1>10 DEF HeartbeatPing, ConnGoTo
<1>11. ASSUME NEW c \in Conn, HeartbeatTimeout(c) PROVE OrphansScoped'
  BY <1>11 DEF HeartbeatTimeout, ConnGoTo
<1>12. ASSUME NEW c \in Conn, SendPing(c) PROVE OrphansScoped'
  BY <1>12 DEF SendPing, ConnGoTo
<1>13. ASSUME NEW c \in Conn, LeaveLoop(c) PROVE OrphansScoped'
  BY <1>13 DEF LeaveLoop, ConnGoTo
<1>14. ASSUME NEW c \in Conn, ReadError(c) PROVE OrphansScoped'
  BY <1>14 DEF ReadError, ConnGoTo
<1>15. ASSUME NEW c \in Conn, UnregisterAgent(c) PROVE OrphansScoped'
  BY <1>15 DEF UnregisterAgent, RemoveTasks, TasksOf, ConnGoTo
<1>16. ASSUME NEW c \in Conn, FinishUnregister(c) PROVE OrphansScoped'
  BY <1>16 DEF FinishUnregister, ConnGoTo
<1>17. CASE
         \/ \E r \in Request : RejectPayload(r)
         \/ \E r \in Request : SelectSpeakerAgent(r)
         \/ \E r \in Request : RegisterTask(r)
         \/ \E r \in Request : SendStart(r)
         \/ \E r \in Request : RemoveUndeliveredTask(r)
         \/ \E r \in Request : LookupTask(r)
         \/ \E r \in Request : ResolveCommandTx(r)
         \/ \E r \in Request : SendCommand(r)
         \/ \E r \in Request : AbortTask(r)
         \/ \E r \in Request : SettleAborted(r)
         \/ \E r \in Request : ReceiveAnswer(r)
         \/ \E r \in Request : AnswerTimeout(r)
         \/ \E r \in Request : Unsubscribe(r)
         \/ \E c \in Conn :
              \/ WriterStalls(c) \/ WriterDrains(c) \/ WriterFails(c)
              \/ GoSilent(c)
  <2>1. UNCHANGED <<orphans, connPc>>
    BY <1>17 DEF AbortTask, AnswerTimeout, GoSilent, GoTo, Hold, LookupTask,
           ReceiveAnswer, RegisterTask, RejectPayload, RemoveTask,
           RemoveTaskWaiter, RemoveTasks, RemoveUndeliveredTask,
           ResolveCommandTx, Return, SelectSpeakerAgent, SendCommand,
           SendStart, SetWriter, SettleAborted, Unsubscribe,
           WriterDrains, WriterFails, WriterStalls
  <2> QED
    BY <2>1
<1>18. CASE UNCHANGED vars
  BY <1>18 DEF vars
<1> HIDE DEF TypeOK, Types, OrphansScoped, regVars, waitVars, reqVars, connVars
<1> QED
  BY <1>1, <1>2, <1>3, <1>4, <1>5, <1>6, <1>7, <1>8, <1>9, <1>10, <1>11,
     <1>12, <1>13, <1>14, <1>15, <1>16, <1>17, <1>18
  DEF Next, ClientStep, RequestStep, PeerStep, ConnStep

(* A request that has not subscribed owns no waiter, so nothing answers it. *)
LEMMA IdleStep == TypeOK /\ WaiterInv /\ [Next]_vars => IdleOwnsNothing'
<1> SUFFICES ASSUME TypeOK, WaiterInv, [Next]_vars PROVE IdleOwnsNothing'
  OBVIOUS
<1> USE RegistryAssumption DEF TypeOK, Types, LocalsSet, TaskReport, WaiterInv, IdleOwnsNothing, WaiterHasOwner,
      regVars, waitVars, reqVars, connVars
<1>1. ASSUME NEW r \in Request, NEW t \in TaskId, NEW m \in SUBSET AgentId,
             SubscribeSupplied(r, t, m) PROVE IdleOwnsNothing'
  BY <1>1 DEF SubscribeSupplied, Subscribe, GoTo
<1>2. ASSUME NEW r \in Request, NEW t \in TaskId, NEW m \in SUBSET AgentId,
             SubscribeGenerated(r, t, m) PROVE IdleOwnsNothing'
  BY <1>2 DEF SubscribeGenerated, Subscribe, GoTo
<1>3. ASSUME NEW r \in Request, RejectPayload(r) PROVE IdleOwnsNothing'
  BY <1>3 DEF RejectPayload, GoTo
<1>4. ASSUME NEW r \in Request, SelectSpeakerAgent(r) PROVE IdleOwnsNothing'
  BY <1>4 DEF SelectSpeakerAgent, Hold, GoTo
<1>5. ASSUME NEW r \in Request, RegisterTask(r) PROVE IdleOwnsNothing'
  <2>1. CASE tasks[reqTask[r]] = None
    BY <1>5, <2>1 DEF RegisterTask, Hold, GoTo
  <2>2. CASE tasks[reqTask[r]] # None
    BY <1>5, <2>2 DEF RegisterTask, Hold, GoTo
  <2> QED
    BY <2>1, <2>2
<1>6. ASSUME NEW r \in Request, SendStart(r) PROVE IdleOwnsNothing'
  BY <1>6 DEF SendStart, Hold, GoTo
<1>7. ASSUME NEW r \in Request, RemoveUndeliveredTask(r) PROVE IdleOwnsNothing'
  BY <1>7 DEF RemoveUndeliveredTask, RemoveTask, RemoveTasks, GoTo
<1>8. ASSUME NEW r \in Request, LookupTask(r) PROVE IdleOwnsNothing'
  <2>1. CASE tasks[reqTask[r]] = None
    BY <1>8, <2>1 DEF LookupTask, Return, Hold, GoTo
  <2>2. CASE tasks[reqTask[r]] # None
    BY <1>8, <2>2 DEF LookupTask, Return, Hold, GoTo
  <2> QED
    BY <2>1, <2>2
<1>9. ASSUME NEW r \in Request, ResolveCommandTx(r) PROVE IdleOwnsNothing'
  BY <1>9 DEF ResolveCommandTx, Hold, GoTo
<1>10. ASSUME NEW r \in Request, SendCommand(r) PROVE IdleOwnsNothing'
  <2>1. CASE writer[reqConn[r]] = "down"
    BY <1>10, <2>1 DEF SendCommand, Hold, GoTo
  <2>2. CASE writer[reqConn[r]] # "down" /\ chunks[r] > 0
    BY <1>10, <2>2 DEF SendCommand, Hold, GoTo
  <2>3. CASE writer[reqConn[r]] # "down" /\ ~(chunks[r] > 0)
    BY <1>10, <2>3 DEF SendCommand, Hold, GoTo
  <2> QED
    BY <2>1, <2>2, <2>3
<1>11. ASSUME NEW r \in Request, AbortTask(r) PROVE IdleOwnsNothing'
  BY <1>11 DEF AbortTask, RemoveTask, RemoveTasks, GoTo
<1>12. ASSUME NEW r \in Request, SettleAborted(r) PROVE IdleOwnsNothing'
  BY <1>12 DEF SettleAborted, ResolveTaskWaiter, TakeWaiter, Return, Hold, GoTo
<1>13. ASSUME NEW r \in Request, ReceiveAnswer(r) PROVE IdleOwnsNothing'
  BY <1>13 DEF ReceiveAnswer, Return, Hold, GoTo
<1>14. ASSUME NEW r \in Request, AnswerTimeout(r) PROVE IdleOwnsNothing'
  BY <1>14 DEF AnswerTimeout, GoTo
<1>15. ASSUME NEW r \in Request, Unsubscribe(r) PROVE IdleOwnsNothing'
  BY <1>15 DEF Unsubscribe, RemoveTaskWaiter, TakeWaiter, Return, Hold, GoTo
<1>16. ASSUME NEW c \in Conn, NEW t \in TaskId, ResolveOrphan(c, t) PROVE IdleOwnsNothing'
  BY <1>16 DEF ResolveOrphan, ResolveTaskWaiter, TakeWaiter
<1>17. ASSUME NEW c \in Conn, SettleReportedTask(c) PROVE IdleOwnsNothing'
  BY <1>17 DEF SettleReportedTask, ResolveTaskWaiter, TakeWaiter, ConnGoTo
<1>18. CASE
         \/ \E c \in Conn, a \in AgentId : RegisterAgent(c, a)
         \/ \E c \in Conn, t \in TaskId, s \in {"ok", "err"} : ReceiveTaskStatus(c, t, s)
         \/ \E c \in Conn :
              \/ RejectHello(c) \/ SendHelloOk(c) \/ RemoveReportedTask(c)
              \/ HeartbeatPing(c) \/ HeartbeatTimeout(c) \/ SendPing(c)
              \/ LeaveLoop(c) \/ ReadError(c) \/ UnregisterAgent(c)
              \/ FinishUnregister(c) \/ WriterStalls(c) \/ WriterDrains(c)
              \/ WriterFails(c) \/ GoSilent(c)
  <2>1. UNCHANGED <<reqTask, reqPc, answer>>
    BY <1>18 DEF FinishUnregister, GoSilent, HeartbeatPing, HeartbeatTimeout,
           LeaveLoop, ReadError, ReceiveTaskStatus, RegisterAgent,
           RejectHello, RemoveReportedTask, RemoveTask, RemoveTasks,
           SendHelloOk, SendPing, SetWriter, TasksOf, UnregisterAgent,
           WriterDrains, WriterFails, WriterStalls
  <2> QED
    BY <2>1
<1>19. CASE UNCHANGED vars
  BY <1>19 DEF vars
<1> HIDE DEF TypeOK, Types, LocalsSet, TaskReport, WaiterInv, IdleOwnsNothing, WaiterHasOwner, regVars, waitVars, reqVars, connVars
<1> QED
  BY <1>1, <1>2, <1>3, <1>4, <1>5, <1>6, <1>7, <1>8, <1>9, <1>10, <1>11,
     <1>12, <1>13, <1>14, <1>15, <1>16, <1>17, <1>18, <1>19
  DEF Next, ClientStep, RequestStep, PeerStep, ConnStep

(* A route leaves the table only in a handler that goes on to take the waiter,
   so the waiter of a routed request never becomes unreachable. *)
LEMMA ReachableStep == TypeOK /\ WaiterInv /\ [Next]_vars => RoutedWaiterReachable'
<1> SUFFICES ASSUME TypeOK, WaiterInv, [Next]_vars PROVE RoutedWaiterReachable'
  OBVIOUS
<1> USE RegistryAssumption DEF TypeOK, Types, LocalsSet, TaskReport, Done, Routed, ResolverInFlight,
      WaiterInv, OrphansScoped, IdleOwnsNothing, RoutedWaiterReachable, WaiterHasOwner,
      regVars, waitVars, reqVars, connVars
<1>1. ASSUME NEW r \in Request, NEW t \in TaskId, NEW m \in SUBSET AgentId,
             SubscribeSupplied(r, t, m) PROVE RoutedWaiterReachable'
  BY <1>1 DEF SubscribeSupplied, Subscribe, GoTo
<1>2. ASSUME NEW r \in Request, NEW t \in TaskId, NEW m \in SUBSET AgentId,
             SubscribeGenerated(r, t, m) PROVE RoutedWaiterReachable'
  BY <1>2 DEF SubscribeGenerated, Subscribe, GoTo
<1>3. ASSUME NEW r \in Request, RejectPayload(r) PROVE RoutedWaiterReachable'
  BY <1>3 DEF RejectPayload, GoTo
<1>4. ASSUME NEW r \in Request, SelectSpeakerAgent(r) PROVE RoutedWaiterReachable'
  BY <1>4 DEF SelectSpeakerAgent, Hold, GoTo
<1>5. ASSUME NEW r \in Request, RegisterTask(r) PROVE RoutedWaiterReachable'
  <2>1. CASE tasks[reqTask[r]] = None
    BY <1>5, <2>1 DEF RegisterTask, Hold, GoTo
  <2>2. CASE tasks[reqTask[r]] # None
    BY <1>5, <2>2 DEF RegisterTask, Hold, GoTo
  <2> QED
    BY <2>1, <2>2
<1>6. ASSUME NEW r \in Request, SendStart(r) PROVE RoutedWaiterReachable'
  BY <1>6 DEF SendStart, Hold, GoTo
<1>7. ASSUME NEW r \in Request, RemoveUndeliveredTask(r) PROVE RoutedWaiterReachable'
  BY <1>7 DEF RemoveUndeliveredTask, RemoveTask, RemoveTasks, GoTo
<1>8. ASSUME NEW r \in Request, LookupTask(r) PROVE RoutedWaiterReachable'
  <2>1. CASE tasks[reqTask[r]] = None
    BY <1>8, <2>1 DEF LookupTask, Return, Hold, GoTo
  <2>2. CASE tasks[reqTask[r]] # None
    BY <1>8, <2>2 DEF LookupTask, Return, Hold, GoTo
  <2> QED
    BY <2>1, <2>2
<1>9. ASSUME NEW r \in Request, ResolveCommandTx(r) PROVE RoutedWaiterReachable'
  BY <1>9 DEF ResolveCommandTx, Hold, GoTo
<1>10. ASSUME NEW r \in Request, SendCommand(r) PROVE RoutedWaiterReachable'
  <2>1. CASE writer[reqConn[r]] = "down"
    BY <1>10, <2>1 DEF SendCommand, Hold, GoTo
  <2>2. CASE writer[reqConn[r]] # "down" /\ chunks[r] > 0
    BY <1>10, <2>2 DEF SendCommand, Hold, GoTo
  <2>3. CASE writer[reqConn[r]] # "down" /\ ~(chunks[r] > 0)
    BY <1>10, <2>3 DEF SendCommand, Hold, GoTo
  <2> QED
    BY <2>1, <2>2, <2>3
<1>11. ASSUME NEW r \in Request, AbortTask(r) PROVE RoutedWaiterReachable'
  BY <1>11 DEF AbortTask, RemoveTask, RemoveTasks, GoTo
<1>12. ASSUME NEW r \in Request, SettleAborted(r) PROVE RoutedWaiterReachable'
  BY <1>12 DEF SettleAborted, ResolveTaskWaiter, TakeWaiter, Return, Hold, GoTo
<1>13. ASSUME NEW r \in Request, ReceiveAnswer(r) PROVE RoutedWaiterReachable'
  BY <1>13 DEF ReceiveAnswer, Return, Hold, GoTo
<1>14. ASSUME NEW r \in Request, AnswerTimeout(r) PROVE RoutedWaiterReachable'
  BY <1>14 DEF AnswerTimeout, GoTo
<1>15. ASSUME NEW r \in Request, Unsubscribe(r) PROVE RoutedWaiterReachable'
  BY <1>15 DEF Unsubscribe, RemoveTaskWaiter, TakeWaiter, Return, Hold, GoTo
<1>16. ASSUME NEW c \in Conn, NEW a \in AgentId, RegisterAgent(c, a) PROVE RoutedWaiterReachable'
  BY <1>16 DEF RegisterAgent, RemoveTasks, TasksOf, ConnGoTo
<1>17. ASSUME NEW c \in Conn, NEW t \in TaskId, ResolveOrphan(c, t) PROVE RoutedWaiterReachable'
  BY <1>17 DEF ResolveOrphan, ResolveTaskWaiter, TakeWaiter
<1>18. ASSUME NEW c \in Conn, NEW t \in TaskId, NEW s \in {"ok", "err"},
             ReceiveTaskStatus(c, t, s) PROVE RoutedWaiterReachable'
  BY <1>18 DEF ReceiveTaskStatus, ConnGoTo
<1>19. ASSUME NEW c \in Conn, RejectHello(c) PROVE RoutedWaiterReachable'
  BY <1>19 DEF RejectHello, ConnGoTo
<1>20. ASSUME NEW c \in Conn, SendHelloOk(c) PROVE RoutedWaiterReachable'
  BY <1>20 DEF SendHelloOk, ConnGoTo
<1>21. ASSUME NEW c \in Conn, RemoveReportedTask(c) PROVE RoutedWaiterReachable'
  BY <1>21 DEF RemoveReportedTask, RemoveTask, RemoveTasks, ConnGoTo
<1>22. ASSUME NEW c \in Conn, SettleReportedTask(c) PROVE RoutedWaiterReachable'
  BY <1>22 DEF SettleReportedTask, ResolveTaskWaiter, TakeWaiter, ConnGoTo
<1>23. ASSUME NEW c \in Conn, HeartbeatPing(c) PROVE RoutedWaiterReachable'
  BY <1>23 DEF HeartbeatPing, ConnGoTo
<1>24. ASSUME NEW c \in Conn, HeartbeatTimeout(c) PROVE RoutedWaiterReachable'
  BY <1>24 DEF HeartbeatTimeout, ConnGoTo
<1>25. ASSUME NEW c \in Conn, SendPing(c) PROVE RoutedWaiterReachable'
  BY <1>25 DEF SendPing, ConnGoTo
<1>26. ASSUME NEW c \in Conn, LeaveLoop(c) PROVE RoutedWaiterReachable'
  BY <1>26 DEF LeaveLoop, ConnGoTo
<1>27. ASSUME NEW c \in Conn, ReadError(c) PROVE RoutedWaiterReachable'
  BY <1>27 DEF ReadError, ConnGoTo
<1>28. ASSUME NEW c \in Conn, UnregisterAgent(c) PROVE RoutedWaiterReachable'
  BY <1>28 DEF UnregisterAgent, RemoveTasks, TasksOf, ConnGoTo
<1>29. ASSUME NEW c \in Conn, FinishUnregister(c) PROVE RoutedWaiterReachable'
  BY <1>29 DEF FinishUnregister, ConnGoTo
<1>30. CASE
         \/ \E c \in Conn :
              \/ WriterStalls(c) \/ WriterDrains(c) \/ WriterFails(c)
              \/ GoSilent(c)
  <2>1. UNCHANGED <<tasks, waiters, answer, reqTask, reqPc, orphans, connPc, report>>
    BY <1>30 DEF GoSilent, SetWriter, WriterDrains, WriterFails, WriterStalls
  <2> QED
    BY <2>1
<1>31. CASE UNCHANGED vars
  BY <1>31 DEF vars
<1> HIDE DEF TypeOK, Types, LocalsSet, TaskReport, Done, Routed, ResolverInFlight, WaiterInv,
     OrphansScoped, IdleOwnsNothing, RoutedWaiterReachable, WaiterHasOwner, regVars, waitVars, reqVars, connVars
<1> QED
  BY <1>1, <1>2, <1>3, <1>4, <1>5, <1>6, <1>7, <1>8, <1>9, <1>10, <1>11,
     <1>12, <1>13, <1>14, <1>15, <1>16, <1>17, <1>18, <1>19, <1>20,
     <1>21, <1>22, <1>23, <1>24, <1>25, <1>26, <1>27, <1>28, <1>29,
     <1>30, <1>31
  DEF Next, ClientStep, RequestStep, PeerStep, ConnStep

(* A waiter leaves the map no later than its receiver is answered, and a request
   returns only without a waiter or with a resolver under way. *)
LEMMA OwnerStep == TypeOK /\ WaiterInv /\ [Next]_vars => WaiterHasOwner'
<1> SUFFICES ASSUME TypeOK, WaiterInv, [Next]_vars PROVE WaiterHasOwner'
  OBVIOUS
<1> USE RegistryAssumption DEF TypeOK, Types, LocalsSet, TaskReport, Done, Routed, ResolverInFlight,
      WaiterInv, OrphansScoped, IdleOwnsNothing, RoutedWaiterReachable, WaiterHasOwner,
      regVars, waitVars, reqVars, connVars
<1>1. ASSUME NEW r \in Request, NEW t \in TaskId, NEW m \in SUBSET AgentId,
             SubscribeSupplied(r, t, m) PROVE WaiterHasOwner'
  BY <1>1 DEF SubscribeSupplied, Subscribe, GoTo
<1>2. ASSUME NEW r \in Request, NEW t \in TaskId, NEW m \in SUBSET AgentId,
             SubscribeGenerated(r, t, m) PROVE WaiterHasOwner'
  BY <1>2 DEF SubscribeGenerated, Subscribe, GoTo
<1>3. ASSUME NEW r \in Request, RejectPayload(r) PROVE WaiterHasOwner'
  BY <1>3 DEF RejectPayload, GoTo
<1>4. ASSUME NEW r \in Request, SelectSpeakerAgent(r) PROVE WaiterHasOwner'
  BY <1>4 DEF SelectSpeakerAgent, Hold, GoTo
<1>5. ASSUME NEW r \in Request, RegisterTask(r) PROVE WaiterHasOwner'
  <2>1. CASE tasks[reqTask[r]] = None
    BY <1>5, <2>1 DEF RegisterTask, Hold, GoTo
  <2>2. CASE tasks[reqTask[r]] # None
    BY <1>5, <2>2 DEF RegisterTask, Hold, GoTo
  <2> QED
    BY <2>1, <2>2
<1>6. ASSUME NEW r \in Request, SendStart(r) PROVE WaiterHasOwner'
  BY <1>6 DEF SendStart, Hold, GoTo
<1>7. ASSUME NEW r \in Request, RemoveUndeliveredTask(r) PROVE WaiterHasOwner'
  BY <1>7 DEF RemoveUndeliveredTask, RemoveTask, RemoveTasks, GoTo
<1>8. ASSUME NEW r \in Request, LookupTask(r) PROVE WaiterHasOwner'
  <2>1. CASE tasks[reqTask[r]] = None
    BY <1>8, <2>1 DEF LookupTask, Return, Hold, GoTo
  <2>2. CASE tasks[reqTask[r]] # None
    BY <1>8, <2>2 DEF LookupTask, Return, Hold, GoTo
  <2> QED
    BY <2>1, <2>2
<1>9. ASSUME NEW r \in Request, ResolveCommandTx(r) PROVE WaiterHasOwner'
  BY <1>9 DEF ResolveCommandTx, Hold, GoTo
<1>10. ASSUME NEW r \in Request, SendCommand(r) PROVE WaiterHasOwner'
  <2>1. CASE writer[reqConn[r]] = "down"
    BY <1>10, <2>1 DEF SendCommand, Hold, GoTo
  <2>2. CASE writer[reqConn[r]] # "down" /\ chunks[r] > 0
    BY <1>10, <2>2 DEF SendCommand, Hold, GoTo
  <2>3. CASE writer[reqConn[r]] # "down" /\ ~(chunks[r] > 0)
    BY <1>10, <2>3 DEF SendCommand, Hold, GoTo
  <2> QED
    BY <2>1, <2>2, <2>3
<1>11. ASSUME NEW r \in Request, AbortTask(r) PROVE WaiterHasOwner'
  BY <1>11 DEF AbortTask, RemoveTask, RemoveTasks, GoTo
<1>12. ASSUME NEW r \in Request, SettleAborted(r) PROVE WaiterHasOwner'
  BY <1>12 DEF SettleAborted, ResolveTaskWaiter, TakeWaiter, Return, Hold, GoTo
<1>13. ASSUME NEW r \in Request, ReceiveAnswer(r) PROVE WaiterHasOwner'
  BY <1>13 DEF ReceiveAnswer, Return, Hold, GoTo
<1>14. ASSUME NEW r \in Request, AnswerTimeout(r) PROVE WaiterHasOwner'
  BY <1>14 DEF AnswerTimeout, GoTo
<1>15. ASSUME NEW r \in Request, Unsubscribe(r) PROVE WaiterHasOwner'
  BY <1>15 DEF Unsubscribe, RemoveTaskWaiter, TakeWaiter, Return, Hold, GoTo
<1>16. ASSUME NEW c \in Conn, NEW a \in AgentId, RegisterAgent(c, a) PROVE WaiterHasOwner'
  BY <1>16 DEF RegisterAgent, RemoveTasks, TasksOf, ConnGoTo
<1>17. ASSUME NEW c \in Conn, NEW t \in TaskId, ResolveOrphan(c, t) PROVE WaiterHasOwner'
  BY <1>17 DEF ResolveOrphan, ResolveTaskWaiter, TakeWaiter
<1>18. ASSUME NEW c \in Conn, NEW t \in TaskId, NEW s \in {"ok", "err"},
             ReceiveTaskStatus(c, t, s) PROVE WaiterHasOwner'
  BY <1>18 DEF ReceiveTaskStatus, ConnGoTo
<1>19. ASSUME NEW c \in Conn, RejectHello(c) PROVE WaiterHasOwner'
  BY <1>19 DEF RejectHello, ConnGoTo
<1>20. ASSUME NEW c \in Conn, SendHelloOk(c) PROVE WaiterHasOwner'
  BY <1>20 DEF SendHelloOk, ConnGoTo
<1>21. ASSUME NEW c \in Conn, RemoveReportedTask(c) PROVE WaiterHasOwner'
  BY <1>21 DEF RemoveReportedTask, RemoveTask, RemoveTasks, ConnGoTo
<1>22. ASSUME NEW c \in Conn, SettleReportedTask(c) PROVE WaiterHasOwner'
  BY <1>22 DEF SettleReportedTask, ResolveTaskWaiter, TakeWaiter, ConnGoTo
<1>23. ASSUME NEW c \in Conn, HeartbeatPing(c) PROVE WaiterHasOwner'
  BY <1>23 DEF HeartbeatPing, ConnGoTo
<1>24. ASSUME NEW c \in Conn, HeartbeatTimeout(c) PROVE WaiterHasOwner'
  BY <1>24 DEF HeartbeatTimeout, ConnGoTo
<1>25. ASSUME NEW c \in Conn, SendPing(c) PROVE WaiterHasOwner'
  BY <1>25 DEF SendPing, ConnGoTo
<1>26. ASSUME NEW c \in Conn, LeaveLoop(c) PROVE WaiterHasOwner'
  BY <1>26 DEF LeaveLoop, ConnGoTo
<1>27. ASSUME NEW c \in Conn, ReadError(c) PROVE WaiterHasOwner'
  BY <1>27 DEF ReadError, ConnGoTo
<1>28. ASSUME NEW c \in Conn, UnregisterAgent(c) PROVE WaiterHasOwner'
  BY <1>28 DEF UnregisterAgent, RemoveTasks, TasksOf, ConnGoTo
<1>29. ASSUME NEW c \in Conn, FinishUnregister(c) PROVE WaiterHasOwner'
  BY <1>29 DEF FinishUnregister, ConnGoTo
<1>30. CASE
         \/ \E c \in Conn :
              \/ WriterStalls(c) \/ WriterDrains(c) \/ WriterFails(c)
              \/ GoSilent(c)
  <2>1. UNCHANGED <<tasks, waiters, answer, reqTask, reqPc, orphans, connPc, report>>
    BY <1>30 DEF GoSilent, SetWriter, WriterDrains, WriterFails, WriterStalls
  <2> QED
    BY <2>1
<1>31. CASE UNCHANGED vars
  BY <1>31 DEF vars
<1> HIDE DEF TypeOK, Types, LocalsSet, TaskReport, Done, Routed, ResolverInFlight, WaiterInv,
     OrphansScoped, IdleOwnsNothing, RoutedWaiterReachable, WaiterHasOwner, regVars, waitVars, reqVars, connVars
<1> QED
  BY <1>1, <1>2, <1>3, <1>4, <1>5, <1>6, <1>7, <1>8, <1>9, <1>10, <1>11,
     <1>12, <1>13, <1>14, <1>15, <1>16, <1>17, <1>18, <1>19, <1>20,
     <1>21, <1>22, <1>23, <1>24, <1>25, <1>26, <1>27, <1>28, <1>29,
     <1>30, <1>31
  DEF Next, ClientStep, RequestStep, PeerStep, ConnStep

(* The four parts of WaiterInv together. *)
LEMMA WaiterStep == TypeOK /\ WaiterInv /\ [Next]_vars => WaiterInv'
  BY ScopedStep, IdleStep, ReachableStep, OwnerStep DEF WaiterInv

(* CONTROL_TASK_COUNTER hands out no id twice, so a generated id has one request. *)
LEMMA OnceStep == TypeOK /\ PrivateInv /\ [Next]_vars => GeneratedOnce'
<1> SUFFICES ASSUME TypeOK, PrivateInv, [Next]_vars PROVE GeneratedOnce'
  OBVIOUS
<1> USE RegistryAssumption DEF TypeOK, Types, Private, GeneratedOnce, PrivateInv,
      regVars, waitVars, reqVars, connVars
<1>1. ASSUME NEW r \in Request, NEW t \in TaskId, NEW m \in SUBSET AgentId,
             SubscribeSupplied(r, t, m) PROVE GeneratedOnce'
  BY <1>1 DEF SubscribeSupplied, Subscribe, GoTo
<1>2. ASSUME NEW r \in Request, NEW t \in TaskId, NEW m \in SUBSET AgentId,
             SubscribeGenerated(r, t, m) PROVE GeneratedOnce'
  BY <1>2 DEF SubscribeGenerated, Subscribe, GoTo
<1>3. CASE
         \/ \E r \in Request : RejectPayload(r)
         \/ \E r \in Request : SelectSpeakerAgent(r)
         \/ \E r \in Request : RegisterTask(r)
         \/ \E r \in Request : SendStart(r)
         \/ \E r \in Request : RemoveUndeliveredTask(r)
         \/ \E r \in Request : LookupTask(r)
         \/ \E r \in Request : ResolveCommandTx(r)
         \/ \E r \in Request : SendCommand(r)
         \/ \E r \in Request : AbortTask(r)
         \/ \E r \in Request : SettleAborted(r)
         \/ \E r \in Request : ReceiveAnswer(r)
         \/ \E r \in Request : AnswerTimeout(r)
         \/ \E r \in Request : Unsubscribe(r)
         \/ \E c \in Conn, a \in AgentId : RegisterAgent(c, a)
         \/ \E c \in Conn, t \in TaskId : ResolveOrphan(c, t)
         \/ \E c \in Conn, t \in TaskId, s \in {"ok", "err"} : ReceiveTaskStatus(c, t, s)
         \/ \E c \in Conn :
              \/ RejectHello(c) \/ SendHelloOk(c) \/ RemoveReportedTask(c)
              \/ SettleReportedTask(c) \/ HeartbeatPing(c) \/ HeartbeatTimeout(c)
              \/ SendPing(c) \/ LeaveLoop(c) \/ ReadError(c)
              \/ UnregisterAgent(c) \/ FinishUnregister(c) \/ WriterStalls(c)
              \/ WriterDrains(c) \/ WriterFails(c) \/ GoSilent(c)
  <2>1. UNCHANGED <<reqTask, issued>>
    BY <1>3 DEF AbortTask, AnswerTimeout, FinishUnregister, GoSilent, GoTo,
           HeartbeatPing, HeartbeatTimeout, Hold, LeaveLoop, LookupTask,
           ReadError, ReceiveAnswer, ReceiveTaskStatus, RegisterAgent,
           RegisterTask, RejectHello, RejectPayload, RemoveReportedTask,
           RemoveTask, RemoveTaskWaiter, RemoveTasks,
           RemoveUndeliveredTask, ResolveCommandTx, ResolveOrphan,
           Return, SelectSpeakerAgent, SendCommand, SendHelloOk,
           SendPing, SendStart, SetWriter, SettleAborted,
           SettleReportedTask, TasksOf, UnregisterAgent, Unsubscribe,
           WriterDrains, WriterFails, WriterStalls
  <2> QED
    BY <2>1
<1>4. CASE UNCHANGED vars
  BY <1>4 DEF vars
<1> HIDE DEF TypeOK, Types, Private, GeneratedOnce, PrivateInv, regVars, waitVars, reqVars, connVars
<1> QED
  BY <1>1, <1>2, <1>3, <1>4
  DEF Next, ClientStep, RequestStep, PeerStep, ConnStep

(* Nobody but its own request, or a resolver that answers it, takes the waiter of
   a generated id. *)
LEMMA KeptStep == TypeOK /\ WaiterInv /\ PrivateInv /\ [Next]_vars => PrivateWaiterKept'
<1> SUFFICES ASSUME TypeOK, WaiterInv, PrivateInv, [Next]_vars PROVE PrivateWaiterKept'
  OBVIOUS
<1> USE RegistryAssumption DEF TypeOK, Types, LocalsSet, TaskReport, Done, Private, GeneratedOnce, PrivateWaiterKept,
      PrivateInv, WaiterInv, WaiterHasOwner, IdleOwnsNothing, regVars, waitVars, reqVars, connVars
<1>1. ASSUME NEW r \in Request, NEW t \in TaskId, NEW m \in SUBSET AgentId,
             SubscribeSupplied(r, t, m) PROVE PrivateWaiterKept'
  BY <1>1 DEF SubscribeSupplied, Subscribe, GoTo
<1>2. ASSUME NEW r \in Request, NEW t \in TaskId, NEW m \in SUBSET AgentId,
             SubscribeGenerated(r, t, m) PROVE PrivateWaiterKept'
  BY <1>2 DEF SubscribeGenerated, Subscribe, GoTo
<1>3. ASSUME NEW r \in Request, RejectPayload(r) PROVE PrivateWaiterKept'
  BY <1>3 DEF RejectPayload, GoTo
<1>4. ASSUME NEW r \in Request, SelectSpeakerAgent(r) PROVE PrivateWaiterKept'
  BY <1>4 DEF SelectSpeakerAgent, Hold, GoTo
<1>5. ASSUME NEW r \in Request, RegisterTask(r) PROVE PrivateWaiterKept'
  <2>1. CASE tasks[reqTask[r]] = None
    BY <1>5, <2>1 DEF RegisterTask, Hold, GoTo
  <2>2. CASE tasks[reqTask[r]] # None
    BY <1>5, <2>2 DEF RegisterTask, Hold, GoTo
  <2> QED
    BY <2>1, <2>2
<1>6. ASSUME NEW r \in Request, SendStart(r) PROVE PrivateWaiterKept'
  BY <1>6 DEF SendStart, Hold, GoTo
<1>7. ASSUME NEW r \in Request, RemoveUndeliveredTask(r) PROVE PrivateWaiterKept'
  BY <1>7 DEF RemoveUndeliveredTask, RemoveTask, RemoveTasks, GoTo
<1>8. ASSUME NEW r \in Request, LookupTask(r) PROVE PrivateWaiterKept'
  <2>1. CASE tasks[reqTask[r]] = None
    BY <1>8, <2>1 DEF LookupTask, Return, Hold, GoTo
  <2>2. CASE tasks[reqTask[r]] # None
    BY <1>8, <2>2 DEF LookupTask, Return, Hold, GoTo
  <2> QED
    BY <2>1, <2>2
<1>9. ASSUME NEW r \in Request, ResolveCommandTx(r) PROVE PrivateWaiterKept'
  BY <1>9 DEF ResolveCommandTx, Hold, GoTo
<1>10. ASSUME NEW r \in Request, SendCommand(r) PROVE PrivateWaiterKept'
  <2>1. CASE writer[reqConn[r]] = "down"
    BY <1>10, <2>1 DEF SendCommand, Hold, GoTo
  <2>2. CASE writer[reqConn[r]] # "down" /\ chunks[r] > 0
    BY <1>10, <2>2 DEF SendCommand, Hold, GoTo
  <2>3. CASE writer[reqConn[r]] # "down" /\ ~(chunks[r] > 0)
    BY <1>10, <2>3 DEF SendCommand, Hold, GoTo
  <2> QED
    BY <2>1, <2>2, <2>3
<1>11. ASSUME NEW r \in Request, AbortTask(r) PROVE PrivateWaiterKept'
  BY <1>11 DEF AbortTask, RemoveTask, RemoveTasks, GoTo
<1>12. ASSUME NEW r \in Request, SettleAborted(r) PROVE PrivateWaiterKept'
  BY <1>12 DEF SettleAborted, ResolveTaskWaiter, TakeWaiter, Return, Hold, GoTo
<1>13. ASSUME NEW r \in Request, ReceiveAnswer(r) PROVE PrivateWaiterKept'
  BY <1>13 DEF ReceiveAnswer, Return, Hold, GoTo
<1>14. ASSUME NEW r \in Request, AnswerTimeout(r) PROVE PrivateWaiterKept'
  BY <1>14 DEF AnswerTimeout, GoTo
<1>15. ASSUME NEW r \in Request, Unsubscribe(r) PROVE PrivateWaiterKept'
  BY <1>15 DEF Unsubscribe, RemoveTaskWaiter, TakeWaiter, Return, Hold, GoTo
<1>16. ASSUME NEW c \in Conn, NEW t \in TaskId, ResolveOrphan(c, t) PROVE PrivateWaiterKept'
  BY <1>16 DEF ResolveOrphan, ResolveTaskWaiter, TakeWaiter
<1>17. ASSUME NEW c \in Conn, SettleReportedTask(c) PROVE PrivateWaiterKept'
  BY <1>17 DEF SettleReportedTask, ResolveTaskWaiter, TakeWaiter, ConnGoTo
<1>18. CASE
         \/ \E c \in Conn, a \in AgentId : RegisterAgent(c, a)
         \/ \E c \in Conn, t \in TaskId, s \in {"ok", "err"} : ReceiveTaskStatus(c, t, s)
         \/ \E c \in Conn :
              \/ RejectHello(c) \/ SendHelloOk(c) \/ RemoveReportedTask(c)
              \/ HeartbeatPing(c) \/ HeartbeatTimeout(c) \/ SendPing(c)
              \/ LeaveLoop(c) \/ ReadError(c) \/ UnregisterAgent(c)
              \/ FinishUnregister(c) \/ WriterStalls(c) \/ WriterDrains(c)
              \/ WriterFails(c) \/ GoSilent(c)
  <2>1. UNCHANGED <<waiters, reqTask, reqPc, answer>>
    BY <1>18 DEF FinishUnregister, GoSilent, HeartbeatPing, HeartbeatTimeout,
           LeaveLoop, ReadError, ReceiveTaskStatus, RegisterAgent,
           RejectHello, RemoveReportedTask, RemoveTask, RemoveTasks,
           SendHelloOk, SendPing, SetWriter, TasksOf, UnregisterAgent,
           WriterDrains, WriterFails, WriterStalls
  <2> QED
    BY <2>1
<1>19. CASE UNCHANGED vars
  BY <1>19 DEF vars
<1> HIDE DEF TypeOK, Types, LocalsSet, TaskReport, Done, Private, GeneratedOnce, PrivateWaiterKept,
      PrivateInv, WaiterInv, WaiterHasOwner, IdleOwnsNothing, regVars, waitVars, reqVars, connVars
<1> QED
  BY <1>1, <1>2, <1>3, <1>4, <1>5, <1>6, <1>7, <1>8, <1>9, <1>10, <1>11,
     <1>12, <1>13, <1>14, <1>15, <1>16, <1>17, <1>18, <1>19
  DEF Next, ClientStep, RequestStep, PeerStep, ConnStep

-----------------------------------------------------------------------------
(* The gateway starts with empty maps and no handler running. *)
LEMMA InitInv == Init => IInv
<1> SUFFICES ASSUME Init PROVE IInv
  OBVIOUS
<1> USE RegistryAssumption DEF Init
<1>1. TypeOK
  BY DEF TypeOK, Types, LocalsSet, TaskReport
<1>2. RouteHasOwner /\ RegistrationIsServed
  BY DEF RouteHasOwner, RegistrationIsServed
<1>3. WaiterInv
  BY DEF WaiterInv, OrphansScoped, IdleOwnsNothing, RoutedWaiterReachable, WaiterHasOwner
<1>4. PrivateInv
  BY DEF PrivateInv, GeneratedOnce, PrivateWaiterKept, Private, TaskId
<1> QED
  BY <1>1, <1>2, <1>3, <1>4 DEF IInv

(* Every critical section preserves the conjunction. *)
LEMMA InvStep == IInv /\ [Next]_vars => IInv'
  BY TypeStep, RouteStep, ServedStep, WaiterStep, OnceStep, KeptStep DEF IInv, PrivateInv

(* IInv is an inductive invariant of the specification. *)
LEMMA Inductive == Spec => []IInv
  BY InitInv, InvStep, PTL DEF Spec

(* Every field of the registry and every handler local keeps its Rust type, for
   any number of agents, connections, requests and ids. *)
THEOREM TypeCorrect == Spec => []TypeOK
<1>1. IInv => TypeOK
  BY DEF IInv
<1> QED
  BY <1>1, Inductive, PTL

(* A route to an unregistered agent exists only while the request that made or
   follows it is about to remove it: select_speaker_agent, register_task and
   unregister_agent may interleave in any way. *)
THEOREM RoutesLeadToAgents == Spec => []RouteHasOwner
<1>1. IInv => RouteHasOwner
  BY DEF IInv
<1> QED
  BY <1>1, Inductive, PTL

(* No handle_agent_connection that ran its unregister_agent leaves its own
   command_tx registered, whatever reconnects overlap with it. *)
THEOREM RegistrationsAreServed == Spec => []RegistrationIsServed
<1>1. IInv => RegistrationIsServed
  BY DEF IInv
<1> QED
  BY <1>1, Inductive, PTL

(* task_waiters does not leak: a waiter belongs to an unanswered request that is
   still served, or some handler is about to take it out. *)
THEOREM WaitersHaveOwners == Spec => []WaiterHasOwner
<1>1. IInv => WaiterHasOwner
  BY DEF IInv, WaiterInv
<1> QED
  BY <1>1, Inductive, PTL

(* A request that waits under a generated task_id can always still be reached
   by a task.status, by the loss of its agent, or by a resolver under way. *)
THEOREM WaitingIsNotStranded == Spec => []NotStranded
<1>1. IInv => NotStranded
  <2> SUFFICES ASSUME IInv, NEW r \in Request, reqPc[r] = "wait", answer[r] = "pending",
                      reqTask[r] \in GeneratedId \ SuppliedId
               PROVE  /\ waiters[reqTask[r]] = r
                      /\ tasks[reqTask[r]] # None \/ ResolverInFlight(reqTask[r])
    BY DEF NotStranded
  <2>1. waiters[reqTask[r]] = r
    BY DEF IInv, PrivateInv, PrivateWaiterKept, Private, Done
  <2>2. tasks[reqTask[r]] # None \/ ResolverInFlight(reqTask[r])
    BY <2>1 DEF IInv, WaiterInv, RoutedWaiterReachable, Routed, TaskId
  <2> QED
    BY <2>1, <2>2
<1> QED
  BY <1>1, Inductive, PTL
=============================================================================
