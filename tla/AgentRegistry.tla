--------------------------- MODULE AgentRegistry ---------------------------
(***************************************************************************)
(* The gateway's agent registry: the /agent connections that register and  *)
(* unregister agents, and the /control play_audio requests that route a    *)
(* playback task to a registered speaker agent and wait for its outcome.   *)
(*                                                                         *)
(* The registry keeps two maps behind two locks that are never held        *)
(* together here: device_registry.inner (agents and tasks) and             *)
(* task_waiters.  One action is one critical section of one of these locks *)
(* or one send on an agent's command channel: everything a handler does    *)
(* between two `.await`s that touch shared state.                          *)
(***************************************************************************)
EXTENDS Naturals, FiniteSets

CONSTANTS
  AgentId,      \* agent_id values agents announce in agent.hello
  Conn,         \* /agent WebSocket connections, each used once
  Request,      \* control play_audio requests, each on a /control connection
  SuppliedId,   \* task_ids that clients choose themselves
  GeneratedId,  \* task_ids handed out by next_control_task_id
  MaxChunks,    \* bound: audio chunks of one request
  FlakyConn,    \* bound: the connections whose peer may stop reading or sending
  None          \* "no entry" in a map

TaskId == SuppliedId \cup GeneratedId

ASSUME RegistryAssumption ==
  /\ None \notin AgentId \cup Conn \cup Request \cup TaskId
  /\ MaxChunks \in Nat \ {0}
  /\ FlakyConn \subseteq Conn

VARIABLES
  agents,     \* device_registry.inner.agents: the connection whose command_tx is registered
  tasks,      \* device_registry.inner.tasks: the agent a task is routed to
  waiters,    \* task_waiters: the request that holds the oneshot receiver
  answer,     \* what each request's oneshot receiver will yield
  issued,     \* ids CONTROL_TASK_COUNTER has handed out
  reqPc,      \* where each handle_control_play_audio call is
  reqTask,    \* its task_id
  matching,   \* the agents whose kind, capabilities and ids match its filters
  reqAgent,   \* the agent_id it selected or looked up last
  reqConn,    \* the command_tx clone it holds
  chunks,     \* chunks it still has to send
  connPc,     \* where each handle_agent_connection call is
  connAgent,  \* the agent_id of its hello
  orphans,    \* orphaned_task_ids it still has to resolve
  report,     \* the terminal task.status it is handling
  writer,     \* its command channel: "up", "stalled" (full) or "down" (receiver dropped)
  silent      \* the peer will send no further frame

regVars  == <<agents, tasks>>
waitVars == <<waiters, answer>>
reqVars  == <<issued, reqPc, reqTask, matching, reqAgent, reqConn, chunks>>
connVars == <<connPc, connAgent, orphans, report, writer, silent>>
vars     == <<regVars, waitVars, reqVars, connVars>>

Done == {"accepted", "failed"}

TaskReport == [task : TaskId, state : {"ok", "err"}]

\* The locals a handler is about to use have been set.
LocalsSet ==
  /\ \A r \in Request :
       /\ reqPc[r] \notin {"idle", "failed"} => reqTask[r] \in TaskId
       /\ reqPc[r] \in {"register", "start", "resolve"} => reqAgent[r] \in AgentId
       /\ reqPc[r] \in {"register", "start", "send"} => reqConn[r] \in Conn
  /\ \A c \in Conn :
       /\ connPc[c] \notin {"new", "closed"} => connAgent[c] \in AgentId
       /\ connPc[c] \in {"untask", "settle"} => report[c] \in TaskReport

Types ==
  /\ agents \in [AgentId -> Conn \cup {None}]
  /\ tasks \in [TaskId -> AgentId \cup {None}]
  /\ waiters \in [TaskId -> Request \cup {None}]
  /\ answer \in [Request -> {"pending", "ok", "err", "dropped"}]
  /\ issued \in SUBSET GeneratedId
  /\ reqPc \in [Request -> {"idle", "select", "register", "start", "unroute",
                            "lookup", "resolve", "send", "abort", "settle",
                            "wait", "unsubscribe"} \cup Done]
  /\ reqTask \in [Request -> TaskId \cup {None}]
  /\ matching \in [Request -> SUBSET AgentId]
  /\ reqAgent \in [Request -> AgentId \cup {None}]
  /\ reqConn \in [Request -> Conn \cup {None}]
  /\ chunks \in [Request -> 0..MaxChunks]
  /\ connPc \in [Conn -> {"new", "registering", "open", "untask", "settle",
                          "pinging", "leaving", "unregistering", "closed",
                          "abandoned"}]
  /\ connAgent \in [Conn -> AgentId \cup {None}]
  /\ orphans \in [Conn -> SUBSET TaskId]
  /\ report \in [Conn -> TaskReport \cup {None}]
  /\ writer \in [Conn -> {"up", "stalled", "down"}]
  /\ silent \in [Conn -> BOOLEAN]

(* Every variable holds a value of its Rust type, and no handler step uses a
   local (task_id, agent, command_tx, status) before it is bound. *)
TypeOK == Types /\ LocalsSet

Init ==
  /\ agents = [a \in AgentId |-> None]
  /\ tasks = [t \in TaskId |-> None]
  /\ waiters = [t \in TaskId |-> None]
  /\ answer = [r \in Request |-> "pending"]
  /\ issued = {}
  /\ reqPc = [r \in Request |-> "idle"]
  /\ reqTask = [r \in Request |-> None]
  /\ matching = [r \in Request |-> {}]
  /\ reqAgent = [r \in Request |-> None]
  /\ reqConn = [r \in Request |-> None]
  /\ chunks = [r \in Request |-> 0]
  /\ connPc = [c \in Conn |-> "new"]
  /\ connAgent = [c \in Conn |-> None]
  /\ orphans = [c \in Conn |-> {}]
  /\ report = [c \in Conn |-> None]
  /\ writer = [c \in Conn |-> "up"]
  /\ silent = [c \in Conn |-> FALSE]

-----------------------------------------------------------------------------
(* Critical sections shared by several handlers.                           *)

GoTo(r, pc)     == reqPc' = [reqPc EXCEPT ![r] = pc]
ConnGoTo(c, pc) == connPc' = [connPc EXCEPT ![c] = pc]

\* r keeps agent id a and a clone of c's command_tx until they go out of scope.
Hold(r, a, c) ==
  /\ reqAgent' = [reqAgent EXCEPT ![r] = a]
  /\ reqConn' = [reqConn EXCEPT ![r] = c]

\* handle_control_play_audio returns and its locals are dropped.
Return(r, pc) ==
  /\ GoTo(r, pc)
  /\ Hold(r, None, None)
  /\ chunks' = [chunks EXCEPT ![r] = 0]

TasksOf(a) == {t \in TaskId : tasks[t] = a}

\* Takes the tasks ts out of the routing table.
RemoveTasks(ts) == tasks' = [t \in TaskId |-> IF t \in ts THEN None ELSE tasks[t]]

\* remove_task
RemoveTask(t) == RemoveTasks({t})

\* Takes the waiter of t out of task_waiters; its receiver then yields v.
TakeWaiter(t, v) ==
  /\ waiters' = [waiters EXCEPT ![t] = None]
  /\ answer' = [r \in Request |-> IF waiters[t] = r THEN v ELSE answer[r]]

\* resolve_task_waiter: remove the sender, then send the result on it.
ResolveTaskWaiter(t, v) == TakeWaiter(t, v)

\* remove_task_waiter: the sender is dropped, so its receiver yields an error.
RemoveTaskWaiter(t) == TakeWaiter(t, "dropped")

-----------------------------------------------------------------------------
(* Faulty variants of the actions below.  No specification uses them; each    *)
(* is a plausible slip that one of the properties exists to exclude.          *)

\* The timeout branch returns without remove_task_waiter.
AnswerTimeoutLeavesWaiter(r) ==
  /\ reqPc[r] = "wait"
  /\ answer[r] = "pending"
  /\ Return(r, "failed")
  /\ UNCHANGED <<regVars, waitVars, issued, reqTask, matching, connVars>>

\* The timeout is armed only while no agent holds the task.
AnswerTimeoutUnrouted(r) ==
  /\ reqPc[r] = "wait"
  /\ answer[r] = "pending"
  /\ tasks[reqTask[r]] = None
  /\ GoTo(r, "unsubscribe")
  /\ UNCHANGED <<regVars, waitVars, issued, reqTask, matching, reqAgent, reqConn,
                 chunks, connVars>>

\* The route is dropped with the last command instead of with the status.
SendCommandDropsRoute(r) ==
  /\ reqPc[r] = "send"
  /\ writer[reqConn[r]] # "stalled"
  /\ IF writer[reqConn[r]] = "down"
       THEN GoTo(r, "abort") /\ UNCHANGED <<chunks, tasks>>
       ELSE IF chunks[r] > 0
         THEN /\ chunks' = [chunks EXCEPT ![r] = @ - 1]
              /\ GoTo(r, "lookup") /\ UNCHANGED tasks
         ELSE GoTo(r, "wait") /\ RemoveTask(reqTask[r]) /\ UNCHANGED chunks
  /\ Hold(r, None, None)
  /\ UNCHANGED <<agents, waitVars, issued, reqTask, matching, connVars>>

\* The heartbeat spares an agent that still has tasks.
HeartbeatTimeoutWhenIdle(c) ==
  /\ connPc[c] = "open"
  /\ silent[c]
  /\ TasksOf(connAgent[c]) = {}
  /\ ConnGoTo(c, "leaving")
  /\ UNCHANGED <<regVars, waitVars, reqVars, connAgent, orphans, report, writer, silent>>

\* unregister_agent without remove_agent_tasks_locked.
UnregisterKeepsRoutes(c) ==
  /\ connPc[c] = "leaving"
  /\ agents' = [agents EXCEPT ![connAgent[c]] = None]
  /\ ConnGoTo(c, "unregistering")
  /\ UNCHANGED <<tasks, waitVars, reqVars, connAgent, orphans, report, writer, silent>>

\* unregister_agent that skips an agent with active tasks.
UnregisterOnlyIdleAgent(c) ==
  /\ connPc[c] = "leaving"
  /\ agents' = IF TasksOf(connAgent[c]) = {}
                 THEN [agents EXCEPT ![connAgent[c]] = None] ELSE agents
  /\ ConnGoTo(c, "unregistering")
  /\ UNCHANGED <<tasks, waitVars, reqVars, connAgent, orphans, report, writer, silent>>

-----------------------------------------------------------------------------
(* handle_control_play_audio and the route_play_audio_* calls it makes.    *)

\* subscribe_task_waiter: inserting replaces, and so drops, an earlier waiter.
Subscribe(r, t, m) ==
  /\ reqPc[r] = "idle"
  /\ waiters' = [waiters EXCEPT ![t] = r]
  /\ answer' = [q \in Request |-> IF waiters[t] = q THEN "dropped" ELSE answer[q]]
  /\ reqTask' = [reqTask EXCEPT ![r] = t]
  /\ matching' = [matching EXCEPT ![r] = m]
  /\ \E n \in 1..MaxChunks : chunks' = [chunks EXCEPT ![r] = n]
  /\ GoTo(r, "select")
  /\ UNCHANGED <<regVars, reqAgent, reqConn, connVars>>

SubscribeSupplied(r, t, m) ==
  /\ t \in SuppliedId
  /\ Subscribe(r, t, m)
  /\ UNCHANGED issued

\* next_control_task_id: a fetch_add never returns the same id twice.
SubscribeGenerated(r, t, m) ==
  /\ t \in GeneratedId \ issued
  /\ issued' = issued \cup {t}
  /\ Subscribe(r, t, m)

\* audio_base64 does not decode, or decodes to nothing.
RejectPayload(r) ==
  /\ reqPc[r] = "idle"
  /\ GoTo(r, "failed")
  /\ UNCHANGED <<regVars, waitVars, issued, reqTask, matching, reqAgent, reqConn,
                 chunks, connVars>>

\* select_speaker_agent: any registered agent that matches (HashMap order).
SelectSpeakerAgent(r) ==
  /\ reqPc[r] = "select"
  /\ \/ \E a \in matching[r] :
          /\ agents[a] # None
          /\ Hold(r, a, agents[a])
          /\ GoTo(r, "register")
     \/ /\ \A a \in matching[r] : agents[a] = None
        /\ GoTo(r, "unsubscribe")
        /\ UNCHANGED <<reqAgent, reqConn>>
  /\ matching' = [matching EXCEPT ![r] = {}]
  /\ UNCHANGED <<regVars, waitVars, issued, reqTask, chunks, connVars>>

\* register_task: refused while the task_id is active.  The agent selected
\* under the previous lock is not looked up again.
RegisterTask(r) ==
  /\ reqPc[r] = "register"
  /\ IF tasks[reqTask[r]] = None
       THEN /\ tasks' = [tasks EXCEPT ![reqTask[r]] = reqAgent[r]]
            /\ GoTo(r, "start")
            /\ UNCHANGED <<reqAgent, reqConn>>
       ELSE /\ GoTo(r, "unsubscribe")
            /\ Hold(r, None, None)
            /\ UNCHANGED tasks
  /\ UNCHANGED <<agents, waitVars, issued, reqTask, matching, chunks, connVars>>

\* command_tx.send(TaskPlayAudioStart): waits while the channel is full.
SendStart(r) ==
  /\ reqPc[r] = "start"
  /\ writer[reqConn[r]] # "stalled"
  /\ GoTo(r, IF writer[reqConn[r]] = "up" THEN "lookup" ELSE "unroute")
  /\ Hold(r, None, None)
  /\ UNCHANGED <<regVars, waitVars, issued, reqTask, matching, chunks, connVars>>

\* The start could not be delivered: remove_task, then remove_task_waiter.
RemoveUndeliveredTask(r) ==
  /\ reqPc[r] = "unroute"
  /\ RemoveTask(reqTask[r])
  /\ GoTo(r, "unsubscribe")
  /\ UNCHANGED <<agents, waitVars, issued, reqTask, matching, reqAgent, reqConn,
                 chunks, connVars>>

\* task_agent_id, first lock of route_play_audio_chunk and _finish.
LookupTask(r) ==
  /\ reqPc[r] = "lookup"
  /\ IF tasks[reqTask[r]] = None
       THEN Return(r, "failed")
       ELSE /\ Hold(r, tasks[reqTask[r]], None)
            /\ GoTo(r, "resolve")
            /\ UNCHANGED chunks
  /\ UNCHANGED <<regVars, waitVars, issued, reqTask, matching, connVars>>

\* agent_command_tx, their second lock.
ResolveCommandTx(r) ==
  /\ reqPc[r] = "resolve"
  /\ Hold(r, None, agents[reqAgent[r]])
  /\ GoTo(r, IF agents[reqAgent[r]] = None THEN "abort" ELSE "send")
  /\ UNCHANGED <<regVars, waitVars, issued, reqTask, matching, chunks, connVars>>

\* command_tx.send(chunk or, once all chunks are out, finish).
SendCommand(r) ==
  /\ reqPc[r] = "send"
  /\ writer[reqConn[r]] # "stalled"
  /\ IF writer[reqConn[r]] = "down"
       THEN /\ GoTo(r, "abort")
            /\ UNCHANGED chunks
       ELSE IF chunks[r] > 0
         THEN /\ chunks' = [chunks EXCEPT ![r] = @ - 1]
              /\ GoTo(r, "lookup")
         ELSE /\ GoTo(r, "wait")
              /\ UNCHANGED chunks
  /\ Hold(r, None, None)
  /\ UNCHANGED <<regVars, waitVars, issued, reqTask, matching, connVars>>

\* The agent is gone: remove_task, then resolve_task_waiter with an error.
AbortTask(r) ==
  /\ reqPc[r] = "abort"
  /\ RemoveTask(reqTask[r])
  /\ GoTo(r, "settle")
  /\ UNCHANGED <<agents, waitVars, issued, reqTask, matching, reqAgent, reqConn,
                 chunks, connVars>>

SettleAborted(r) ==
  /\ reqPc[r] = "settle"
  /\ ResolveTaskWaiter(reqTask[r], "err")
  /\ Return(r, "failed")
  /\ UNCHANGED <<regVars, issued, reqTask, matching, connVars>>

\* The oneshot receiver yields: play_audio.accepted, or the error.
ReceiveAnswer(r) ==
  /\ reqPc[r] = "wait"
  /\ answer[r] # "pending"
  /\ Return(r, IF answer[r] = "ok" THEN "accepted" ELSE "failed")
  /\ UNCHANGED <<regVars, waitVars, issued, reqTask, matching, connVars>>

\* CONTROL_PLAY_AUDIO_TIMEOUT: only the waiter is removed, the route stays.
AnswerTimeout(r) ==
  /\ reqPc[r] = "wait"
  /\ answer[r] = "pending"
  /\ GoTo(r, "unsubscribe")
  /\ UNCHANGED <<regVars, waitVars, issued, reqTask, matching, reqAgent, reqConn,
                 chunks, connVars>>

Unsubscribe(r) ==
  /\ reqPc[r] = "unsubscribe"
  /\ RemoveTaskWaiter(reqTask[r])
  /\ Return(r, "failed")
  /\ UNCHANGED <<regVars, issued, reqTask, matching, connVars>>

-----------------------------------------------------------------------------
(* handle_agent_connection and the registry calls it makes.                *)

\* The first frame is not agent.hello, or the shared secret is wrong.
RejectHello(c) ==
  /\ connPc[c] = "new"
  /\ ConnGoTo(c, "closed")
  /\ UNCHANGED <<regVars, waitVars, reqVars, connAgent, orphans, report, writer, silent>>

\* device_registry.register_agent: replaces an earlier registration of the
\* same agent_id and orphans its tasks; otherwise it orphans nothing.
RegisterAgent(c, a) ==
  /\ connPc[c] = "new"
  /\ connAgent' = [connAgent EXCEPT ![c] = a]
  /\ LET orphaned == IF agents[a] # None THEN TasksOf(a) ELSE {}
     IN /\ RemoveTasks(orphaned)
        /\ orphans' = [orphans EXCEPT ![c] = orphaned]
  /\ agents' = [agents EXCEPT ![a] = c]
  /\ ConnGoTo(c, "registering")
  /\ UNCHANGED <<waitVars, reqVars, report, writer, silent>>

\* finish_agent_removal, one orphaned task at a time.
ResolveOrphan(c, t) ==
  /\ connPc[c] \in {"registering", "unregistering"}
  /\ t \in orphans[c]
  /\ ResolveTaskWaiter(t, "err")
  /\ orphans' = [orphans EXCEPT ![c] = @ \ {t}]
  /\ UNCHANGED <<regVars, reqVars, connPc, connAgent, report, writer, silent>>

\* command_tx.send(HelloOk): `?` on a dropped receiver leaves the handler
\* without unregister_agent.
SendHelloOk(c) ==
  /\ connPc[c] = "registering"
  /\ orphans[c] = {}
  /\ writer[c] # "stalled"
  /\ ConnGoTo(c, IF writer[c] = "up" THEN "open" ELSE "abandoned")
  /\ UNCHANGED <<regVars, waitVars, reqVars, connAgent, orphans, report, writer, silent>>

\* handle_agent_message(TaskStatus), Finished or Failed, for an active task.
\* A status for an unknown task, and every other message, changes nothing here.
ReceiveTaskStatus(c, t, s) ==
  /\ connPc[c] = "open"
  /\ ~silent[c]
  /\ tasks[t] # None
  /\ report' = [report EXCEPT ![c] = [task |-> t, state |-> s]]
  /\ ConnGoTo(c, "untask")
  /\ UNCHANGED <<regVars, waitVars, reqVars, connAgent, orphans, writer, silent>>

RemoveReportedTask(c) ==
  /\ connPc[c] = "untask"
  /\ RemoveTask(report[c].task)
  /\ ConnGoTo(c, "settle")
  /\ UNCHANGED <<agents, waitVars, reqVars, connAgent, orphans, report, writer, silent>>

SettleReportedTask(c) ==
  /\ connPc[c] = "settle"
  /\ ResolveTaskWaiter(report[c].task, report[c].state)
  /\ report' = [report EXCEPT ![c] = None]
  /\ ConnGoTo(c, "open")
  /\ UNCHANGED <<regVars, reqVars, connAgent, orphans, writer, silent>>

\* heartbeat.tick() with last_recv within AGENT_HEARTBEAT_TIMEOUT: the loop
\* body awaits the send of a ping before it selects again.
HeartbeatPing(c) ==
  /\ connPc[c] = "open"
  /\ ConnGoTo(c, "pinging")
  /\ UNCHANGED <<regVars, waitVars, reqVars, connAgent, orphans, report, writer, silent>>

\* heartbeat.tick() after AGENT_HEARTBEAT_TIMEOUT without a frame.
HeartbeatTimeout(c) ==
  /\ connPc[c] = "open"
  /\ silent[c]
  /\ ConnGoTo(c, "leaving")
  /\ UNCHANGED <<regVars, waitVars, reqVars, connAgent, orphans, report, writer, silent>>

SendPing(c) ==
  /\ connPc[c] = "pinging"
  /\ writer[c] # "stalled"
  /\ ConnGoTo(c, "open")
  /\ UNCHANGED <<regVars, waitVars, reqVars, connAgent, orphans, report, writer, silent>>

\* The stream ends, the peer closes, or the writer task has finished.
LeaveLoop(c) ==
  /\ connPc[c] = "open"
  /\ ConnGoTo(c, "leaving")
  /\ UNCHANGED <<regVars, waitVars, reqVars, connAgent, orphans, report, writer, silent>>

\* A read error or an undecodable frame: `?` skips unregister_agent.
ReadError(c) ==
  /\ connPc[c] = "open"
  /\ ConnGoTo(c, "abandoned")
  /\ UNCHANGED <<regVars, waitVars, reqVars, connAgent, orphans, report, writer, silent>>

\* device_registry.unregister_agent: by agent_id, whichever connection owns
\* the registration now.
UnregisterAgent(c) ==
  /\ connPc[c] = "leaving"
  /\ agents' = [agents EXCEPT ![connAgent[c]] = None]
  /\ RemoveTasks(TasksOf(connAgent[c]))
  /\ orphans' = [orphans EXCEPT ![c] = TasksOf(connAgent[c])]
  /\ ConnGoTo(c, "unregistering")
  /\ UNCHANGED <<waitVars, reqVars, connAgent, report, writer, silent>>

FinishUnregister(c) ==
  /\ connPc[c] = "unregistering"
  /\ orphans[c] = {}
  /\ ConnGoTo(c, "closed")
  /\ UNCHANGED <<regVars, waitVars, reqVars, connAgent, orphans, report, writer, silent>>

-----------------------------------------------------------------------------
(* The writer task and the peer behind the socket.                         *)

\* The writer task lives until its handler, the registry and every request
\* have dropped their command_tx.
SetWriter(c, from, to) ==
  /\ connPc[c] \notin {"new", "closed"} \/ \E r \in Request : reqConn[r] = c
  /\ writer[c] \in from
  /\ writer' = [writer EXCEPT ![c] = to]
  /\ UNCHANGED <<regVars, waitVars, reqVars, connPc, connAgent, orphans, report, silent>>

\* The peer stops reading while a request pushes commands, and all 64 slots of
\* the channel fill up; it reads again; a socket write fails and the writer
\* task drops the receiver.
WriterStalls(c) ==
  /\ c \in FlakyConn
  /\ \E r \in Request : reqConn[r] = c
  /\ SetWriter(c, {"up"}, "stalled")
WriterDrains(c) == SetWriter(c, {"stalled"}, "up")
WriterFails(c)  == SetWriter(c, {"up", "stalled"}, "down")

\* The peer will send no further frame (half-open connection).
GoSilent(c) ==
  /\ c \in FlakyConn
  /\ connPc[c] = "open"
  /\ ~silent[c]
  /\ silent' = [silent EXCEPT ![c] = TRUE]
  /\ UNCHANGED <<regVars, waitVars, reqVars, connPc, connAgent, orphans, report, writer>>

-----------------------------------------------------------------------------
RequestStep(r) ==
  \/ SelectSpeakerAgent(r)
  \/ RegisterTask(r)
  \/ SendStart(r)
  \/ RemoveUndeliveredTask(r)
  \/ LookupTask(r)
  \/ ResolveCommandTx(r)
  \/ SendCommand(r)
  \/ AbortTask(r)
  \/ SettleAborted(r)
  \/ ReceiveAnswer(r)
  \/ AnswerTimeout(r)
  \/ Unsubscribe(r)

ConnStep(c) ==
  \/ \E t \in TaskId : ResolveOrphan(c, t)
  \/ SendHelloOk(c)
  \/ RemoveReportedTask(c)
  \/ SettleReportedTask(c)
  \/ HeartbeatPing(c)
  \/ HeartbeatTimeout(c)
  \/ SendPing(c)
  \/ UnregisterAgent(c)
  \/ FinishUnregister(c)

PeerStep(c) ==
  \/ RejectHello(c)
  \/ \E a \in AgentId : RegisterAgent(c, a)
  \/ \E t \in TaskId, s \in {"ok", "err"} : ReceiveTaskStatus(c, t, s)
  \/ LeaveLoop(c)
  \/ ReadError(c)
  \/ WriterStalls(c)
  \/ WriterDrains(c)
  \/ WriterFails(c)
  \/ GoSilent(c)

ClientStep(r) ==
  \/ RejectPayload(r)
  \/ \E t \in TaskId, m \in SUBSET AgentId :
       SubscribeSupplied(r, t, m) \/ SubscribeGenerated(r, t, m)

Next ==
  \/ \E r \in Request : ClientStep(r) \/ RequestStep(r)
  \/ \E c \in Conn : PeerStep(c) \/ ConnStep(c)

Spec == Init /\ [][Next]_vars

(***************************************************************************)
(* Fairness.  Handlers are tokio tasks: an enabled step is eventually      *)
(* polled.  A send that waits for room gets SF because the channel serves  *)
(* waiting senders in order.  The interval timer keeps firing, and every   *)
(* wait for an answer is bounded by CONTROL_PLAY_AUDIO_TIMEOUT.  Nothing   *)
(* is assumed of clients or agents.                                        *)
(***************************************************************************)
FairSpec ==
  /\ Spec
  /\ \A r \in Request : SF_vars(RequestStep(r))
  /\ \A c \in Conn :
       /\ WF_vars(\/ \E t \in TaskId : ResolveOrphan(c, t)
                  \/ RemoveReportedTask(c) \/ SettleReportedTask(c)
                  \/ UnregisterAgent(c) \/ FinishUnregister(c))
       /\ SF_vars(SendHelloOk(c) \/ SendPing(c))
       /\ SF_vars(HeartbeatTimeout(c))

\* In addition, a full command channel eventually drains, unless it breaks: the
\* peer reads again, or its socket fails.  The code has no timeout on a send.
DrainingSpec ==
  /\ FairSpec
  /\ \A c \in Conn : WF_vars(WriterDrains(c))

-----------------------------------------------------------------------------
\* A step is under way that will take the waiter of t out of task_waiters.
ResolverInFlight(t) ==
  \/ \E c \in Conn : t \in orphans[c]
  \/ \E c \in Conn : connPc[c] = "settle" /\ report[c].task = t
  \/ \E r \in Request : reqPc[r] \in {"settle", "unsubscribe"} /\ reqTask[r] = t

\* r is in the part of route_play_audio_* that removes the route of t to a
\* if it finds that agent a is not registered.
WillDropRoute(r, t, a) ==
  /\ reqTask[r] = t
  /\ \/ reqPc[r] \in {"start", "unroute", "lookup", "abort"}
     \/ reqPc[r] = "resolve" /\ reqAgent[r] = a

(* A task route leads to a registered agent, unless a request that is still
   routing this task is about to find the agent gone and to remove the route:
   select_speaker_agent and register_task are two critical sections, so a
   route to an agent that unregistered in between does appear, but it never
   survives and so never blocks its task_id ("already active"). *)
RouteHasOwner ==
  \A t \in TaskId : \A a \in AgentId :
    tasks[t] = a /\ agents[a] = None =>
      \E r \in Request : WillDropRoute(r, t, a)

(* task_waiters holds no dead entry: the waiter of a task belongs to a request
   for this task that has no answer yet, and that is either still being served
   or about to be taken out by another handler. *)
WaiterHasOwner ==
  \A t \in TaskId : \A r \in Request :
    waiters[t] = r =>
      /\ reqTask[r] = t
      /\ answer[r] = "pending"
      /\ reqPc[r] \in Done => ResolverInFlight(t)

(* A request under a generated task_id that waits for its answer is not
   forgotten: its waiter is in place and either the task is still routed, so
   that a status or the loss of the agent will resolve it, or a resolver is
   under way.  (It can still time out; it cannot be stranded.) *)
NotStranded ==
  \A r \in Request :
    /\ reqPc[r] = "wait"
    /\ answer[r] = "pending"
    /\ reqTask[r] \in GeneratedId \ SuppliedId
    => /\ waiters[reqTask[r]] = r
       /\ tasks[reqTask[r]] # None \/ ResolverInFlight(reqTask[r])

(* A registration belongs to a connection handler that still runs, or to one
   that left through an error path: no handler that completed its cleanup
   leaves its command_tx in the registry. *)
RegistrationIsServed ==
  \A a \in AgentId : \A c \in Conn :
    agents[a] = c =>
      /\ connAgent[c] = a
      /\ connPc[c] \notin {"new", "unregistering", "closed"}

(* Every play_audio request that got as far as subscribing is answered. *)
EveryRequestAnswered ==
  \A r \in Request : reqPc[r] = "select" ~> reqPc[r] \in Done

(* The registry manages the connected agents (device/src/registry.rs:3): an
   agent with an open connection is registered. *)
ConnectedIsRegistered ==
  \A c \in Conn : connPc[c] = "open" => agents[connAgent[c]] # None

(* "If no frame is received from an agent within this window, drop the
   connection" (speechmeshd/src/agent.rs:30). *)
SilentAgentDropped ==
  \A c \in Conn :
    connPc[c] = "open" /\ silent[c] ~> connPc[c] \in {"leaving", "unregistering", "closed", "abandoned"}
=============================================================================
