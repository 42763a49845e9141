-------------------------- MODULE RemoteAsrSession --------------------------
(***************************************************************************)
(* ASR sessions served by a remote agent: RemoteAgentAsrBridge.start_stream, *)
(* the sessions map of AgentRegistry, forward_commands_to_agent, and the   *)
(* /agent connections that carry the agent's messages, register it and     *)
(* unregister it.  There is one agent_id; a reconnect is another           *)
(* connection of it.                                                       *)
(*                                                                         *)
(* One action is a critical section of the sessions map or of the device   *)
(* registry, with the sends that follow it on the session's own channels.  *)
(***************************************************************************)
EXTENDS Naturals, Sequences, FiniteSets

CONSTANTS
  Conn,        \* /agent connections, each used once
  Session,     \* start_stream calls, one SessionId::new() each
  MaxMessages, \* bound: agent events and client commands of one session
  None

ASSUME RemoteAssumption ==
  None \notin Conn \cup Session /\ MaxMessages \in Nat

VARIABLES
  registered, \* device_registry: the connection whose command_tx is registered
  route,      \* sessions map: "none", "pending" (started_tx present) or "started"
  ack,        \* started_rx: "pending", "ok" or "err"
  startPc,    \* where each start_stream call is, then "live", "gone" or "failed"
  via,        \* the connection whose command_tx the session uses
  forwarder,  \* forward_commands_to_agent: "none", "run", "closing" or "done"
  events,     \* what was sent on the session's event_tx
  traffic,    \* agent events and client commands so far
  agent,      \* the agent's side: "none", "asked", "on" or "off"
  connPc,     \* where each handle_agent_connection call is
  lost,       \* orphaned_sessions it still has to settle: pairs <<session, route>>
  message,    \* the agent message it is handling, or None
  writer      \* its command channel: "up", "stalled" (full) or "down" (receiver dropped)

startVars == <<startPc, via, forwarder>>
connVars  == <<connPc, lost, message>>
vars == <<registered, route, ack, events, startVars, traffic, agent, connVars, writer>>

(* Every variable holds a value of its type, and a call that has got past
   select_agent holds the command_tx of some connection. *)
TypeOK ==
  /\ registered \in Conn \cup {None}
  /\ route \in [Session -> {"none", "pending", "started"}]
  /\ ack \in [Session -> {"pending", "ok", "err"}]
  /\ startPc \in [Session -> {"idle", "register", "start", "undelivered", "wait",
                              "timeout", "live", "gone", "failed"}]
  /\ via \in [Session -> Conn \cup {None}]
  /\ forwarder \in [Session -> {"none", "run", "closing", "done"}]
  /\ events \in [Session -> Seq({"result", "error", "ended"})]
  /\ traffic \in [Session -> 0..MaxMessages]
  /\ agent \in [Session -> {"none", "asked", "on", "off"}]
  /\ connPc \in [Conn -> {"new", "claiming", "settling", "greeting", "open",
                          "leaving", "releasing", "draining", "closed", "abandoned"}]
  /\ lost \in [Conn -> SUBSET (Session \X {"pending", "started"})]
  /\ message \in [Conn -> (Session \X {"fail", "result", "error"}) \cup {None}]
  /\ writer \in [Conn -> {"up", "stalled", "down"}]
  /\ \A s \in Session : startPc[s] \notin {"idle", "failed"} => via[s] \in Conn

Init ==
  /\ registered = None
  /\ route = [s \in Session |-> "none"]
  /\ ack = [s \in Session |-> "pending"]
  /\ startPc = [s \in Session |-> "idle"]
  /\ via = [s \in Session |-> None]
  /\ forwarder = [s \in Session |-> "none"]
  /\ events = [s \in Session |-> <<>>]
  /\ traffic = [s \in Session |-> 0]
  /\ agent = [s \in Session |-> "none"]
  /\ connPc = [c \in Conn |-> "new"]
  /\ lost = [c \in Conn |-> {}]
  /\ message = [c \in Conn |-> None]
  /\ writer = [c \in Conn |-> "up"]

-----------------------------------------------------------------------------
(* Faulty variants of definitions below.  No specification uses them; each is *)
(* a plausible slip that one of the properties exists to exclude.             *)

\* Only an owed acknowledgement is answered; a started session just vanishes.
TellStartOnly(s, r, es) ==
  /\ ack' = [ack EXCEPT ![s] = IF r = "pending" THEN "err" ELSE @]
  /\ UNCHANGED events

\* Pending starts are removed from the map but not handed on.
SweepForgetsPending(c) ==
  /\ lost' = [lost EXCEPT ![c] = {<<s, "started">> : s \in {q \in Session : route[q] = "started"}}]
  /\ route' = [s \in Session |-> "none"]

\* unregister_agent collects the orphaned sessions but does not settle them.
SettleLostOnRegister(c, s, r) ==
  /\ connPc[c] = "settling"
  /\ <<s, r>> \in lost[c]
  /\ ack' = [ack EXCEPT ![s] = IF r = "pending" THEN "err" ELSE @]
  /\ events' = [events EXCEPT ![s] = @ \o (IF r = "started" THEN <<"error", "ended">> ELSE <<>>)]
  /\ lost' = [lost EXCEPT ![c] = @ \ {<<s, r>>}]
  /\ UNCHANGED <<registered, route, startVars, traffic, agent, connPc, message, writer>>

\* The missing agent is not noticed.
SelectAgentUnchecked(s) ==
  /\ startPc[s] = "idle"
  /\ startPc' = [startPc EXCEPT ![s] = "register"]
  /\ via' = [via EXCEPT ![s] = registered]
  /\ UNCHANGED <<registered, route, ack, events, forwarder, traffic, agent, connVars, writer>>

\* The wait is given up only while the agent is still there.
StartTimeoutWhileRegistered(s) ==
  /\ startPc[s] = "wait"
  /\ ack[s] = "pending"
  /\ registered # None
  /\ startPc' = [startPc EXCEPT ![s] = "timeout"]
  /\ UNCHANGED <<registered, route, ack, events, via, forwarder, traffic, agent, connVars, writer>>

\* unregister_agent without remove_orphaned_sessions.
LeaveWithoutSweep(c) ==
  /\ connPc[c] = "leaving"
  /\ connPc' = [connPc EXCEPT ![c] = "releasing"]
  /\ UNCHANGED <<registered, route, ack, events, startVars, traffic, agent, lost, message, writer>>

-----------------------------------------------------------------------------
GoTo(s, pc)     == startPc' = [startPc EXCEPT ![s] = pc]
ConnGoTo(c, pc) == connPc' = [connPc EXCEPT ![c] = pc]

\* Tells a session's owner that it failed: the start acknowledgement if it is
\* still owed, otherwise the events es.
Tell(s, r, es) ==
  IF r = "pending"
    THEN /\ ack' = [ack EXCEPT ![s] = "err"]
         /\ UNCHANGED events
    ELSE /\ events' = [events EXCEPT ![s] = @ \o (IF r = "started" THEN es ELSE <<>>)]
         /\ UNCHANGED ack

\* remove_session, then Tell (fail_session_start, route_session_ended).
RemoveSession(s, es) ==
  /\ route' = [route EXCEPT ![s] = "none"]
  /\ Tell(s, route[s], es)

\* remove_orphaned_sessions
Sweep(c) ==
  /\ lost' = [lost EXCEPT ![c] = {<<s, route[s]>> : s \in {q \in Session : route[q] # "none"}}]
  /\ route' = [s \in Session |-> "none"]

-----------------------------------------------------------------------------
(* RemoteAgentAsrBridge::start_stream.                                     *)

\* select_agent: clones the agent's record, command_tx included.
SelectAgent(s) ==
  /\ startPc[s] = "idle"
  /\ GoTo(s, IF registered = None THEN "failed" ELSE "register")
  /\ via' = [via EXCEPT ![s] = registered]
  /\ UNCHANGED <<registered, route, ack, events, forwarder, traffic, agent, connVars, writer>>

RegisterSession(s) ==
  /\ startPc[s] = "register"
  /\ route' = [route EXCEPT ![s] = "pending"]
  /\ GoTo(s, "start")
  /\ UNCHANGED <<registered, ack, events, via, forwarder, traffic, agent, connVars, writer>>

\* command_tx.send(SessionStart), then the forwarder is spawned.  The send
\* awaits room in the agent's command channel, with no timeout.
SendStart(s) ==
  /\ startPc[s] = "start"
  /\ writer[via[s]] # "stalled"
  /\ IF writer[via[s]] = "up"
       THEN /\ GoTo(s, "wait")
            /\ forwarder' = [forwarder EXCEPT ![s] = "run"]
            /\ agent' = [agent EXCEPT ![s] = "asked"]
       ELSE /\ GoTo(s, "undelivered")
            /\ UNCHANGED <<forwarder, agent>>
  /\ UNCHANGED <<registered, route, ack, events, via, traffic, connVars, writer>>

\* fail_session_start after an undelivered start or a timeout.  The agent is
\* not told: a session it has started keeps running there.
FailStart(s) ==
  /\ startPc[s] \in {"undelivered", "timeout"}
  /\ RemoveSession(s, <<"error", "ended">>)
  /\ GoTo(s, "failed")
  /\ UNCHANGED <<registered, via, forwarder, traffic, agent, connVars, writer>>

\* started_rx yields.
ReceiveAck(s) ==
  /\ startPc[s] = "wait"
  /\ ack[s] # "pending"
  /\ GoTo(s, IF ack[s] = "ok" THEN "live" ELSE "failed")
  /\ UNCHANGED <<registered, route, ack, events, via, forwarder, traffic, agent, connVars, writer>>

\* start_timeout
StartTimeout(s) ==
  /\ startPc[s] = "wait"
  /\ ack[s] = "pending"
  /\ GoTo(s, "timeout")
  /\ UNCHANGED <<registered, route, ack, events, via, forwarder, traffic, agent, connVars, writer>>

-----------------------------------------------------------------------------
(* The session's owner and forward_commands_to_agent.                      *)

\* A command of the client is forwarded, also one that was queued before the
\* handle was dropped.  The forwarder awaits room; on a closed channel it
\* reports the session as ended, but leaves its route in the map.
ForwardCommand(s) ==
  /\ startPc[s] \in {"live", "gone"}
  /\ forwarder[s] = "run"
  /\ writer[via[s]] # "stalled"
  /\ traffic[s] < MaxMessages
  /\ traffic' = [traffic EXCEPT ![s] = @ + 1]
  /\ forwarder' = [forwarder EXCEPT ![s] = IF writer[via[s]] = "up" THEN "run" ELSE "closing"]
  /\ UNCHANGED <<registered, route, ack, events, startPc, via, agent, connVars, writer>>

ReportClosed(s) ==
  /\ forwarder[s] = "closing"
  /\ events' = [events EXCEPT ![s] = @ \o <<"error", "ended">>]
  /\ forwarder' = [forwarder EXCEPT ![s] = "done"]
  /\ UNCHANGED <<registered, route, ack, startPc, via, traffic, agent, connVars, writer>>

\* The client stops the session or goes away: command_tx is dropped.
DropHandle(s) ==
  /\ startPc[s] = "live"
  /\ GoTo(s, "gone")
  /\ UNCHANGED <<registered, route, ack, events, via, forwarder, traffic, agent, connVars, writer>>

ForwarderReturns(s) ==
  /\ forwarder[s] = "run"
  /\ startPc[s] \in {"gone", "failed"}
  /\ forwarder' = [forwarder EXCEPT ![s] = "done"]
  /\ UNCHANGED <<registered, route, ack, events, startPc, via, traffic, agent, connVars, writer>>

-----------------------------------------------------------------------------
(* handle_agent_message, on the connection the session was started over.   *)

Reading(c, s) == connPc[c] = "open" /\ message[c] = None /\ via[s] = c

\* SessionStarted: mark_session_started.
AgentStarted(c, s) ==
  /\ Reading(c, s)
  /\ agent[s] = "asked"
  /\ agent' = [agent EXCEPT ![s] = "on"]
  /\ IF route[s] = "pending"
       THEN /\ route' = [route EXCEPT ![s] = "started"]
            /\ ack' = [ack EXCEPT ![s] = "ok"]
       ELSE UNCHANGED <<route, ack>>
  /\ UNCHANGED <<registered, events, startVars, traffic, connVars, writer>>

\* AsrPartial or AsrFinal: route_event clones event_tx under the lock ...
AgentResult(c, s) ==
  /\ Reading(c, s)
  /\ agent[s] = "on"
  /\ route[s] # "none"
  /\ traffic[s] < MaxMessages
  /\ traffic' = [traffic EXCEPT ![s] = @ + 1]
  /\ message' = [message EXCEPT ![c] = <<s, "result">>]
  /\ UNCHANGED <<registered, route, ack, events, startVars, agent, connPc, lost, writer>>

\* Error: is the start acknowledgement still owed?
AgentError(c, s) ==
  /\ Reading(c, s)
  /\ agent[s] \in {"asked", "on"}
  /\ route[s] # "none"
  /\ traffic[s] < MaxMessages
  /\ traffic' = [traffic EXCEPT ![s] = @ + 1]
  /\ agent' = [agent EXCEPT ![s] = IF @ = "asked" THEN "off" ELSE @]
  /\ message' = [message EXCEPT ![c] = <<s, IF route[s] = "pending" THEN "fail" ELSE "error">>]
  /\ UNCHANGED <<registered, route, ack, events, startVars, connPc, lost, writer>>

\* ... and sends on the clone; or fail_session_start.
Deliver(c, s) ==
  /\ connPc[c] = "open"
  /\ \/ /\ message[c] = <<s, "fail">>
        /\ RemoveSession(s, <<"error", "ended">>)
     \/ \E e \in {"result", "error"} :
          /\ message[c] = <<s, e>>
          /\ events' = [events EXCEPT ![s] = Append(@, e)]
          /\ UNCHANGED <<route, ack>>
  /\ message' = [message EXCEPT ![c] = None]
  /\ UNCHANGED <<registered, startVars, traffic, agent, connPc, lost, writer>>

\* SessionEnded: route_session_ended.
AgentEnded(c, s) ==
  /\ Reading(c, s)
  /\ agent[s] = "on"
  /\ agent' = [agent EXCEPT ![s] = "off"]
  /\ RemoveSession(s, <<"ended">>)
  /\ UNCHANGED <<registered, startVars, traffic, connVars, writer>>

-----------------------------------------------------------------------------
(* register_agent and unregister_agent.                                    *)

\* The orphaned sessions are collected before the registry entry changes.
SweepOnRegister(c) ==
  /\ connPc[c] = "new"
  /\ Sweep(c)
  /\ ConnGoTo(c, "claiming")
  /\ UNCHANGED <<registered, ack, events, startVars, traffic, agent, message, writer>>

Register(c) ==
  /\ connPc[c] = "claiming"
  /\ registered' = c
  /\ ConnGoTo(c, "settling")
  /\ UNCHANGED <<route, ack, events, startVars, traffic, agent, lost, message, writer>>

\* finish_agent_removal, one session at a time.
SettleLost(c, s, r) ==
  /\ connPc[c] \in {"settling", "draining"}
  /\ <<s, r>> \in lost[c]
  /\ Tell(s, r, <<"error", "ended">>)
  /\ lost' = [lost EXCEPT ![c] = @ \ {<<s, r>>}]
  /\ UNCHANGED <<registered, route, startVars, traffic, agent, connPc, message, writer>>

Settled(c) ==
  /\ connPc[c] \in {"settling", "draining"}
  /\ lost[c] = {}
  /\ ConnGoTo(c, IF connPc[c] = "settling" THEN "greeting" ELSE "closed")
  /\ UNCHANGED <<registered, route, ack, events, startVars, traffic, agent, lost, message, writer>>

\* The writer task is spawned, then command_tx.send(HelloOk): `?` on a dropped
\* receiver leaves the handler without unregister_agent.
SendHelloOk(c) ==
  /\ connPc[c] = "greeting"
  /\ writer[c] # "stalled"
  /\ ConnGoTo(c, IF writer[c] = "up" THEN "open" ELSE "abandoned")
  /\ UNCHANGED <<registered, route, ack, events, startVars, traffic, agent, lost, message, writer>>

\* The stream ends, the heartbeat times out or the writer has failed.
LeaveLoop(c) ==
  /\ connPc[c] = "open"
  /\ message[c] = None
  /\ ConnGoTo(c, "leaving")
  /\ UNCHANGED <<registered, route, ack, events, startVars, traffic, agent, lost, message, writer>>

SweepOnLeave(c) ==
  /\ connPc[c] = "leaving"
  /\ Sweep(c)
  /\ ConnGoTo(c, "releasing")
  /\ UNCHANGED <<registered, ack, events, startVars, traffic, agent, message, writer>>

Unregister(c) ==
  /\ connPc[c] = "releasing"
  /\ registered' = None
  /\ ConnGoTo(c, "draining")
  /\ UNCHANGED <<route, ack, events, startVars, traffic, agent, lost, message, writer>>

\* A read error leaves the handler without unregister_agent.
ReadError(c) ==
  /\ connPc[c] = "open"
  /\ message[c] = None
  /\ ConnGoTo(c, "abandoned")
  /\ UNCHANGED <<registered, route, ack, events, startVars, traffic, agent, lost, message, writer>>

SetWriter(c, from, to) ==
  /\ writer[c] \in from
  /\ writer' = [writer EXCEPT ![c] = to]
  /\ UNCHANGED <<registered, route, ack, events, startVars, traffic, agent, connVars>>

\* From Register on the command_tx is in use; its receiver is read from
\* "greeting" on, when the writer task has been spawned.
WriterSpawned(c) == connPc[c] \notin {"new", "claiming", "settling"}

\* The agent stops reading and the 64 messages of the channel fill up; it reads
\* again; a socket write fails and the writer task ends.
WriterStalls(c) == connPc[c] \notin {"new", "claiming"} /\ SetWriter(c, {"up"}, "stalled")
WriterDrains(c) == WriterSpawned(c) /\ SetWriter(c, {"stalled"}, "up")
WriterFails(c)  == WriterSpawned(c) /\ SetWriter(c, {"up", "stalled"}, "down")

-----------------------------------------------------------------------------
StartStep(s) ==
  \/ RegisterSession(s) \/ SendStart(s) \/ FailStart(s) \/ ReceiveAck(s) \/ StartTimeout(s)
  \/ ReportClosed(s) \/ ForwarderReturns(s)

OwnerStep(s) == SelectAgent(s) \/ ForwardCommand(s) \/ DropHandle(s)

AgentStep(c, s) ==
  AgentStarted(c, s) \/ AgentResult(c, s) \/ AgentError(c, s) \/ AgentEnded(c, s)

ConnStep(c) ==
  \/ Register(c) \/ Settled(c) \/ SendHelloOk(c) \/ SweepOnLeave(c) \/ Unregister(c)
  \/ \E s \in Session :
       Deliver(c, s) \/ \E r \in {"pending", "started"} : SettleLost(c, s, r)

PeerStep(c) ==
  \/ SweepOnRegister(c) \/ LeaveLoop(c) \/ ReadError(c)
  \/ WriterStalls(c) \/ WriterDrains(c) \/ WriterFails(c)

Next ==
  \/ \E s \in Session : StartStep(s) \/ OwnerStep(s)
  \/ \E c \in Conn : ConnStep(c) \/ PeerStep(c) \/ \E s \in Session : AgentStep(c, s)

Spec == Init /\ [][Next]_vars

(***************************************************************************)
(* Fairness.  The gateway's tasks are polled while they can move, and       *)
(* start_stream's wait for the acknowledgement is bounded by start_timeout. *)
(* A send that waits for room gets SF because the channel serves waiting    *)
(* senders in order.  The sends on a session's event_tx find room: its pump *)
(* empties the channel as long as a write to the client's socket completes  *)
(* or fails (ClientSession).                                               *)
(***************************************************************************)
FairSpec ==
  /\ Spec
  /\ \A s \in Session : WF_vars(StartStep(s)) /\ SF_vars(SendStart(s))
  /\ \A c \in Conn : WF_vars(ConnStep(c)) /\ SF_vars(SendHelloOk(c))

\* In addition, a full command channel eventually drains, unless it breaks: the
\* agent reads again or its socket fails.  The code bounds no send: start_timeout
\* runs only once session.start is in the channel.
DrainingSpec ==
  /\ FairSpec
  /\ \A c \in Conn : WF_vars(WriterDrains(c))

-----------------------------------------------------------------------------
Told(s) == \E i \in 1..Len(events[s]) : events[s][i] = "ended"

InLost(s, r) == \E c \in Conn : <<s, r>> \in lost[c]

\* The connection's handler has run, or is past, its last sweep.
Swept(c) == connPc[c] \in {"releasing", "draining", "closed"}

(* A start that waits for its acknowledgement can still get it: started_tx is
   in the sessions map or in the hands of a handler that will use it.  So the
   "session start acknowledgement lost" branch of start_stream is dead code. *)
AckNotLost ==
  \A s \in Session :
    startPc[s] = "wait" /\ ack[s] = "pending" => route[s] = "pending" \/ InLost(s, "pending")

(* A client whose session is live and that has not been told of its end is
   still reachable: through the sessions map, or through a handler or a
   forwarder that is about to tell it. *)
LiveReachable ==
  \A s \in Session :
    startPc[s] = "live" /\ ~Told(s) =>
      route[s] = "started" \/ InLost(s, "started") \/ forwarder[s] = "closing"

(* Sessions are swept before the registry entry is removed, so a session may
   be entered for an agent that is gone; but it never starts: the route of a
   started session belongs to a connection that is still to be swept, or to
   one that was abandoned on a read error. *)
StartedRouteServed ==
  \A s \in Session : route[s] = "started" => ~Swept(via[s])

(* Under DrainingSpec every start_stream call returns: the send of session.start
   gets its room and the wait for the answer its timeout.  An agent that stops
   reading and keeps its socket holds the call at the send for ever. *)
EveryStartReturns ==
  \A s \in Session : startPc[s] = "register" ~> startPc[s] \in {"live", "gone", "failed"}

(* A client whose agent disconnects while its session is live is told so. *)
LostAgentReported ==
  \A c \in Conn : \A s \in Session :
    connPc[c] = "leaving" /\ startPc[s] = "live" /\ via[s] = c ~> Told(s) \/ startPc[s] = "gone"
=============================================================================
