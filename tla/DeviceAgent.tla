---------------------------- MODULE DeviceAgent ----------------------------
(***************************************************************************)
(* The device agent (speechmesh-agent): its connection loop to the         *)
(* gateway's /agent endpoint, the TaskTracker of play_audio tasks, and the *)
(* player processes it feeds.                                              *)
(*                                                                         *)
(* One action is what run_once does between two awaits that can block.     *)
(* The gateway is reduced to what the agent can tell of it: the frames it  *)
(* sends for each request, in order, and what it concludes from the        *)
(* reported statuses; AgentRegistry has its other half.  A frame carries   *)
(* only a task id; the request it belongs to is kept with it for the       *)
(* properties.                                                             *)
(***************************************************************************)
EXTENDS Naturals, Sequences, FiniteSets

CONSTANTS
  Request,   \* play_audio requests, each sent once
  Task,      \* task ids, which clients may choose and reuse
  Chunks,    \* chunks the gateway sends for each request
  MaxConns,  \* bound: connections of the agent
  InboxCap,  \* capacity of the connection's command channel (64 in the code)
  None

ASSUME DeviceAssumption ==
  /\ None \notin Request
  /\ Chunks \in Nat \ {0} /\ MaxConns \in Nat /\ InboxCap \in Nat \ {0}

VARIABLES
  pc,        \* run_once: "down", "hello", "loop", "write", "wait"
  handling,  \* the request whose player a "write" or a "wait" is about
  tracker,   \* play_audio_tasks: per task id, the request whose start made it
  failed,    \* failed_play_audio_starts
  player,    \* per request: the process its start spawned
  written,   \* per request: chunks written to that process
  writer,    \* the writer task: "up" or "down"
  conns,     \* connections opened so far
  link,      \* the gateway's side: "none", "open", "silent" or "closed"
  registered,\* the gateway has registered the connection
  inbox,     \* frames on their way to the agent
  outbox,    \* statuses on their way to the gateway
  routed,    \* per task id: the request it is routed for, or None
  taskId,    \* per request: its task id
  sent,      \* per request: frames sent (start, chunks, finish)
  result     \* per request: what the gateway has concluded

agentVars   == <<pc, handling, tracker, failed, player, written, writer>>
gatewayVars == <<routed, taskId, sent, result>>
vars == <<agentVars, conns, link, registered, inbox, outbox, gatewayVars>>

Alive == {"fed", "eof"}   \* player processes that run; "eof": stdin is closed

(* Every variable holds a value of its type. *)
TypeOK ==
  /\ pc \in {"down", "hello", "loop", "write", "wait"}
  /\ handling \in Request \cup {None}
  /\ tracker \in [Task -> Request \cup {None}]
  /\ failed \subseteq Task
  /\ player \in [Request -> {"none", "fed", "eof", "killed", "ok", "bad"}]
  /\ written \in [Request -> Nat]
  /\ writer \in {"up", "down"}
  /\ conns \in 0..MaxConns
  /\ link \in {"none", "open", "silent", "closed"}
  /\ registered \in BOOLEAN
  /\ inbox \in Seq([kind : {"hello_ok", "start", "chunk", "finish"}, req : Request \cup {None}])
  /\ outbox \in Seq([state : {"started", "finished", "failed"}, task : Task])
  /\ routed \in [Task -> Request \cup {None}]
  /\ taskId \in [Request -> Task]
  /\ sent \in [Request -> 0..(Chunks + 2)]
  /\ result \in [Request -> {"none", "finished", "failed", "timeout"}]

Init ==
  /\ pc = "down"
  /\ handling = None
  /\ tracker = [t \in Task |-> None]
  /\ failed = {}
  /\ player = [r \in Request |-> "none"]
  /\ written = [r \in Request |-> 0]
  /\ writer = "up"
  /\ conns = 0
  /\ link = "none"
  /\ registered = FALSE
  /\ inbox = <<>>
  /\ outbox = <<>>
  /\ routed = [t \in Task |-> None]
  /\ taskId \in [Request -> Task]
  /\ sent = [r \in Request |-> 0]
  /\ result = [r \in Request |-> "none"]

-----------------------------------------------------------------------------
(* The gateway, as far as the agent can tell (AgentRegistry has the rest). *)

\* handle_control_play_audio sends start, the chunks and finish in order.
FrameKind(n) == IF n = 0 THEN "start" ELSE IF n <= Chunks THEN "chunk" ELSE "finish"

\* A request's fate is decided once.
Settle(S, x) ==
  result' = [r \in Request |-> IF r \in S /\ result[r] = "none" THEN x ELSE result[r]]

\* A faulty variant of SendFrame below, which no specification uses: finish is
\* sent twice.
SendFrameTwice(r) ==
  /\ link = "open" /\ registered
  /\ Len(inbox) < InboxCap
  /\ sent[r] < Chunks + 3
  /\ routed' = [routed EXCEPT ![taskId[r]] = r]
  /\ sent' = [sent EXCEPT ![r] = @ + 1]
  /\ inbox' = Append(inbox, [kind |-> FrameKind(sent[r]), req |-> r])
  /\ UNCHANGED <<agentVars, conns, link, registered, outbox, taskId, result>>

\* route_play_audio_start registers the route, unless the id has one; the other
\* frames follow whatever route the id has.
SendFrame(r) ==
  /\ link = "open" /\ registered
  /\ Len(inbox) < InboxCap
  /\ sent[r] < Chunks + 2
  /\ IF sent[r] = 0
       THEN routed[taskId[r]] = None /\ routed' = [routed EXCEPT ![taskId[r]] = r]
       ELSE routed[taskId[r]] # None /\ UNCHANGED routed
  /\ sent' = [sent EXCEPT ![r] = @ + 1]
  /\ inbox' = Append(inbox, [kind |-> FrameKind(sent[r]), req |-> r])
  /\ UNCHANGED <<agentVars, conns, link, registered, outbox, taskId, result>>

\* A chunk or finish without a route is an error of the request.
GiveUp(r) ==
  /\ sent[r] \in 1..(Chunks + 1)
  /\ routed[taskId[r]] = None
  /\ sent' = [sent EXCEPT ![r] = Chunks + 2]
  /\ Settle({r}, "failed")
  /\ UNCHANGED <<agentVars, conns, link, registered, inbox, outbox, taskId, routed>>

\* The connection is registered before HelloOk is queued for it; a reconnect
\* fails the tasks of the connection it replaces.
RegisterAgent ==
  /\ link = "open" /\ ~registered
  /\ registered' = TRUE
  /\ routed' = [t \in Task |-> None]
  /\ Settle({r \in Request : routed[taskId[r]] = r}, "failed")
  /\ UNCHANGED <<agentVars, conns, link, inbox, outbox, taskId, sent>>

SendHelloOk ==
  /\ link = "open" /\ registered
  /\ Len(inbox) < InboxCap
  /\ pc = "hello"
  /\ ~\E i \in 1..Len(inbox) : inbox[i].kind = "hello_ok"
  /\ inbox' = Append(inbox, [kind |-> "hello_ok", req |-> None])
  /\ UNCHANGED <<agentVars, conns, link, registered, outbox, gatewayVars>>

\* handle_agent_message (TaskStatus): any but Started settles the task.
ReceiveStatus ==
  /\ outbox # <<>>
  /\ outbox' = Tail(outbox)
  /\ LET m == Head(outbox)
         r == routed[m.task]
     IN IF m.state = "started" \/ r = None
          THEN UNCHANGED <<routed, result>>
          ELSE /\ routed' = [routed EXCEPT ![m.task] = None]
               /\ Settle({r}, m.state)
  /\ UNCHANGED <<agentVars, conns, link, registered, inbox, taskId, sent>>

\* CONTROL_PLAY_AUDIO_TIMEOUT: the request is given up, its route stays and the
\* agent is not told.
RequestTimeout(r) ==
  /\ sent[r] = Chunks + 2
  /\ result[r] = "none"
  /\ Settle({r}, "timeout")
  /\ UNCHANGED <<agentVars, conns, link, registered, inbox, outbox, taskId, routed, sent>>

\* The gateway closes the connection and fails its tasks, or nothing comes
\* from it any more.
GatewayCloses ==
  /\ link = "open"
  /\ link' = "closed"
  /\ registered' = FALSE
  /\ routed' = [t \in Task |-> None]
  /\ Settle({r \in Request : routed[taskId[r]] = r}, "failed")
  /\ UNCHANGED <<agentVars, conns, inbox, outbox, taskId, sent>>

GoSilent ==
  /\ link = "open"
  /\ link' = "silent"
  /\ UNCHANGED <<agentVars, conns, registered, inbox, outbox, gatewayVars>>

-----------------------------------------------------------------------------
(* run_once and run_forever.                                               *)

\* connect_async and the hello; the statuses of the last connection that the
\* gateway has not read yet are read late, or lost.
Connect ==
  /\ pc = "down"
  /\ conns < MaxConns
  /\ conns' = conns + 1
  /\ pc' = "hello"
  /\ writer' = "up"
  /\ link' = "open"
  /\ registered' = FALSE
  /\ inbox' = <<>>
  /\ outbox' \in {outbox, <<>>}
  /\ UNCHANGED <<handling, tracker, failed, player, written, gatewayVars>>

\* run_once returns and its tracker is gone.
Left ==
  /\ pc' = "down"
  /\ handling' = None
  /\ tracker' = [t \in Task |-> None]
  /\ failed' = {}

Tracked(tr) == {r \in Request : \E t \in Task : tr[t] = r}

\* abort_all_playback_tasks, finish_failed_task: stdin is closed and the
\* process killed.
Killed(S, p) == [r \in Request |-> IF r \in S /\ p[r] \in Alive THEN "killed" ELSE p[r]]

\* A dropped PlaybackTask only closes stdin; the process plays what it has.
Dropped(S, p) == [r \in Request |-> IF r \in S /\ p[r] = "fed" THEN "eof" ELSE p[r]]

\* The end of a handler: the status goes to the writer and the loop goes on.
\* With the writer gone, `?` leaves run_once past abort_all_playback_tasks.
Report(t, st, tr, p) ==
  IF writer = "up"
    THEN /\ outbox' = Append(outbox, [state |-> st, task |-> t])
         /\ pc' = "loop"
         /\ handling' = None
         /\ tracker' = tr
         /\ player' = p
    ELSE /\ UNCHANGED outbox
         /\ Left
         /\ player' = Dropped(Tracked(tr), p)

\* Nothing to report: the loop goes on.
Silently == UNCHANGED <<pc, handling, tracker, player, outbox>>

\* source.next() yields a frame of this kind.
Receive(kind) ==
  /\ inbox # <<>>
  /\ Head(inbox).kind = kind
  /\ inbox' = Tail(inbox)

\* wait_hello_ok: other frames are ignored until HelloOk.
HelloOk ==
  /\ pc = "hello"
  /\ Receive("hello_ok")
  /\ pc' = "loop"
  /\ UNCHANGED <<handling, tracker, failed, player, written, writer, conns, link, registered,
                 outbox, gatewayVars>>

IgnoreBeforeHello ==
  /\ pc = "hello"
  /\ inbox # <<>> /\ Head(inbox).kind # "hello_ok"
  /\ inbox' = Tail(inbox)
  /\ UNCHANGED <<agentVars, conns, link, registered, outbox, gatewayVars>>

-----------------------------------------------------------------------------
(* Faulty variants of definitions below.  No specification uses them; each is *)
(* a plausible slip that one of the properties exists to exclude.             *)

\* The chunk that could not be written is skipped and the task goes on.
FailChunkSkipped ==
  /\ pc = "write"
  /\ pc' = "loop"
  /\ handling' = None
  /\ UNCHANGED <<tracker, failed, player, written, writer, conns, link, registered, inbox, outbox,
                 gatewayVars>>

\* The task is taken out, but its stdin is not closed.
ReadFinishKeepsStdin ==
  /\ pc = "loop"
  /\ Receive("finish")
  /\ pc' = "wait"
  /\ handling' = tracker[taskId[Head(inbox).req]]
  /\ handling' # None
  /\ tracker' = [tracker EXCEPT ![taskId[Head(inbox).req]] = None]
  /\ UNCHANGED <<failed, player, written, writer, conns, link, registered, outbox, gatewayVars>>

\* The player's exit is awaited without a timeout.
ReportExitPatient ==
  /\ pc = "wait"
  /\ player[handling] \notin Alive
  /\ Report(taskId[handling], IF player[handling] = "ok" THEN "finished" ELSE "failed", tracker, player)
  /\ writer = "up" => UNCHANGED failed
  /\ UNCHANGED <<written, writer, conns, link, registered, inbox, gatewayVars>>

\* Only the end of the stream ends the loop.
LeaveLoopAtEnd ==
  /\ pc = "loop"
  /\ inbox = <<>> /\ link = "closed"
  /\ Left
  /\ player' = Killed(Tracked(tracker), player)
  /\ UNCHANGED <<written, writer, conns, link, registered, inbox, outbox, gatewayVars>>

-----------------------------------------------------------------------------
(* handle_gateway_message.                                                 *)

\* TaskPlayAudioStart.
StartPlayback ==
  /\ pc = "loop"
  /\ Receive("start")
  /\ LET r == Head(inbox).req
         t == taskId[r]
     IN \/ /\ tracker[t] # None
           /\ Report(t, "failed", tracker, player)
           /\ writer = "up" => UNCHANGED failed
        \/ /\ tracker[t] = None    \* start_playback_task succeeds
           /\ Report(t, "started", [tracker EXCEPT ![t] = r], [player EXCEPT ![r] = "fed"])
           /\ writer = "up" => failed' = failed \ {t}
        \/ /\ tracker[t] = None    \* ... or fails
           /\ Report(t, "failed", tracker, player)
           /\ writer = "up" => failed' = failed \cup {t}
  /\ UNCHANGED <<written, writer, conns, link, registered, gatewayVars>>

\* TaskPlayAudioChunk: the loop awaits write_all to the player.
ReadChunk ==
  /\ pc = "loop"
  /\ Receive("chunk")
  /\ LET t == taskId[Head(inbox).req]
     IN \/ /\ tracker[t] # None
           /\ pc' = "write"
           /\ handling' = tracker[t]
           /\ UNCHANGED <<tracker, failed, player, outbox>>
        \/ /\ tracker[t] = None /\ t \in failed
           /\ Silently /\ UNCHANGED failed
        \/ /\ tracker[t] = None /\ t \notin failed
           /\ Report(t, "failed", tracker, player)
           /\ writer = "up" => UNCHANGED failed
  /\ UNCHANGED <<written, writer, conns, link, registered, gatewayVars>>

WriteChunk ==
  /\ pc = "write"
  /\ player[handling] = "fed"
  /\ written' = [written EXCEPT ![handling] = @ + 1]
  /\ pc' = "loop"
  /\ handling' = None
  /\ UNCHANGED <<tracker, failed, player, writer, conns, link, registered, inbox, outbox, gatewayVars>>

\* The player is gone, or the chunk cannot be decoded: finish_failed_task.
FailChunk ==
  /\ pc = "write"
  /\ LET t == taskId[handling]
     IN /\ Report(t, "failed", [tracker EXCEPT ![t] = None], Killed({handling}, player))
        /\ writer = "up" => UNCHANGED failed
  /\ UNCHANGED <<written, writer, conns, link, registered, inbox, gatewayVars>>

\* TaskPlayAudioFinish: stdin is closed and the loop awaits the player's exit.
ReadFinish ==
  /\ pc = "loop"
  /\ Receive("finish")
  /\ LET t == taskId[Head(inbox).req]
     IN \/ /\ tracker[t] # None
           /\ pc' = "wait"
           /\ handling' = tracker[t]
           /\ tracker' = [tracker EXCEPT ![t] = None]
           /\ failed' = failed \ {t}
           /\ player' = Dropped({tracker[t]}, player)
           /\ UNCHANGED outbox
        \/ /\ tracker[t] = None /\ t \in failed
           /\ failed' = failed \ {t}
           /\ Silently
        \/ /\ tracker[t] = None /\ t \notin failed
           /\ Report(t, "failed", tracker, player)
           /\ writer = "up" => UNCHANGED failed
  /\ UNCHANGED <<written, writer, conns, link, registered, gatewayVars>>

\* The player has exited; or PLAYBACK_FINISH_TIMEOUT has passed and it is
\* killed.
ReportExit ==
  /\ pc = "wait"
  /\ \/ /\ player[handling] \notin Alive
        /\ Report(taskId[handling], IF player[handling] = "ok" THEN "finished" ELSE "failed",
                  tracker, player)
     \/ /\ player[handling] \in Alive
        /\ Report(taskId[handling], "failed", tracker, Killed({handling}, player))
  /\ writer = "up" => UNCHANGED failed
  /\ UNCHANGED <<written, writer, conns, link, registered, inbox, gatewayVars>>

\* The stream has ended, or no frame came within HEARTBEAT_TIMEOUT, or the
\* heartbeat finds the writer gone.
LeaveLoop ==
  /\ pc = "loop"
  /\ \/ inbox = <<>> /\ link \in {"silent", "closed"}
     \/ writer = "down"
  /\ Left
  /\ player' = Killed(Tracked(tracker), player)
  /\ UNCHANGED <<written, writer, conns, link, registered, inbox, outbox, gatewayVars>>

\* A read error, or an undecodable frame; in the handshake also its end.
LeaveByError ==
  /\ \/ pc = "loop"
     \/ pc = "hello" /\ inbox = <<>> /\ link = "closed"
  /\ Left
  /\ player' = Dropped(Tracked(tracker), player)
  /\ UNCHANGED <<written, writer, conns, link, registered, inbox, outbox, gatewayVars>>

WriterFails ==
  /\ pc # "down"
  /\ writer = "up"
  /\ writer' = "down"
  /\ UNCHANGED <<pc, handling, tracker, failed, player, written, conns, link, registered, inbox,
                 outbox, gatewayVars>>

\* A player process ends, with success or not, whatever it was given.
PlayerExits(r) ==
  /\ player[r] \in Alive
  /\ \E x \in {"ok", "bad"} : player' = [player EXCEPT ![r] = x]
  /\ UNCHANGED <<pc, handling, tracker, failed, written, writer, conns, link, registered, inbox,
                 outbox, gatewayVars>>

-----------------------------------------------------------------------------
AgentStep ==
  \/ HelloOk \/ IgnoreBeforeHello \/ StartPlayback \/ ReadChunk \/ ReadFinish
  \/ ReportExit \/ LeaveLoop

PlayerStep == WriteChunk \/ FailChunk

GatewayStep ==
  \/ RegisterAgent \/ SendHelloOk \/ ReceiveStatus \/ GatewayCloses \/ GoSilent
  \/ \E r \in Request : SendFrame(r) \/ GiveUp(r) \/ RequestTimeout(r)

Next ==
  \/ Connect \/ AgentStep \/ PlayerStep \/ LeaveByError \/ WriterFails \/ GatewayStep
  \/ \E r \in Request : PlayerExits(r)

Spec == Init /\ [][Next]_vars

\* The agent's task is polled while it can move; the waits for the player's
\* exit and for a silent gateway are bounded by timers.
FairSpec == Spec /\ WF_vars(AgentStep)

\* In addition every player reads its stdin, or exits.
ReadingSpec == FairSpec /\ WF_vars(PlayerStep)

-----------------------------------------------------------------------------
(* A play_audio request is told "finished" only if every chunk of its audio
   was written to its player and the player exited with success, whatever
   connections were lost, frames dropped and statuses read late meanwhile, if
   its task id is its own, as next_control_task_id makes them. *)
FinishedMeansPlayed ==
  \A r \in Request :
    result[r] = "finished" /\ (\A q \in Request \ {r} : taskId[q] # taskId[r])
      => written[r] = Chunks /\ player[r] = "ok"

(* A player whose stdin is open is one the tracker will still feed, finish or
   abort, and a tracked task's player belongs to that task: leaving run_once by
   any path leaves no player waiting for input. *)
FedIsTracked ==
  \A r \in Request :
    /\ player[r] = "fed" => tracker[taskId[r]] = r
    /\ r \in Tracked(tracker) => tracker[taskId[r]] = r /\ player[r] \notin {"none", "eof", "killed"}

(* A finish the agent has read is answered within PLAYBACK_FINISH_TIMEOUT,
   or the connection is left. *)
FinishAnswered == pc = "wait" ~> pc # "wait"

(* "If no frame (data or pong) is received within this window, treat the
   connection as dead and reconnect." (runtime.rs:76) *)
SilenceNoticed == link = "silent" /\ pc # "hello" ~> pc = "down"
============================================================================
