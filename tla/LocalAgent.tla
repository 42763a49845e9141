----------------------------- MODULE LocalAgent -----------------------------
(***************************************************************************)
(* The local ASR agent (run_local_agent): its connection to the gateway's  *)
(* /agent endpoint, the map of session controllers, one event pump and one *)
(* helper process (StdioAsrBridge) per session.                            *)
(*                                                                         *)
(* The sessions map of a connection is shared by the connection's loop and *)
(* by its pumps, and holds the command senders of its helpers: a helper's  *)
(* stdin stays open exactly while its session is in the map, or while the  *)
(* loop is handing it a command.                                           *)
(***************************************************************************)
EXTENDS Naturals

CONSTANTS
  Session,  \* sessions the gateway starts, each once
  MaxConns  \* bound: connections

ASSUME LocalAssumption == MaxConns \in Nat

VARIABLES
  pc,      \* run_local_agent_once: "down", "hello", "loop", "push" or "drain"
  pushing, \* the session a "push" is about, as a set
  conns,   \* connections so far; the last one is the current one
  link,    \* per connection: "open", or "closed" by the gateway
  writer,  \* per connection: its writer task, "up" or "down"
  home,    \* per session: the connection it was started on, 0 if none
  map,     \* sessions that are in the sessions map of their connection
  pump,    \* per session: its event pump, "none", "run" or "done"
  hand,    \* per session: the event the pump has to forward, or "none"
  helper,  \* per session: its process, "none", "run", "refused" (runs, but did not
           \* take the session), "eof" (its stdin is closed) or "exited"
  stopped  \* sessions whose helper was sent asr.stop

vars == <<pc, pushing, conns, link, writer, home, map, pump, hand, helper, stopped>>

connVars == <<pc, pushing, conns, link>>

Conn == 1..MaxConns

\* What a helper writes: a partial or final result or an error, and asr.ended.
Event == {"result", "ended"}

(* Every variable holds a value of its type. *)
TypeOK ==
  /\ pc \in {"down", "hello", "loop", "push", "drain"}
  /\ IF pc = "push" THEN \E s \in Session : pushing = {s} ELSE pushing = {}
  /\ conns \in 0..MaxConns
  /\ link \in [Conn -> {"open", "closed"}]
  /\ writer \in [Conn -> {"up", "down"}]
  /\ home \in [Session -> 0..MaxConns]
  /\ map \subseteq Session
  /\ pump \in [Session -> {"none", "run", "done"}]
  /\ hand \in [Session -> Event \cup {"none"}]
  /\ helper \in [Session -> {"none", "run", "refused", "eof", "exited"}]
  /\ stopped \subseteq Session

Init ==
  /\ pc = "down"
  /\ pushing = {}
  /\ conns = 0
  /\ link = [n \in Conn |-> "open"]
  /\ writer = [n \in Conn |-> "up"]
  /\ home = [s \in Session |-> 0]
  /\ map = {}
  /\ pump = [s \in Session |-> "none"]
  /\ hand = [s \in Session |-> "none"]
  /\ helper = [s \in Session |-> "none"]
  /\ stopped = {}

-----------------------------------------------------------------------------
(* Faulty variants of definitions below.  No specification uses them; each is *)
(* a plausible slip that one of the properties exists to exclude.             *)

\* Only the return of the pump takes the session out of the map.
PumpReceivesOnly(s, e) ==
  /\ pump[s] = "run" /\ hand[s] = "none"
  /\ helper[s] \in {"run", "refused", "eof"}
  /\ hand' = [hand EXCEPT ![s] = e]
  /\ UNCHANGED <<connVars, writer, home, map, pump, helper, stopped>>

\* stdin is closed by the pump, while it runs.
CloseStdinByPump(s) ==
  /\ helper[s] \in {"run", "refused"} /\ pump[s] = "run"
  /\ s \notin map \cup pushing
  /\ helper' = [helper EXCEPT ![s] = "eof"]
  /\ UNCHANGED <<connVars, writer, home, map, pump, hand, stopped>>

-----------------------------------------------------------------------------
(* run_local_agent and run_local_agent_once.                               *)

\* connect_async succeeded; the writer is spawned and Hello queued.
Connect ==
  /\ pc = "down"
  /\ conns < MaxConns
  /\ conns' = conns + 1
  /\ pc' = "hello"
  /\ UNCHANGED <<pushing, link, writer, home, map, pump, hand, helper, stopped>>

\* Frames before HelloOk are ignored; the end of the stream, a read error or a
\* bad frame fail the handshake.
HelloOk ==
  /\ pc = "hello"
  /\ pc' \in {"loop", "down"}
  /\ UNCHANGED <<pushing, conns, link, writer, home, map, pump, hand, helper, stopped>>

\* A message handed to the writer of connection n is written, or the write to
\* a closed connection ends the writer.
Write(n) == writer' = [writer EXCEPT ![n] = IF link[n] = "open" THEN @ ELSE "down"]

\* SessionStart: the helper is spawned, the controller entered, SessionStarted
\* sent and the pump spawned; or the start fails and is answered with an error.
StartSession(s) ==
  /\ pc = "loop"
  /\ home[s] = 0
  /\ home' = [home EXCEPT ![s] = conns]
  /\ Write(conns)
  /\ \/ /\ helper' = [helper EXCEPT ![s] = "run"]
        /\ map' = map \cup {s}
        /\ pump' = [pump EXCEPT ![s] = "run"]
     \/ UNCHANGED <<helper, map, pump>>
  /\ UNCHANGED <<connVars, hand, stopped>>

\* SessionAudio, SessionCommit or SessionStop for a session in the map: the
\* loop clones its controller and awaits room in the helper's command channel.
PushCommand(s) ==
  /\ pc = "loop"
  /\ home[s] = conns /\ s \in map
  /\ pushing' = {s}
  /\ pc' = "push"
  /\ UNCHANGED <<conns, link, writer, home, map, pump, hand, helper, stopped>>

\* The command is taken (it may be asr.stop), or the bridge writer has returned
\* because its helper is gone, which is answered with an error.
Pushed ==
  /\ pc = "push"
  /\ pc' = "loop"
  /\ pushing' = {}
  /\ \E s \in pushing :
       \/ stopped' \in {stopped, stopped \cup {s}} /\ UNCHANGED writer
       \/ helper[s] = "exited" /\ Write(conns) /\ UNCHANGED stopped
  /\ UNCHANGED <<conns, link, home, map, pump, hand, helper>>

\* Answers that change no session: audio for a session that is not in the map,
\* audio that does not decode, a play-audio task, a ping.
AnswerOnly ==
  /\ pc = "loop"
  /\ Write(conns)
  /\ UNCHANGED <<connVars, home, map, pump, hand, helper, stopped>>

GatewayCloses(n) ==
  /\ n <= conns
  /\ link[n] = "open"
  /\ link' = [link EXCEPT ![n] = "closed"]
  /\ UNCHANGED <<pc, pushing, conns, writer, home, map, pump, hand, helper, stopped>>

\* The stream ends: drop(out_tx) and writer.await.
LeaveLoop ==
  /\ pc = "loop" /\ link[conns] = "closed"
  /\ pc' = "drain"
  /\ UNCHANGED <<pushing, conns, link, writer, home, map, pump, hand, helper, stopped>>

\* The writer ends when every pump has dropped its sender, or on a failed write.
Drained ==
  /\ pc = "drain"
  /\ \/ writer[conns] = "down"
     \/ \A s \in Session : home[s] = conns => pump[s] # "run"
  /\ pc' = "down"
  /\ UNCHANGED <<pushing, conns, link, writer, home, map, pump, hand, helper, stopped>>

\* A read error or a bad frame leaves at once; the writer and the pumps live on.
ReadError ==
  /\ pc = "loop"
  /\ pc' = "down"
  /\ UNCHANGED <<pushing, conns, link, writer, home, map, pump, hand, helper, stopped>>

-----------------------------------------------------------------------------
(* The event pump of a session.                                            *)

\* A line of the helper; asr.ended takes the session out of the map.
PumpReceives(s, e) ==
  /\ pump[s] = "run" /\ hand[s] = "none"
  /\ helper[s] \in {"run", "refused", "eof"}
  /\ hand' = [hand EXCEPT ![s] = e]
  /\ map' = IF e = "ended" THEN map \ {s} ELSE map
  /\ UNCHANGED <<connVars, writer, home, pump, helper, stopped>>

\* It is forwarded; with the writer gone the pump cleans up and returns.
PumpSends(s) ==
  /\ hand[s] # "none"
  /\ hand' = [hand EXCEPT ![s] = "none"]
  /\ \/ writer[home[s]] = "up" /\ Write(home[s]) /\ UNCHANGED <<pump, map>>
     \/ /\ writer[home[s]] = "down"
        /\ pump' = [pump EXCEPT ![s] = "done"]
        /\ map' = map \ {s}
        /\ UNCHANGED writer
  /\ UNCHANGED <<connVars, home, helper, stopped>>

\* The helper's stdout is at its end.
PumpReturns(s) ==
  /\ pump[s] = "run" /\ hand[s] = "none"
  /\ helper[s] = "exited"
  /\ pump' = [pump EXCEPT ![s] = "done"]
  /\ map' = map \ {s}
  /\ UNCHANGED <<connVars, writer, home, hand, helper, stopped>>

-----------------------------------------------------------------------------
(* The helper process.                                                     *)

\* The last command sender is gone: run_bridge_writer returns and closes stdin.
CloseStdin(s) ==
  /\ helper[s] \in {"run", "refused"}
  /\ s \notin map \cup pushing
  /\ helper' = [helper EXCEPT ![s] = "eof"]
  /\ UNCHANGED <<connVars, writer, home, map, pump, hand, stopped>>

\* It answers asr.start with an error (it has no authorization, no recognizer).
HelperRefuses(s) ==
  /\ helper[s] = "run"
  /\ helper' = [helper EXCEPT ![s] = "refused"]
  /\ UNCHANGED <<connVars, writer, home, map, pump, hand, stopped>>

\* At the end of its input, or on its own.
HelperExits(s) ==
  /\ helper[s] \in {"run", "refused", "eof"}
  /\ helper' = [helper EXCEPT ![s] = "exited"]
  /\ UNCHANGED <<connVars, writer, home, map, pump, hand, stopped>>

-----------------------------------------------------------------------------
PumpStep(s) == PumpSends(s) \/ PumpReturns(s)

LoopStep == HelloOk \/ Pushed \/ Drained

Next ==
  \/ Connect \/ LoopStep \/ LeaveLoop \/ ReadError \/ AnswerOnly
  \/ \E n \in Conn : GatewayCloses(n)
  \/ \E s \in Session :
       \/ StartSession(s) \/ PushCommand(s)
       \/ PumpStep(s) \/ CloseStdin(s) \/ HelperRefuses(s) \/ HelperExits(s)
       \/ \E e \in Event : PumpReceives(s, e)

Spec == Init /\ [][Next]_vars

-----------------------------------------------------------------------------
(* A controller in the map is one that a running pump will take out, so no
   command is queued for a session that the agent has reported as ended. *)
MappedIsPumped == \A s \in map : pump[s] = "run" /\ hand[s] # "ended"

(* A session that ends or is stopped gives everything back, on whatever
   connection it was: its entry leaves the map, its helper's stdin closes, the
   helper exits and the pump returns; the pump and the helper never wait for each
   other.  Only a helper that has refused the session is not ended by a stop. *)
SessionsAreReleased ==
  \A s \in Session :
    s \in stopped \/ (pump[s] = "run" /\ s \notin map)
      ~> helper[s] = "refused" \/ (helper[s] = "exited" /\ pump[s] = "done")

(* "drop the connection so the agent can reconnect promptly" (agent.rs:30):
   an agent whose connection was closed gets to the point where it reconnects. *)
ClosedIsLeft ==
  conns > 0 /\ pc = "loop" /\ link[conns] = "closed" ~> pc = "down"
=============================================================================
