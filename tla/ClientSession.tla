--------------------------- MODULE ClientSession ---------------------------
(***************************************************************************)
(* One /ws connection of speechmeshd: the frame loop with its single       *)
(* active_session, the event pump it spawns per session, and the bridge    *)
(* tasks (mock, HTTP, WebSocket, stdio/tcp) on the other end of the        *)
(* session's command and event channels.                                   *)
(*                                                                         *)
(* One action is what a task does between two awaits.  Frames that change  *)
(* nothing (hello, discover, ping, tts.voices) are left out.  The writer   *)
(* task is `link`: a message handed to out_tx reaches the client unless    *)
(* the writer has failed.                                                  *)
(***************************************************************************)
EXTENDS Naturals, Sequences, FiniteSets

CONSTANTS
  Session,     \* session ids, SessionId::new() for each start
  Provider,    \* Provider[s]: the kind of bridge that serves session s
  MaxFrames,   \* bound: client frames that reach a session, or are refused
  MaxPushed,   \* bound: events a provider pushes unasked, per session
  CommandCap,  \* capacity of a bridge's command channel (32 or 64 in the code)
  EventCap,    \* capacity of its event channel (32 or 64)
  NoSession

Pipe == {"stdio_asr", "tcp_asr"}              \* StdioAsrBridge, TcpAsrBridge
Asr  == {"mock_asr", "http_asr"} \cup Pipe
Tts  == {"http_tts", "ws_tts"}                \* ws: run_minimax_ws_session

ASSUME ClientSessionAssumption ==
  /\ Provider \in [Session -> Asr \cup Tts]
  /\ MaxFrames \in Nat /\ MaxPushed \in Nat
  /\ CommandCap \in Nat \ {0} /\ EventCap \in Nat \ {0}
  /\ NoSession \notin Session

TtsSession == {s \in Session : Provider[s] \in Tts}
Command    == {"input", "commit", "stop"}
Event      == {"partial", "final", "audio", "error", "ended"}

VARIABLES
  pc,       \* the frame loop: "read", "announce", "send", "stopping", "draining", "closed"
  starting, \* the session whose session.started is being sent (local bridge_session)
  active,   \* active_session
  pending,  \* the command being sent to the active session's bridge
  frames,   \* client frames handled so far
  commands, \* per session: the command channel
  cmdOpen,  \* per session: its receiver is alive
  emit,     \* per session: events the bridge has decided on and not sent yet
  fin,      \* per session: the bridge returns once they are sent
  pushed,   \* per session: events the provider pushed unasked
  events,   \* per session: the event channel
  evOpen,   \* per session: its sender is alive
  pump,     \* per session: the spawned event pump
  sent,     \* per session: the session's messages sent to the client
  replies,  \* per session: errors sent in reply to single frames
  asked,    \* per session: a commit or stop was accepted
  link      \* the writer task: "up", or "down" once a socket write failed

loopVars   == <<pc, starting, active, pending, frames>>
bridgeVars == <<commands, cmdOpen, emit, fin, pushed>>
pumpVars   == <<events, evOpen, pump>>
outVars    == <<sent, replies>>
vars == <<loopVars, bridgeVars, pumpVars, outVars, asked, link>>

(* Every variable holds a value of its type; no channel exceeds its capacity. *)
TypeOK ==
  /\ pc \in {"read", "announce", "send", "stopping", "draining", "closed"}
  /\ starting \in Session \cup {NoSession}
  /\ active \in Session \cup {NoSession}
  /\ pending \in Command
  /\ frames \in 0..MaxFrames
  /\ commands \in [Session -> Seq(Command)]
  /\ cmdOpen \in [Session -> BOOLEAN]
  /\ emit \in [Session -> Seq(Event)]
  /\ fin \in [Session -> BOOLEAN]
  /\ pushed \in [Session -> 0..MaxPushed]
  /\ events \in [Session -> Seq(Event)]
  /\ evOpen \in [Session -> BOOLEAN]
  /\ pump \in [Session -> {"none", "run", "end", "done"}]
  /\ sent \in [Session -> Seq(Event \cup {"started", "done"})]
  /\ replies \in [Session -> Seq({"refused", "busy"})]
  /\ asked \in [Session -> BOOLEAN]
  /\ link \in {"up", "down"}
  /\ \A s \in Session : Len(commands[s]) <= CommandCap /\ Len(events[s]) <= EventCap

Init ==
  /\ pc = "read"
  /\ starting = NoSession
  /\ active = NoSession
  /\ pending = "input"
  /\ frames = 0
  /\ commands = [s \in Session |-> <<>>]
  /\ cmdOpen = [s \in Session |-> FALSE]
  /\ emit = [s \in Session |-> <<>>]
  /\ fin = [s \in Session |-> FALSE]
  /\ pushed = [s \in Session |-> 0]
  /\ events = [s \in Session |-> <<>>]
  /\ evOpen = [s \in Session |-> FALSE]
  /\ pump = [s \in Session |-> "none"]
  /\ sent = [s \in Session |-> <<>>]
  /\ replies = [s \in Session |-> <<>>]
  /\ asked = [s \in Session |-> FALSE]
  /\ link = "up"

-----------------------------------------------------------------------------
(* Faulty variants of definitions below.  No specification uses them; each is *)
(* a plausible slip that one of the properties exists to exclude.             *)

\* The command is queued without waiting for room.
AcceptedUnbounded ==
  /\ pc = "send"
  /\ cmdOpen[active]
  /\ commands' = [commands EXCEPT ![active] = Append(@, pending)]
  /\ asked' = [asked EXCEPT ![active] = @ \/ pending # "input"]
  /\ active' = IF pending = "stop" THEN NoSession ELSE active
  /\ pc' = "read"
  /\ UNCHANGED <<starting, pending, frames, cmdOpen, emit, fin, pushed, pumpVars, outVars, link>>

\* The pump loops until it has forwarded Ended.
PumpReturnsOnceEnded(s) ==
  /\ pump[s] = "run"
  /\ events[s] = <<>>
  /\ ~evOpen[s]
  /\ \E i \in 1..Len(sent[s]) : sent[s][i] = "ended"
  /\ pump' = [pump EXCEPT ![s] = "done"]
  /\ UNCHANGED <<loopVars, bridgeVars, events, evOpen, outVars, asked, link>>

\* The TTS pump forwards Ended as session.ended and reports the totals later.
PumpMessageEndsFirst(s, e) == e

\* The mock bridge returns after the final transcript without Ended.
ReactionsWithoutEnd(k, c) ==
  CASE c = "stop" -> {<<<<"ended">>, TRUE>>}
    [] c = "commit" -> {<<IF k = "http_tts" THEN <<"audio">> ELSE <<"final">>, TRUE>>}
    [] OTHER -> {<<<<>>, FALSE>>}

\* The bridge loop does not end when all senders are gone.
BridgeHangupIgnored(s) ==
  /\ cmdOpen[s] /\ commands[s] = <<>>
  /\ starting # s /\ active # s
  /\ UNCHANGED vars

-----------------------------------------------------------------------------
\* A message of session s is handed to out_tx.
Out(s, m) ==
  /\ sent' = IF link = "up" THEN [sent EXCEPT ![s] = Append(@, m)] ELSE sent
  /\ UNCHANGED replies

\* send_error: tagged with the active session, if there is one.
Refuse(m) ==
  /\ replies' = IF link = "up" /\ active # NoSession
                  THEN [replies EXCEPT ![active] = Append(@, m)] ELSE replies
  /\ UNCHANGED sent

\* Somebody still holds the command_tx of s.
Held(s) == starting = s \/ active = s

Frame == frames < MaxFrames /\ frames' = frames + 1

-----------------------------------------------------------------------------
(* handle_client_websocket and handle_client_message.                      *)

\* A frame with no effect but an error: invalid JSON, a wrong or missing
\* session, the wrong domain, asr.transcribe, a binary frame out of place,
\* or a start the bridge refuses.
RefuseFrame ==
  /\ pc = "read"
  /\ Frame
  /\ Refuse("refused")
  /\ UNCHANGED <<pc, starting, active, pending, bridgeVars, pumpVars, asked, link>>

\* asr.start or tts.start while active_session is set.
RefuseStart ==
  /\ pc = "read"
  /\ active # NoSession
  /\ Frame
  /\ Refuse("busy")
  /\ UNCHANGED <<pc, starting, active, pending, bridgeVars, pumpVars, asked, link>>

\* asr.start or tts.start: start_stream has spawned the bridge, the pump is
\* spawned, and session.started is sent next.
StartStream(s) ==
  /\ pc = "read"
  /\ active = NoSession
  /\ pump[s] = "none"
  /\ Frame
  /\ starting' = s
  /\ pc' = "announce"
  /\ cmdOpen' = [cmdOpen EXCEPT ![s] = TRUE]
  /\ evOpen' = [evOpen EXCEPT ![s] = TRUE]
  /\ pump' = [pump EXCEPT ![s] = "run"]
  /\ UNCHANGED <<active, pending, commands, emit, fin, pushed, events, outVars, asked, link>>

\* session.started; if the writer is gone the session is dropped again.
Announce ==
  /\ pc = "announce"
  /\ Out(starting, "started")
  /\ active' = IF link = "up" THEN starting ELSE NoSession
  /\ starting' = NoSession
  /\ pc' = "read"
  /\ UNCHANGED <<pending, frames, bridgeVars, pumpVars, asked, link>>

\* Audio, tts.input.append, commit, session.stop or session.cancel for the
\* active session: the loop awaits the send on its command channel.
Forward(c) ==
  /\ pc = "read"
  /\ active # NoSession
  /\ Frame
  /\ pending' = c
  /\ pc' = "send"
  /\ UNCHANGED <<starting, active, bridgeVars, pumpVars, outVars, asked, link>>

\* The send completes.  Only an accepted stop clears active_session.
Accepted ==
  /\ pc = "send"
  /\ cmdOpen[active]
  /\ Len(commands[active]) < CommandCap
  /\ commands' = [commands EXCEPT ![active] = Append(@, pending)]
  /\ asked' = [asked EXCEPT ![active] = @ \/ pending # "input"]
  /\ active' = IF pending = "stop" THEN NoSession ELSE active
  /\ pc' = "read"
  /\ UNCHANGED <<starting, pending, frames, cmdOpen, emit, fin, pushed, pumpVars, outVars, link>>

\* The bridge has returned: the error is reported, active_session stays.
Rejected ==
  /\ pc = "send"
  /\ ~cmdOpen[active]
  /\ Refuse("refused")
  /\ pc' = "read"
  /\ UNCHANGED <<starting, active, pending, frames, bridgeVars, pumpVars, asked, link>>

\* A close frame or the end of the stream: stop the active session, if any.
CloseFrame ==
  /\ pc = "read"
  /\ pc' = IF active = NoSession THEN "draining" ELSE "stopping"
  /\ UNCHANGED <<starting, active, pending, frames, bridgeVars, pumpVars, outVars, asked, link>>

\* session.stop() on disconnect; a failure is only logged.
StopOnClose ==
  /\ pc = "stopping"
  /\ \/ /\ cmdOpen[active]
        /\ Len(commands[active]) < CommandCap
        /\ commands' = [commands EXCEPT ![active] = Append(@, "stop")]
        /\ asked' = [asked EXCEPT ![active] = TRUE]
     \/ /\ ~cmdOpen[active]
        /\ UNCHANGED <<commands, asked>>
  /\ active' = NoSession
  /\ pc' = "draining"
  /\ UNCHANGED <<starting, pending, frames, cmdOpen, emit, fin, pushed, pumpVars, outVars, link>>

\* writer.await: the writer ends when every pump has dropped its out_tx.
Drained ==
  /\ pc = "draining"
  /\ link = "down" \/ \A s \in Session : pump[s] \in {"none", "done"}
  /\ pc' = "closed"
  /\ UNCHANGED <<starting, active, pending, frames, bridgeVars, pumpVars, outVars, asked, link>>

\* A read error leaves the handler at once; active_session is dropped.
ReadError ==
  /\ pc = "read"
  /\ pc' = "closed"
  /\ active' = NoSession
  /\ UNCHANGED <<starting, pending, frames, bridgeVars, pumpVars, outVars, asked, link>>

\* A socket write fails and the writer task drops out_rx.
WriterFails ==
  /\ link = "up"
  /\ link' = "down"
  /\ UNCHANGED <<loopVars, bridgeVars, pumpVars, outVars, asked>>

-----------------------------------------------------------------------------
(* The event pump of a session.                                            *)

\* The message an event becomes.  For TTS, Ended becomes tts.audio.done and
\* then session.ended.
PumpMessage(s, e) == IF e = "ended" /\ s \in TtsSession THEN "done" ELSE e

\* Where the pump is after it: the ASR pump keeps going after session.ended.
PumpNext(s, e) == IF e = "ended" /\ s \in TtsSession THEN "end" ELSE "run"

PumpEvent(s) ==
  /\ pump[s] = "run"
  /\ events[s] # <<>>
  /\ events' = [events EXCEPT ![s] = IF link = "up" THEN Tail(@) ELSE <<>>]
  /\ Out(s, PumpMessage(s, Head(events[s])))
  /\ pump' = [pump EXCEPT ![s] = IF link = "up" THEN PumpNext(s, Head(events[s])) ELSE "done"]
  /\ UNCHANGED <<loopVars, bridgeVars, evOpen, asked, link>>

\* The TTS pump sends session.ended and returns.
PumpEnded(s) ==
  /\ pump[s] = "end"
  /\ Out(s, "ended")
  /\ pump' = [pump EXCEPT ![s] = "done"]
  /\ UNCHANGED <<loopVars, bridgeVars, events, evOpen, asked, link>>

\* recv() yields None.
PumpReturns(s) ==
  /\ pump[s] = "run"
  /\ events[s] = <<>>
  /\ ~evOpen[s]
  /\ pump' = [pump EXCEPT ![s] = "done"]
  /\ UNCHANGED <<loopVars, bridgeVars, events, evOpen, outVars, asked, link>>

-----------------------------------------------------------------------------
(* The bridge tasks.                                                       *)

\* What a bridge decides: pairs of the events it sends and whether it returns
\* afterwards.  MockAsrBridge on a command:
MockAsrDecisions(c) ==
  CASE c = "input"  -> {<<<<>>, FALSE>>, <<<<"partial">>, FALSE>>}
    [] c = "commit" -> {<<<<"final", "ended">>, TRUE>>}
    [] c = "stop"   -> {<<<<"ended">>, TRUE>>}

\* MiniMaxHttpAsrBridge: an error of the HTTP call ends the task without Ended.
HttpAsrDecisions(c) ==
  CASE c = "input"  -> {<<<<>>, FALSE>>, <<<<"partial">>, FALSE>>, <<<<"error">>, TRUE>>}
    [] c = "commit" -> {<<<<"final", "ended">>, TRUE>>, <<<<"error">>, TRUE>>}
    [] c = "stop"   -> {<<<<"ended">>, TRUE>>}

\* Audio split into chunks by emit_audio_chunks: one chunk or several.
AudioChunks == {<<"audio">>, <<"audio", "audio">>}

\* The buffering TTS bridges (mock, MeloTTS, Qwen, MiniMax over HTTP).
HttpTtsDecisions(c) ==
  CASE c = "input"  -> {<<<<>>, FALSE>>}
    [] c = "commit" -> {<<a \o <<"ended">>, TRUE>> : a \in AudioChunks \cup {<<"error">>}}
    [] c = "stop"   -> {<<<<"ended">>, TRUE>>}

\* run_minimax_ws_session: input and commit are passed on, or fail.
WsTtsDecisions(c) ==
  IF c = "stop" THEN {<<<<"ended">>, TRUE>>}
                ELSE {<<<<>>, FALSE>>, <<<<"error", "ended">>, TRUE>>}

Reactions(k, c) ==
  CASE k = "mock_asr" -> MockAsrDecisions(c)
    [] k = "http_asr" -> HttpAsrDecisions(c)
    [] k = "http_tts" -> HttpTtsDecisions(c)
    [] k = "ws_tts"   -> WsTtsDecisions(c)

\* What MiniMax's WebSocket frames, or its end, make the session do.
WsTtsPushes == {<<<<"audio">>, FALSE>>, <<<<"ended">>, TRUE>>, <<<<"error", "ended">>, TRUE>>}

\* run_bridge_reader: one event per line the bridge process writes.
BridgeLines == {<<<<e>>, FALSE>> : e \in {"partial", "final", "error", "ended"}}

Pushes(k) ==
  CASE k = "ws_tts"   -> WsTtsPushes
    [] k \in Pipe     -> BridgeLines
    [] OTHER          -> {}

Decide(s, d) ==
  /\ emit' = [emit EXCEPT ![s] = d[1]]
  /\ fin' = [fin EXCEPT ![s] = d[2]]

\* The bridge task awaits command_rx.recv().  (A pipe has two tasks, below.)
Idle(s) == Provider[s] \notin Pipe /\ cmdOpen[s] /\ emit[s] = <<>> /\ ~fin[s]

BridgeReceive(s) ==
  /\ Idle(s)
  /\ commands[s] # <<>>
  /\ commands' = [commands EXCEPT ![s] = Tail(@)]
  /\ \E d \in Reactions(Provider[s], Head(commands[s])) : Decide(s, d)
  /\ UNCHANGED <<loopVars, cmdOpen, pushed, pumpVars, outVars, asked, link>>

\* All senders are gone and the channel is empty.  Only the WebSocket session
\* still reports an end.
BridgeHangup(s) ==
  /\ Idle(s)
  /\ commands[s] = <<>>
  /\ ~Held(s)
  /\ Decide(s, <<IF Provider[s] = "ws_tts" THEN <<"ended">> ELSE <<>>, TRUE>>)
  /\ UNCHANGED <<loopVars, commands, cmdOpen, pushed, pumpVars, outVars, asked, link>>

BridgePush(s) ==
  /\ evOpen[s] /\ emit[s] = <<>> /\ ~fin[s]
  /\ pushed[s] < MaxPushed
  /\ pushed' = [pushed EXCEPT ![s] = @ + 1]
  /\ \E d \in Pushes(Provider[s]) : Decide(s, d)
  /\ UNCHANGED <<loopVars, commands, cmdOpen, pumpVars, outVars, asked, link>>

\* event_tx.send: waits for room, or fails because the pump has returned, and
\* then the bridge returns.
BridgeEmit(s) ==
  /\ evOpen[s]
  /\ emit[s] # <<>>
  /\ \/ /\ pump[s] = "run"
        /\ Len(events[s]) < EventCap
        /\ events' = [events EXCEPT ![s] = Append(@, Head(emit[s]))]
        /\ emit' = [emit EXCEPT ![s] = Tail(@)]
        /\ UNCHANGED fin
     \/ /\ pump[s] # "run"
        /\ emit' = [emit EXCEPT ![s] = <<>>]
        /\ fin' = [fin EXCEPT ![s] = TRUE]
        /\ UNCHANGED events
  /\ UNCHANGED <<loopVars, commands, cmdOpen, pushed, evOpen, pump, outVars, asked, link>>

\* The task returns and drops event_tx and command_rx, queued commands included.
\* The reader of a pipe drops only event_tx.
BridgeReturn(s) ==
  /\ evOpen[s] /\ fin[s] /\ emit[s] = <<>>
  /\ evOpen' = [evOpen EXCEPT ![s] = FALSE]
  /\ fin' = [fin EXCEPT ![s] = FALSE]
  /\ IF Provider[s] \in Pipe
       THEN UNCHANGED <<cmdOpen, commands>>
       ELSE /\ cmdOpen' = [cmdOpen EXCEPT ![s] = FALSE]
            /\ commands' = [commands EXCEPT ![s] = <<>>]
  /\ UNCHANGED <<loopVars, emit, pushed, events, pump, outVars, asked, link>>

\* The bridge process closes its stdout: run_bridge_reader returns silently.
PipeEof(s) ==
  /\ Provider[s] \in Pipe
  /\ evOpen[s] /\ emit[s] = <<>> /\ ~fin[s]
  /\ fin' = [fin EXCEPT ![s] = TRUE]
  /\ UNCHANGED <<loopVars, commands, cmdOpen, emit, pushed, pumpVars, outVars, asked, link>>

\* run_bridge_writer: each command becomes a line on the process's stdin.
PipeWrite(s) ==
  /\ Provider[s] \in Pipe
  /\ cmdOpen[s]
  /\ commands[s] # <<>>
  /\ commands' = [commands EXCEPT ![s] = Tail(@)]
  /\ UNCHANGED <<loopVars, cmdOpen, emit, fin, pushed, pumpVars, outVars, asked, link>>

\* It returns when all senders are gone, or when a write fails, and drops its
\* half of the pipe: that closes a child's stdin, but not a TCP stream's, of
\* which the reader holds the other half.
PipeWriterReturns(s) ==
  /\ Provider[s] \in Pipe
  /\ cmdOpen[s]
  /\ commands[s] = <<>> /\ ~Held(s)
  /\ cmdOpen' = [cmdOpen EXCEPT ![s] = FALSE]
  /\ UNCHANGED <<loopVars, commands, emit, fin, pushed, pumpVars, outVars, asked, link>>

PipeBreaks(s) ==
  /\ Provider[s] \in Pipe
  /\ cmdOpen[s]
  /\ cmdOpen' = [cmdOpen EXCEPT ![s] = FALSE]
  /\ commands' = [commands EXCEPT ![s] = <<>>]
  /\ UNCHANGED <<loopVars, emit, fin, pushed, pumpVars, outVars, asked, link>>

-----------------------------------------------------------------------------
LoopStep == Announce \/ Accepted \/ Rejected \/ StopOnClose \/ Drained

ClientStep ==
  \/ RefuseFrame \/ RefuseStart \/ CloseFrame \/ ReadError \/ WriterFails
  \/ \E s \in Session : StartStream(s)
  \/ \E c \in Command : Forward(c)

PumpStep(s) == PumpEvent(s) \/ PumpEnded(s) \/ PumpReturns(s)

BridgeStep(s) ==
  \/ BridgeReceive(s) \/ BridgeHangup(s) \/ BridgeEmit(s) \/ BridgeReturn(s)
  \/ PipeWriterReturns(s)

ProviderStep(s) == BridgePush(s) \/ PipeWrite(s) \/ PipeEof(s) \/ PipeBreaks(s)

Next ==
  \/ ClientStep
  \/ LoopStep
  \/ \E s \in Session : PumpStep(s) \/ BridgeStep(s) \/ ProviderStep(s)

Spec == Init /\ [][Next]_vars

(***************************************************************************)
(* Fairness: the loop, the pumps and the bridge tasks are tokio tasks and  *)
(* are polled while they can move.  A provider's HTTP call returns, with a *)
(* result or an error (request_timeout), and a write to the client's       *)
(* socket completes or fails.  Nothing is assumed of the client's frames,  *)
(* of a bridge process, nor of what a provider pushes unasked.             *)
(***************************************************************************)
Fairness ==
  /\ WF_vars(LoopStep)
  /\ \A s \in Session : WF_vars(PumpStep(s)) /\ WF_vars(BridgeStep(s))

FairSpec == Spec /\ Fairness

\* In addition, a bridge process reads its stdin, or breaks it, and once its
\* stdin has ended it closes its stdout.  The code neither kills the process
\* nor bounds the wait for it, and a TCP peer is never told of the end.
ProcessFairness ==
  \A s \in {q \in Session : Provider[q] \in Pipe} :
    /\ WF_vars(PipeWrite(s))
    /\ WF_vars(Provider[s] = "stdio_asr" /\ ~cmdOpen[s] /\ PipeEof(s))

-----------------------------------------------------------------------------
Sent(s, m) == \E i \in 1..Len(sent[s]) : sent[s][i] = m

\* Sessions whose bridge speaks only when it answers a command.
Answering == {s \in Session : Pushes(Provider[s]) = {}}

Protocol == INSTANCE SessionProtocol
              WITH Session <- Answering, log <- [s \in Answering |-> sent[s]]

(* Every session of a bridge that answers commands follows the documented
   message order: session.started, results or audio, tts.audio.done, then
   session.ended, and nothing after it. *)
FollowsProtocol == Protocol!Spec

(* "The server ends an ASR session with `session.ended`"
   (docs/websocket-protocol.md:400): an accepted commit or stop leads to
   session.ended, unless the client can no longer be written to.  This is of the
   bridges that report the end on every path; for the others see the next one. *)
AskedEnds ==
  \A s \in {q \in Session : Provider[q] \in {"mock_asr", "http_tts"}} :
    asked[s] ~> Sent(s, "ended") \/ link = "down"

(* The same of whatever bridge, for a client that stays connected: its session
   is over when its last request has failed, and it is told so. *)
StayingClientTold ==
  \A s \in Session : asked[s] ~> Sent(s, "ended") \/ link = "down" \/ pc = "closed"

(* A bridge whose session handle is gone (stopped, dropped or disconnected)
   returns, whatever it was doing: no provider task outlives the interest in
   it.  Of a bridge process only the writing half is the gateway's to end, and
   that with ProcessFairness: a write to a process that never reads lasts. *)
BridgesReleased ==
  \A s \in Session :
    cmdOpen[s] /\ ~Held(s) ~>
      ~cmdOpen[s] /\ (Provider[s] \notin Pipe => ~evOpen[s])

(* "`tts.audio.done` arrives before `session.ended`" (docs/testing.md:108):
   for TTS, whatever the provider does, session.ended comes once, as the last
   message, right after tts.audio.done; only session.started, which the frame
   loop sends, may come later. *)
TtsCompletion ==
  \A s \in TtsSession : \A i, j \in DOMAIN sent[s] :
    /\ sent[s][i] = "ended" =>
         /\ \E k \in 1..(i - 1) : sent[s][k] = "done"
         /\ i < j => sent[s][j] = "started"
    /\ sent[s][i] = "done" /\ i < j => sent[s][j] \in {"started", "ended"}

(* With ProcessFairness a handler that closes returns: the pumps drop their
   out_tx, each when its bridge has returned, so that the writer ends too.  That
   is of every kind of bridge here but one: a TcpAsrBridge whose peer keeps the
   stream open holds its pump, and with it the handler, for ever. *)
HandlerReturns == pc \in {"stopping", "draining"} ~> pc = "closed"
=============================================================================
