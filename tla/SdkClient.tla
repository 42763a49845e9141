----------------------------- MODULE SdkClient ------------------------------
(***************************************************************************)
(* The Rust SDK's Client on its /ws connection, driven by a program: the   *)
(* sequence of calls that the command line tool makes, or an application.  *)
(* A call that waits reads messages until one is its answer and throws the *)
(* others away, after observe_message has looked at them.                  *)
(*                                                                         *)
(* Of the gateway this module keeps what a client can tell: its            *)
(* active_session, its sessions and their event pumps, and that it         *)
(* reports every failed request without the request's id.  ClientSession   *)
(* has the inside of a session.                                            *)
(***************************************************************************)
EXTENDS Naturals, Sequences

CONSTANTS
  Program,     \* programs: the calls, what an error does, and patience
  MaxSessions, \* bound: sessions the gateway starts
  MaxEvents    \* bound: results and errors of one session

Domain == {"asr", "tts"}
Call == {"connect", "discover", "voices", "start_asr", "start_tts", "audio", "append",
         "commit", "stop", "recv", "drain_asr", "drain_tts", "control", "close"}

\* "stop": each call is followed by `?`; "next": a failing check of the doctor
\* does not keep it from the next one; "continue": an application's choice.
ASSUME SdkClientAssumption ==
  /\ \A p \in Program :
       /\ p.calls \in Seq(Call)
       /\ p.onError \in {"stop", "next", "continue"}
       /\ p.patient \in BOOLEAN
  /\ MaxSessions \in Nat /\ MaxEvents \in Nat

VARIABLES
  prog,    \* the program
  at,      \* the call it is at
  wait,    \* what the call waits for, or "none"
  conn,    \* connections made so far
  link,    \* the /ws connection: "none", "up", "closed"
  reqId,   \* Client.next_request_id
  session, \* Client.active_session_id, 0 for None
  domain,  \* Client.active_session_domain
  seen,    \* what a drain loop has seen of "done" and "ended"
  got,     \* the last answer to a start: its connection, request and session
  missed,  \* a call threw away the end or an error of a session
  up,      \* frames from the client to the gateway
  down,    \* messages from the gateway to the client
  active,  \* active_session of the gateway's handler, 0 for None
  ses,     \* the sessions started: domain, state, origin, number of events
  refused  \* requests that were answered by an error that does not name them

clientVars  == <<prog, at, wait, reqId, session, domain, seen, got, missed>>
gatewayVars == <<active, ses, refused>>
vars == <<clientVars, conn, link, up, down, gatewayVars>>

Session   == 1..MaxSessions
NoDomain  == "none"
FrameKind == {"hello", "discover", "voices", "start_asr", "start_tts",
              "audio", "append", "commit_asr", "commit_tts", "stop"}
ReplyKind == {"hello_ok", "discover_result", "voices_result", "started",
              "asr_result", "audio_delta", "done", "ended", "error"}

\* request_id and session_id of a frame or message; 0 for None.  An audio frame
\* carries neither: its session is the one the client means it for.
Msg(kind, req, s) == [kind |-> kind, req |-> req, session |-> s]

(* Every variable holds a value of its type. *)
TypeOK ==
  /\ prog \in Program
  /\ at \in 1..(Len(prog.calls) + 1)
  /\ wait \in {"none", "hello", "discover", "voices", "start", "recv",
               "drain_asr", "drain_tts", "control"}
  /\ conn \in Nat /\ reqId \in Nat
  /\ link \in {"none", "up", "closed"}
  /\ session \in {0} \cup Session
  /\ domain \in Domain \cup {NoDomain}
  /\ seen \subseteq {"done", "ended"}
  /\ got \in [conn : Nat, req : Nat, session : {0} \cup Session]
  /\ missed \in BOOLEAN
  /\ up \in Seq([kind : FrameKind, req : Nat, session : {0} \cup Session])
  /\ down \in Seq([kind : ReplyKind, req : Nat, session : {0} \cup Session])
  /\ active \in {0} \cup Session
  /\ ses \in Seq([domain : Domain, state : {"open", "asked", "over"},
                  conn : Nat, req : Nat, events : 0..MaxEvents])
  /\ Len(ses) <= MaxSessions
  /\ refused \subseteq Nat \X Nat

Init ==
  /\ prog \in Program
  /\ at = 1 /\ wait = "none"
  /\ conn = 0 /\ link = "none"
  /\ reqId = 0 /\ session = 0 /\ domain = NoDomain
  /\ seen = {} /\ got = [conn |-> 0, req |-> 0, session |-> 0] /\ missed = FALSE
  /\ up = <<>> /\ down = <<>>
  /\ active = 0 /\ ses = <<>> /\ refused = {}

-----------------------------------------------------------------------------
(* Programs.                                                               *)
Ended == at > Len(prog.calls)
AtCall(c) == wait = "none" /\ ~Ended /\ prog.calls[at] = c

\* Where a program goes on after an error.
AfterError ==
  CASE prog.onError = "stop"     -> Len(prog.calls) + 1
    [] prog.onError = "continue" -> at + 1
    [] prog.onError = "next"     ->
         LET later == {i \in (at + 1)..Len(prog.calls) : prog.calls[i] \in {"connect", "control"}}
         IN IF later = {} THEN Len(prog.calls) + 1
            ELSE CHOOSE i \in later : \A j \in later : i <= j

Succeed == wait' = "none" /\ at' = at + 1
Fail    == wait' = "none" /\ at' = AfterError

Send(kind, req, s) ==
  \/ link = "up" /\ up' = Append(up, Msg(kind, req, s))
  \/ link # "up" /\ UNCHANGED up

-----------------------------------------------------------------------------
(* Faulty variants of definitions below.  No specification uses them; each is *)
(* a plausible slip that one of the properties exists to exclude.             *)

\* The first session.started is taken for the answer, whatever it answers.
AnswersAnyStart(m) ==
  CASE wait = "hello"    -> m.kind = "hello_ok"
    [] wait = "discover" -> m.kind = "discover_result" /\ m.req = reqId
    [] wait = "voices"   -> m.kind = "voices_result" /\ m.req = reqId
    [] wait = "start"    -> m.kind = "started"
    [] wait = "recv"     -> TRUE
    [] OTHER             -> FALSE

\* observe_message looks only at what the waiting call wants.
ObserveAnswersOnly(m) ==
  /\ session' = IF m.kind = "started" /\ wait = "start" /\ m.req = reqId THEN m.session
                ELSE IF m.kind = "ended" /\ m.session = session THEN 0 ELSE session
  /\ domain' = IF m.kind = "started" THEN ses[m.session].domain
               ELSE IF m.kind = "ended" /\ m.session = session THEN NoDomain ELSE domain

\* Both loops wait for tts.audio.done.
DrainedBoth == {"done", "ended"} \subseteq seen'

\* The answer is compared with the id that was there before the request.
AnswersEarlierId(m) ==
  CASE wait = "hello"    -> m.kind = "hello_ok"
    [] wait = "discover" -> m.kind = "discover_result" /\ m.req + 1 = reqId
    [] wait = "voices"   -> m.kind = "voices_result" /\ m.req + 1 = reqId
    [] wait = "start"    -> m.kind = "started" /\ m.req + 1 = reqId
    [] wait = "recv"     -> TRUE
    [] OTHER             -> FALSE

\* Audio is sent as soon as there may be a session.
SendAudioEarly ==
  /\ AtCall("audio")
  /\ Send("audio", 0, session) /\ Succeed
  /\ UNCHANGED <<prog, conn, link, reqId, session, domain, seen, got, missed, down, gatewayVars>>

-----------------------------------------------------------------------------
(* The calls.  A call on a connection that is gone fails, or finds out later. *)

\* Client::connect; check_gateway does the same by hand.  The client of the
\* program's previous connection is dropped, and the gateway stops its session.
Connect ==
  /\ AtCall("connect")
  /\ conn' = conn + 1
  /\ reqId' = 0 /\ session' = 0 /\ domain' = NoDomain
  /\ down' = <<>> /\ active' = 0
  /\ ses' = [s \in DOMAIN ses |-> [ses[s] EXCEPT !.state = "over"]]
  /\ \/ link' = "up" /\ up' = <<Msg("hello", 0, 0)>> /\ wait' = "hello" /\ UNCHANGED at
     \/ link' = "closed" /\ up' = <<>> /\ Fail
  /\ UNCHANGED <<prog, seen, got, missed, refused>>

\* A request with an id of its own: discover, list_tts_voices, start_asr,
\* start_tts.
Ask(kind, waiting) ==
  /\ reqId' = reqId + 1
  /\ \/ Send(kind, reqId', 0) /\ wait' = waiting /\ UNCHANGED at
     \/ link = "closed" /\ Fail /\ UNCHANGED up
  /\ UNCHANGED <<prog, conn, link, session, domain, seen, got, missed, down, gatewayVars>>

Discover   == AtCall("discover") /\ link # "none" /\ Ask("discover", "discover")
ListVoices == AtCall("voices")   /\ link # "none" /\ Ask("voices", "voices")

\* start_asr, start_tts: refused without asking while the client knows of an
\* active session.
StartOf(d) == IF d = "asr" THEN "start_asr" ELSE "start_tts"

Start(d) ==
  /\ AtCall(StartOf(d)) /\ link # "none"
  /\ \/ session = 0 /\ Ask(StartOf(d), "start")
     \/ /\ session # 0 /\ Fail
        /\ UNCHANGED <<prog, conn, link, reqId, session, domain, seen, got, missed,
                       up, down, gatewayVars>>

\* A frame for the active session, or an error when there is none of its kind.
Input(kind, ready) ==
  /\ link # "none"
  /\ \/ ready /\ Send(kind, 0, session) /\ Succeed
     \/ (~ready \/ link = "closed") /\ Fail /\ UNCHANGED up
  /\ UNCHANGED <<prog, conn, link, reqId, session, domain, seen, got, missed, down, gatewayVars>>

SendAudio == AtCall("audio")  /\ Input("audio", domain = "asr")
AppendTts == AtCall("append") /\ Input("append", domain = "tts" /\ session # 0)
Commit    == AtCall("commit") /\ Input(IF domain = "asr" THEN "commit_asr" ELSE "commit_tts",
                                       session # 0 /\ domain # NoDomain)
Stop      == AtCall("stop")   /\ Input("stop", session # 0)

\* recv, and the loops of stream_tts_to_sink and run_asr_transcribe.
Read ==
  /\ ~Ended /\ prog.calls[at] \in {"recv", "drain_asr", "drain_tts"}
  /\ wait = "none" /\ link # "none"
  /\ wait' = prog.calls[at]
  /\ seen' = {}
  /\ UNCHANGED <<prog, at, conn, link, reqId, session, domain, got, missed, up, down, gatewayVars>>

\* request_control_to_url: one request on a connection to /control, which is
\* answered, refused, or cut.
ControlAsk ==
  /\ AtCall("control")
  /\ wait' = "control"
  /\ UNCHANGED <<prog, at, conn, link, reqId, session, domain, seen, got, missed,
                 up, down, gatewayVars>>

ControlReply ==
  /\ wait = "control"
  /\ Succeed \/ Fail
  /\ UNCHANGED <<prog, conn, link, reqId, session, domain, seen, got, missed,
                 up, down, gatewayVars>>

CloseCall ==
  /\ AtCall("close")
  /\ link' = IF link = "up" THEN "closed" ELSE link
  /\ Succeed
  /\ UNCHANGED <<prog, conn, reqId, session, domain, seen, got, missed, up, down, gatewayVars>>

-----------------------------------------------------------------------------
(* Messages from the gateway.                                              *)

\* observe_message, for every message, whoever it is for.
Observe(m) ==
  /\ session' = IF m.kind = "started" THEN m.session
                ELSE IF m.kind = "ended" /\ m.session = session THEN 0 ELSE session
  /\ domain' = IF m.kind = "started" THEN ses[m.session].domain
               ELSE IF m.kind = "ended" /\ m.session = session THEN NoDomain ELSE domain

\* The message is the answer the call waits for...
Answers(m) ==
  CASE wait = "hello"    -> m.kind = "hello_ok"
    [] wait = "discover" -> m.kind = "discover_result" /\ m.req = reqId
    [] wait = "voices"   -> m.kind = "voices_result" /\ m.req = reqId
    [] wait = "start"    -> m.kind = "started" /\ m.req = reqId
    [] wait = "recv"     -> TRUE
    [] OTHER             -> FALSE

\* ... or the error: any, for the handshake and the loops of the command line
\* tool, the one that names the request for the calls of the SDK.
Refuses(m) ==
  /\ m.kind = "error"
  /\ \/ wait \in {"hello", "drain_asr", "drain_tts"}
     \/ wait \in {"discover", "voices", "start"} /\ m.req = reqId

\* stream_tts_to_sink reads until tts.audio.done and session.ended,
\* run_asr_transcribe until session.ended; neither looks at the session's id.
Drained == IF wait = "drain_tts" THEN {"done", "ended"} \subseteq seen' ELSE "ended" \in seen'

Receive ==
  /\ wait \notin {"none", "control"} /\ link # "none" /\ down # <<>>
  /\ down' = Tail(down)
  /\ LET m == Head(down) IN
       /\ Observe(m)
       /\ seen' = IF wait \in {"drain_asr", "drain_tts"}
                  THEN seen \cup ({m.kind} \cap {"done", "ended"}) ELSE seen
       /\ missed' = (missed \/ (wait \in {"discover", "voices", "start"}
                               /\ m.kind \in {"ended", "done", "error"} /\ m.session # 0))
       /\ got' = IF wait = "start" /\ Answers(m)
                 THEN [conn |-> conn, req |-> reqId, session |-> m.session] ELSE got
       /\ \/ Refuses(m) /\ Fail
          \/ Answers(m) /\ Succeed
          \/ wait \in {"drain_asr", "drain_tts"} /\ ~Refuses(m) /\ Drained /\ Succeed
          \/ /\ ~Refuses(m) /\ ~Answers(m)
             /\ ~(wait \in {"drain_asr", "drain_tts"} /\ Drained)
             /\ UNCHANGED <<wait, at>>
  /\ UNCHANGED <<prog, conn, link, reqId, up, gatewayVars>>

\* The connection has ended, and everything that arrived has been read.
ReceiveEnd ==
  /\ wait \notin {"none", "control"} /\ link = "closed" /\ down = <<>>
  /\ Fail
  /\ UNCHANGED <<prog, conn, link, reqId, session, domain, seen, got, missed,
                 up, down, gatewayVars>>

\* The caller drops the call, as a timeout around it does; what it asked for
\* may still be answered.  The command line tool has no timeouts.
GiveUp ==
  /\ wait \notin {"none", "hello"} /\ ~prog.patient
  /\ wait' = "none" /\ at' = at + 1
  /\ UNCHANGED <<prog, conn, link, reqId, session, domain, seen, got, missed,
                 up, down, gatewayVars>>

-----------------------------------------------------------------------------
(* The gateway.                                                            *)

Say(ms) == down' = down \o ms

\* handle_client_websocket reports every error of handle_client_message with
\* the active session's id and no request id.
Deny(f) ==
  /\ Say(<<Msg("error", 0, active)>>)
  /\ refused' = IF f.req # 0 THEN refused \cup {<<conn, f.req>>} ELSE refused

TakeFrame == link = "up" /\ up # <<>> /\ up' = Tail(up)

\* hello, discover, tts.voices: the provider may fail to list its voices.
HandleQuery ==
  /\ TakeFrame
  /\ LET f == Head(up) IN
       \/ f.kind = "hello"    /\ Say(<<Msg("hello_ok", 0, 0)>>) /\ UNCHANGED refused
       \/ f.kind = "discover" /\ Say(<<Msg("discover_result", f.req, 0)>>) /\ UNCHANGED refused
       \/ f.kind = "voices"   /\ Say(<<Msg("voices_result", f.req, 0)>>) /\ UNCHANGED refused
       \/ f.kind = "voices"   /\ Deny(f)
  /\ UNCHANGED <<clientVars, conn, link, active, ses>>

EndOf(s, d) == IF d = "tts" THEN <<Msg("done", 0, s), Msg("ended", 0, s)>>
               ELSE <<Msg("ended", 0, s)>>

\* asr.start, tts.start: refused while there is an active session or when no
\* bridge takes it.  The event pump runs before session.started is queued, and
\* a session that fails at once can end before it.
HandleStart ==
  /\ TakeFrame
  /\ LET f == Head(up)
         d == IF f.kind = "start_asr" THEN "asr" ELSE "tts"
         s == Len(ses) + 1
         new(state, n) == Append(ses, [domain |-> d, state |-> state, conn |-> conn,
                                       req |-> f.req, events |-> n])
     IN /\ f.kind \in {"start_asr", "start_tts"}
        /\ \/ Deny(f) /\ UNCHANGED <<active, ses>>
           \/ /\ active = 0 /\ s <= MaxSessions
              /\ active' = s /\ UNCHANGED refused
              /\ \/ Say(<<Msg("started", f.req, s)>>) /\ ses' = new("open", 0)
                 \/ Say(EndOf(s, d) \o <<Msg("started", f.req, s)>>) /\ ses' = new("over", 0)
  /\ UNCHANGED <<clientVars, conn, link>>

\* Binary audio goes to the active session; tts.input.append, asr.commit and
\* tts.commit must name it.  A bridge that has returned takes nothing more, or
\* takes it and keeps silent.
HandleInput ==
  /\ TakeFrame
  /\ LET f == Head(up)
         d == IF f.kind \in {"audio", "commit_asr"} THEN "asr" ELSE "tts"
         mine == active # 0 /\ ses[active].domain = d /\ (f.kind = "audio" \/ f.session = active)
     IN /\ f.kind \in {"audio", "append", "commit_asr", "commit_tts"}
        /\ \/ /\ mine
              /\ ses' = IF f.kind \in {"commit_asr", "commit_tts"} /\ ses[active].state = "open"
                        THEN [ses EXCEPT ![active].state = "asked"] ELSE ses
              /\ UNCHANGED <<down, refused>>
           \/ (mine => ses[active].state = "over") /\ Deny(f) /\ UNCHANGED ses
  /\ UNCHANGED <<clientVars, conn, link, active>>

\* session.stop: active_session is given up only when the bridge takes it.
HandleStop ==
  /\ TakeFrame
  /\ LET f == Head(up)
         mine == active # 0 /\ f.session = active
     IN /\ f.kind = "stop"
        /\ \/ /\ mine
              /\ active' = 0
              /\ ses' = IF ses[active].state = "open"
                        THEN [ses EXCEPT ![active].state = "asked"] ELSE ses
              /\ UNCHANGED <<down, refused>>
           \/ (mine => ses[active].state = "over") /\ Deny(f) /\ UNCHANGED <<active, ses>>
  /\ UNCHANGED <<clientVars, conn, link>>

Pumped(s) == link = "up" /\ s \in DOMAIN ses /\ ses[s].state # "over"

\* A session's results and provider errors.
PumpEvent(s) ==
  /\ Pumped(s) /\ ses[s].events < MaxEvents
  /\ ses' = [ses EXCEPT ![s].events = @ + 1]
  /\ Say(<<Msg("error", 0, s)>>)
     \/ Say(<<Msg(IF ses[s].domain = "asr" THEN "asr_result" ELSE "audio_delta", 0, s)>>)
  /\ UNCHANGED <<clientVars, conn, link, up, active, refused>>

\* The end of a session, asked for or not; the MiniMax ASR bridge reports a
\* failed call and returns without one.
PumpEnd(s) ==
  /\ Pumped(s)
  /\ ses' = [ses EXCEPT ![s].state = "over"]
  /\ \/ Say(EndOf(s, ses[s].domain))
     \/ ses[s].domain = "asr" /\ Say(<<Msg("error", 0, s)>>)
  /\ UNCHANGED <<clientVars, conn, link, up, active, refused>>

\* The connection breaks, or the gateway goes away.
Hangup ==
  /\ link = "up"
  /\ link' = "closed"
  /\ UNCHANGED <<clientVars, conn, up, down, gatewayVars>>

-----------------------------------------------------------------------------
ClientStep ==
  \/ Connect \/ Discover \/ ListVoices \/ (\E d \in Domain : Start(d))
  \/ SendAudio \/ AppendTts \/ Commit \/ Stop \/ Read
  \/ ControlAsk \/ CloseCall \/ Receive \/ ReceiveEnd

GatewayStep == HandleQuery \/ HandleStart \/ HandleInput \/ HandleStop

Next ==
  \/ ClientStep \/ GatewayStep \/ ControlReply \/ GiveUp \/ Hangup
  \/ \E s \in DOMAIN ses : PumpEvent(s) \/ PumpEnd(s)

Spec == Init /\ [][Next]_vars

\* Both ends run, a control request is answered (EveryRequestAnswered of
\* AgentRegistry), and a session that was asked to end does or reports an error
\* (AskedEnds of ClientSession).
FairSpec ==
  /\ Spec
  /\ WF_vars(ClientStep) /\ WF_vars(GatewayStep) /\ WF_vars(ControlReply)
  /\ \A s \in Session : WF_vars(s \in DOMAIN ses /\ ses[s].state = "asked" /\ PumpEnd(s))

-----------------------------------------------------------------------------
(* A session that runs on the gateway is known to the client, or about to be:
   also when the call that asked for it was given up.  Otherwise nobody could
   stop it, and every later start would be refused. *)
RunningSessionIsKnown ==
  link = "up" /\ active # 0 /\ ses[active].state # "over" =>
    \/ session = active
    \/ \E i \in DOMAIN down : down[i].kind = "started" /\ down[i].session = active

(* A start returns the session that the gateway started for it, not the late
   answer to an earlier start that was given up. *)
AnswerIsOwn ==
  got.session # 0 =>
    ses[got.session].conn = got.conn /\ ses[got.session].req = got.req

(* Audio frames carry no session id: whatever session receives one is the
   session the client meant. *)
AudioReachesMeant ==
  link = "up" /\ up # <<>> /\ Head(up).kind = "audio" /\ active # 0 => Head(up).session = active

\* The gateway refused the request without naming it: the client, which takes
\* only an error with the request's id for its answer, waits on.
Unnamed == wait \in {"discover", "voices", "start"} /\ <<conn, reqId>> \in refused

(* Every call that waits for an answer of its own returns, whatever else
   arrives meanwhile, with the exception above. *)
CallsReturn ==
  (wait \in {"hello", "discover", "voices", "start", "control"}) ~> (wait = "none" \/ Unnamed)

(* "close the connection or start a new session" (docs/sdk-guide.md:35): the
   start of a session returns, also the one after a session that was committed
   and has ended. *)
StartReturns == wait = "start" ~> wait = "none"

(* Every command of the command line tool comes to its end: what it waits for
   arrives, or an error, or the end of the connection.  There are two
   exceptions: the one above, and a session that ends before session.started,
   whose end the waiting start throws away. *)
CommandsFinish == (prog.patient /\ prog.onError # "continue") ~> (Ended \/ Unnamed \/ missed)
=============================================================================
