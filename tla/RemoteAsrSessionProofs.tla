----------------------- MODULE RemoteAsrSessionProofs -----------------------
(* Proofs about ASR sessions on a remote agent, for any number of sessions,  *)
(* of connections of the agent and of messages.                              *)
EXTENDS RemoteAsrSession, TLAPS

USE RemoteAssumption

\* A handler holds orphaned sessions only between a sweep and its end, so that a
\* sweep overwrites none.
LostHeld ==
  \A c \in Conn :
    lost[c] # {} => connPc[c] \in {"claiming", "settling", "releasing", "draining"}

\* The acknowledgement a start is owed has a sender from the moment the session
\* is registered, before anybody waits for it.
AckOwed ==
  \A s \in Session :
    /\ startPc[s] \in {"start", "wait"} /\ ack[s] = "pending" =>
         route[s] = "pending" \/ InLost(s, "pending")
    /\ route[s] = "started" => ack[s] # "pending"

\* A session that is live, or whose start has only to take its acknowledgement.
AlmostLive(s) == startPc[s] = "live" \/ (startPc[s] = "wait" /\ ack[s] = "ok")

EndOwed ==
  \A s \in Session :
    AlmostLive(s) /\ ~Told(s) =>
      route[s] = "started" \/ InLost(s, "started") \/ forwarder[s] = "closing"

\* Only a call that has selected its agent has a route.
RouteSelected ==
  \A s \in Session : startPc[s] = "idle" \/ via[s] = None => route[s] = "none"

\* The agent is asked after that, and it is the agent that says yes.
AskedFirst ==
  \A s \in Session :
    /\ startPc[s] \in {"idle", "register", "start"} => agent[s] = "none"
    /\ agent[s] \in {"none", "asked"} => ack[s] # "ok"

(* With TypeOK the inductive invariant. *)
RemoteInv ==
  /\ TypeOK
  /\ LostHeld /\ AckOwed /\ EndOwed
  /\ RouteSelected /\ AskedFirst /\ StartedRouteServed

LEMMA RemoteStarts == Init => RemoteInv
<1> SUFFICES ASSUME Init PROVE RemoteInv
  OBVIOUS
<1>1. TypeOK
  BY DEF Init, TypeOK
<1>2. LostHeld /\ AckOwed /\ EndOwed /\ RouteSelected /\ AskedFirst /\ StartedRouteServed
  BY DEF Init, LostHeld, AckOwed, EndOwed, AlmostLive, RouteSelected, AskedFirst, StartedRouteServed
<1> QED BY <1>1, <1>2 DEF RemoteInv

-----------------------------------------------------------------------------
(* Helpers of the model.                                                   *)

\* What is appended to a session's events does not untell its end.
LEMMA ToldKept ==
  ASSUME TypeOK, NEW s \in Session, NEW es \in Seq({"result", "error", "ended"}),
         events'[s] = events[s] \o es
  PROVE  /\ Told(s) => Told(s)'
         /\ (\E i \in 1..Len(es) : es[i] = "ended") => Told(s)'
<1>1. events[s] \in Seq({"result", "error", "ended"})
  BY DEF TypeOK
<1>2. /\ Len(events[s] \o es) = Len(events[s]) + Len(es)
      /\ \A i \in 1..Len(events[s]) : (events[s] \o es)[i] = events[s][i]
      /\ \A i \in 1..Len(es) : (events[s] \o es)[Len(events[s]) + i] = es[i]
      /\ Len(events[s]) \in Nat /\ Len(es) \in Nat
  BY <1>1
<1>3. Told(s) => Told(s)'
  BY <1>2 DEF Told
<1>4. ASSUME NEW i \in 1..Len(es), es[i] = "ended" PROVE Told(s)'
  <2>1. Len(events[s]) + i \in 1..Len(events'[s]) /\ events'[s][Len(events[s]) + i] = "ended"
    BY <1>2, <1>4
  <2> QED BY <2>1 DEF Told
<1> QED BY <1>3, <1>4

Ends == {<<"error", "ended">>, <<"ended">>}

LEMMA EndsTell ==
  ASSUME NEW es \in Ends
  PROVE  es \in Seq({"result", "error", "ended"}) /\ \E i \in 1..Len(es) : es[i] = "ended"
<1>1. CASE es = <<"error", "ended">>
  <2>1. Len(es) = 2 /\ es[2] = "ended"
    BY <1>1
  <2> QED BY <1>1, <2>1
<1>2. CASE es = <<"ended">>
  <2>1. Len(es) = 1 /\ es[1] = "ended"
    BY <1>2
  <2> QED BY <1>2, <2>1
<1> QED BY <1>1, <1>2 DEF Ends

\* What Tell does to the acknowledgement and to who has been told.
LEMMA TellTells ==
  ASSUME TypeOK, NEW s \in Session, NEW r \in {"none", "pending", "started"}, NEW es \in Ends,
         Tell(s, r, es)
  PROVE  /\ ack' \in [Session -> {"pending", "ok", "err"}]
         /\ events' \in [Session -> Seq({"result", "error", "ended"})]
         /\ \A q \in Session : Told(q) => Told(q)'
         /\ \A q \in Session : ack'[q] = IF q = s /\ r = "pending" THEN "err" ELSE ack[q]
         /\ r = "started" => Told(s)'
<1> USE DEF TypeOK
<1>1. CASE r = "pending"
  <2>1. events' = events /\ ack' = [ack EXCEPT ![s] = "err"]
    BY <1>1 DEF Tell
  <2>2. \A q \in Session : Told(q) => Told(q)'
    BY <2>1 DEF Told
  <2> QED BY <1>1, <2>1, <2>2
<1>2. CASE r # "pending"
  <2> DEFINE new == IF r = "started" THEN es ELSE <<>>
  <2>1. ack' = ack /\ events' = [events EXCEPT ![s] = events[s] \o new]
    BY <1>2 DEF Tell
  <2>2. new \in Seq({"result", "error", "ended"})
    BY EndsTell
  <2>3. events'[s] = events[s] \o new /\ \A q \in Session \ {s} : events'[q] = events[q]
    BY <2>1
  <2> HIDE DEF new
  <2>4. events[s] \o new \in Seq({"result", "error", "ended"})
    BY <2>2
  <2>5. events' \in [Session -> Seq({"result", "error", "ended"})]
    BY <2>1, <2>4
  <2>6. Told(s) => Told(s)'
    BY <2>2, <2>3, ToldKept
  <2>7. r = "started" => Told(s)'
    BY <2>2, <2>3, ToldKept, EndsTell DEF new
  <2>8. \A q \in Session \ {s} : Told(q) => Told(q)'
    BY <2>3 DEF Told
  <2> QED BY <1>2, <2>1, <2>5, <2>6, <2>7, <2>8
<1> QED BY <1>1, <1>2

\* remove_orphaned_sessions moves every route into the hands of the handler.
LEMMA SweepMoves ==
  ASSUME TypeOK, LostHeld, NEW c \in Conn, connPc[c] \in {"new", "leaving"}, Sweep(c)
  PROVE  /\ route' \in [Session -> {"none", "pending", "started"}]
         /\ lost' \in [Conn -> SUBSET (Session \X {"pending", "started"})]
         /\ \A s \in Session : route'[s] = "none"
         /\ \A d \in Conn : lost[d] \subseteq lost'[d]
         /\ \A s \in Session : route[s] # "none" => \E d \in Conn : <<s, route[s]>> \in lost'[d]
         /\ \A d \in Conn \ {c} : lost'[d] = lost[d]
<1> DEFINE new == {<<s, route[s]>> : s \in {q \in Session : route[q] # "none"}}
<1>1. lost' = [lost EXCEPT ![c] = new] /\ route' = [s \in Session |-> "none"]
  BY DEF Sweep
<1>2. new \subseteq Session \X {"pending", "started"}
  BY DEF TypeOK
<1>3. lost[c] = {}
  BY DEF LostHeld
<1>4. \A s \in Session : route[s] # "none" => <<s, route[s]>> \in new
  OBVIOUS
<1> HIDE DEF new
<1>5. lost' \in [Conn -> SUBSET (Session \X {"pending", "started"})] /\ lost'[c] = new
      /\ \A d \in Conn \ {c} : lost'[d] = lost[d]
  BY <1>1, <1>2 DEF TypeOK
<1>6. ASSUME NEW s \in Session, route[s] # "none" PROVE \E d \in Conn : <<s, route[s]>> \in lost'[d]
  BY <1>4, <1>5, <1>6
<1>7. \A d \in Conn : lost[d] \subseteq lost'[d]
  BY <1>3, <1>5
<1>8. /\ route' \in [Session -> {"none", "pending", "started"}]
      /\ \A s \in Session : route'[s] = "none"
  BY <1>1
<1> QED BY <1>5, <1>6, <1>7, <1>8

-----------------------------------------------------------------------------
(* The steps of a start, its owner and its forwarder.                      *)

\* Nothing is heard and no handler acts.
LEMMA StartTypes ==
  ASSUME TypeOK, NEW s \in Session, StartStep(s) \/ OwnerStep(s), ~FailStart(s)
  PROVE  TypeOK'
<1> USE DEF TypeOK, startVars, connVars, GoTo
<1>1. CASE SelectAgent(s)
  BY <1>1 DEF SelectAgent
<1>2. CASE RegisterSession(s)
  BY <1>2 DEF RegisterSession
<1>3. CASE SendStart(s)
  <2>1. CASE writer[via[s]] = "up"
    <3>1. /\ startPc' = [startPc EXCEPT ![s] = "wait"]
          /\ forwarder' = [forwarder EXCEPT ![s] = "run"]
          /\ agent' = [agent EXCEPT ![s] = "asked"]
          /\ startPc[s] = "start"
      BY <1>3, <2>1 DEF SendStart
    <3> QED BY <1>3, <3>1 DEF SendStart
  <2>2. CASE writer[via[s]] # "up"
    BY <1>3, <2>2, ZenonT(40) DEF SendStart
  <2> QED BY <2>1, <2>2
<1>4. CASE ReceiveAck(s)
  BY <1>4 DEF ReceiveAck
<1>5. CASE StartTimeout(s)
  BY <1>5 DEF StartTimeout
<1>6. CASE ReportClosed(s)
  <2>1. events' \in [Session -> Seq({"result", "error", "ended"})]
    BY <1>6 DEF ReportClosed
  <2> QED BY <1>6, <2>1 DEF ReportClosed
<1>7. CASE ForwarderReturns(s)
  BY <1>7 DEF ForwarderReturns
<1>8. CASE ForwardCommand(s)
  BY <1>8 DEF ForwardCommand
<1>9. CASE DropHandle(s)
  BY <1>9 DEF DropHandle
<1> QED BY <1>1, <1>2, <1>3, <1>4, <1>5, <1>6, <1>7, <1>8, <1>9 DEF StartStep, OwnerStep

LEMMA StartKeeps ==
  ASSUME RemoteInv, NEW s \in Session, StartStep(s) \/ OwnerStep(s), ~FailStart(s)
  PROVE  RemoteInv'
<1> USE DEF TypeOK, startVars, connVars, GoTo
<1>1. TypeOK'
  BY StartTypes DEF RemoteInv
<1>2. /\ UNCHANGED <<ack, lost, connPc>>
      /\ \A q \in Session \ {s} :
           UNCHANGED <<route[q], startPc[q], via[q], forwarder[q], agent[q], events[q]>>
  BY DEF RemoteInv, StartStep, OwnerStep, SelectAgent, RegisterSession, SendStart, ReceiveAck, StartTimeout,
         ReportClosed, ForwarderReturns, ForwardCommand, DropHandle
<1>3. LostHeld'
  BY <1>2 DEF RemoteInv, LostHeld
<1>4. RouteSelected' /\ StartedRouteServed'
  <2>1. startPc'[s] = "idle" \/ via'[s] = None =>
          (startPc[s] = "idle" \/ via[s] = None) /\ route'[s] = route[s]
    BY RemoteAssumption DEF RemoteInv, StartStep, OwnerStep, SelectAgent, RegisterSession, SendStart,
           ReceiveAck, StartTimeout, ReportClosed, ForwarderReturns, ForwardCommand, DropHandle
  <2>2. route'[s] = "started" => route[s] = "started" /\ (startPc[s] = "idle" \/ via'[s] = via[s])
    BY DEF RemoteInv, StartStep, OwnerStep, SelectAgent, RegisterSession, SendStart, ReceiveAck,
           StartTimeout, ReportClosed, ForwarderReturns, ForwardCommand, DropHandle
  <2>3. RouteSelected'
    BY <1>2, <2>1 DEF RemoteInv, RouteSelected
  <2>4. StartedRouteServed'
    BY <1>2, <2>2, ZenonT(40) DEF RemoteInv, RouteSelected, StartedRouteServed, Swept
  <2> QED BY <2>3, <2>4
<1>5. \A q \in Session, r \in {"pending", "started"} : InLost(q, r)' <=> InLost(q, r)
  BY <1>2 DEF InLost
<1>6. AskedFirst' /\ AckOwed'
  <2>1. startPc'[s] \in {"idle", "register", "start"} =>
          startPc[s] \in {"idle", "register", "start"} /\ agent'[s] = agent[s]
    BY DEF RemoteInv, StartStep, OwnerStep, SelectAgent, RegisterSession, SendStart, ReceiveAck,
           StartTimeout, ReportClosed, ForwarderReturns, ForwardCommand, DropHandle
  <2>2. agent'[s] \in {"none", "asked"} => agent[s] \in {"none", "asked"}
    <3>1. agent'[s] = agent[s] \/ startPc[s] = "start"
      BY DEF RemoteInv, StartStep, OwnerStep, SelectAgent, RegisterSession, SendStart, ReceiveAck,
             StartTimeout, ReportClosed, ForwarderReturns, ForwardCommand, DropHandle
    <3> QED BY <3>1 DEF RemoteInv, AskedFirst
  <2>3. startPc'[s] \in {"start", "wait"} =>
          (startPc[s] \in {"start", "wait"} /\ route'[s] = route[s]) \/ route'[s] = "pending"
    BY DEF RemoteInv, StartStep, OwnerStep, SelectAgent, RegisterSession, SendStart, ReceiveAck,
           StartTimeout, ReportClosed, ForwarderReturns, ForwardCommand, DropHandle
  <2>4. route'[s] = "started" => route[s] = "started"
    BY DEF RemoteInv, StartStep, OwnerStep, SelectAgent, RegisterSession, SendStart, ReceiveAck,
           StartTimeout, ReportClosed, ForwarderReturns, ForwardCommand, DropHandle
  <2>5. AskedFirst'
    BY <1>2, <2>1, <2>2 DEF RemoteInv, AskedFirst
  <2>6. AckOwed'
    BY <1>2, <1>5, <2>3, <2>4, ZenonT(40) DEF RemoteInv, AckOwed
  <2> QED BY <2>5, <2>6
<1>7. EndOwed'
  <2>1. \A q \in Session \ {s} : Told(q)' <=> Told(q)
    BY <1>2 DEF Told
  <2>2. CASE ReportClosed(s)
    <3>1. events'[s] = events[s] \o <<"error", "ended">>
      BY <2>2 DEF ReportClosed, RemoteInv
    <3>2. Told(s)'
      BY <3>1, ToldKept, EndsTell DEF Ends, RemoteInv
    <3>3. \A q \in Session \ {s} : AlmostLive(q)' <=> AlmostLive(q)
      BY <1>2 DEF AlmostLive
    <3> QED BY <1>2, <1>5, <2>1, <3>2, <3>3, ZenonT(40) DEF RemoteInv, EndOwed
  <2>3. CASE ~ReportClosed(s)
    <3>1. events' = events
      BY <2>3 DEF StartStep, OwnerStep, SelectAgent, RegisterSession, SendStart, ReceiveAck, StartTimeout,
         ForwarderReturns, ForwardCommand, DropHandle
    <3>2. Told(s)' <=> Told(s)
      BY <3>1 DEF Told
    <3>3. AlmostLive(s)' => /\ AlmostLive(s) /\ route'[s] = route[s]
                            /\ forwarder[s] = "closing" => forwarder'[s] = "closing"
      BY <2>3 DEF RemoteInv, AskedFirst, AlmostLive, StartStep, OwnerStep, SelectAgent, RegisterSession, SendStart, ReceiveAck,
         StartTimeout, ForwarderReturns, ForwardCommand, DropHandle
    <3>4. \A q \in Session \ {s} : AlmostLive(q)' <=> AlmostLive(q)
      BY <1>2 DEF AlmostLive
    <3>5. ASSUME NEW q \in Session \ {s}, AlmostLive(q)', ~Told(q)'
          PROVE  route'[q] = "started" \/ InLost(q, "started")' \/ forwarder'[q] = "closing"
      BY <1>2, <1>5, <2>1, <3>4, <3>5 DEF RemoteInv, EndOwed
    <3>6. ASSUME AlmostLive(s)', ~Told(s)'
          PROVE  route'[s] = "started" \/ InLost(s, "started")' \/ forwarder'[s] = "closing"
      BY <1>5, <3>2, <3>3, <3>6 DEF RemoteInv, EndOwed
    <3> QED BY <3>5, <3>6 DEF EndOwed
  <2> QED BY <2>2, <2>3
<1> QED BY <1>1, <1>3, <1>4, <1>6, <1>7 DEF RemoteInv

-----------------------------------------------------------------------------
(* The end of a session, however it is told.                               *)

\* remove_session with what follows it, by whoever calls it.
LEMMA RemoveKeeps ==
  ASSUME RemoteInv, NEW s \in Session, NEW es \in Ends, RemoveSession(s, es),
         UNCHANGED <<lost, via, connPc, forwarder>>,
         \A q \in Session : startPc'[q] \in {startPc[q], "failed"},
         \A q \in Session : agent'[q] = agent[q] \/ (agent[q] # "none" /\ agent'[q] = "off")
  PROVE  /\ route' \in [Session -> {"none", "pending", "started"}]
         /\ ack' \in [Session -> {"pending", "ok", "err"}]
         /\ events' \in [Session -> Seq({"result", "error", "ended"})]
         /\ TypeOK' => RemoteInv'
<1>1. route \in [Session -> {"none", "pending", "started"}]
  BY DEF RemoteInv, TypeOK
<1>2. route' = [route EXCEPT ![s] = "none"] /\ Tell(s, route[s], es)
  BY DEF RemoveSession
<1>3. /\ ack' \in [Session -> {"pending", "ok", "err"}]
      /\ events' \in [Session -> Seq({"result", "error", "ended"})]
      /\ \A q \in Session : Told(q) => Told(q)'
      /\ \A q \in Session : ack'[q] = IF q = s /\ route[s] = "pending" THEN "err" ELSE ack[q]
      /\ route[s] = "started" => Told(s)'
  BY <1>1, <1>2, TellTells DEF RemoteInv
<1>4. \A q \in Session, r \in {"pending", "started"} : InLost(q, r)' <=> InLost(q, r)
  BY DEF InLost
<1>5. \A q \in Session : /\ AlmostLive(q)' => AlmostLive(q)
                         /\ route'[q] = IF q = s THEN "none" ELSE route[q]
  BY <1>1, <1>2, <1>3 DEF AlmostLive
<1>6. LostHeld' /\ RouteSelected' /\ AskedFirst'
  BY <1>3, <1>5, ZenonT(40) DEF RemoteInv, LostHeld, RouteSelected, AskedFirst
<1>7. StartedRouteServed'
  BY <1>5 DEF RemoteInv, StartedRouteServed, Swept
<1>8. AckOwed'
  BY <1>3, <1>4, <1>5 DEF RemoteInv, AckOwed
<1>9. EndOwed'
  BY <1>3, <1>4, <1>5 DEF RemoteInv, EndOwed
<1> QED BY <1>1, <1>2, <1>3, <1>6, <1>7, <1>8, <1>9 DEF RemoteInv

\* finish_agent_removal for one session.
LEMMA SettleKeeps ==
  ASSUME RemoteInv, NEW c \in Conn, NEW s \in Session, NEW r \in {"pending", "started"},
         SettleLost(c, s, r)
  PROVE  RemoteInv'
<1>1. <<"error", "ended">> \in Ends /\ r \in {"none", "pending", "started"}
  BY DEF Ends
<1>2. /\ Tell(s, r, <<"error", "ended">>)
      /\ lost' = [lost EXCEPT ![c] = @ \ {<<s, r>>}]
      /\ UNCHANGED <<registered, route, startPc, via, forwarder, traffic, agent, connPc, message, writer>>
  BY DEF SettleLost, startVars
<1>3. /\ ack' \in [Session -> {"pending", "ok", "err"}]
      /\ events' \in [Session -> Seq({"result", "error", "ended"})]
      /\ \A q \in Session : Told(q) => Told(q)'
      /\ \A q \in Session : ack'[q] = IF q = s /\ r = "pending" THEN "err" ELSE ack[q]
      /\ r = "started" => Told(s)'
  BY <1>1, <1>2, TellTells DEF RemoteInv
<1>4. /\ lost' \in [Conn -> SUBSET (Session \X {"pending", "started"})]
      /\ \A d \in Conn : lost'[d] \subseteq lost[d]
      /\ \A d \in Conn : \A x \in lost[d] : x # <<s, r>> => x \in lost'[d]
  BY <1>2 DEF RemoteInv, TypeOK
<1>5. TypeOK'
  BY <1>2, <1>3, <1>4 DEF RemoteInv, TypeOK
<1>6. \A q \in Session, k \in {"pending", "started"} :
        InLost(q, k) /\ <<q, k>> # <<s, r>> => InLost(q, k)'
  BY <1>4 DEF InLost
<1>7. \A q \in Session : AlmostLive(q)' => AlmostLive(q)
  BY <1>2, <1>3 DEF AlmostLive
<1>8. LostHeld'
  BY <1>2, <1>4 DEF RemoteInv, LostHeld
<1>9. RouteSelected' /\ AskedFirst' /\ StartedRouteServed'
  BY <1>2, <1>3 DEF RemoteInv, RouteSelected, AskedFirst, StartedRouteServed, Swept
<1>10. AckOwed'
  BY <1>2, <1>3, <1>6 DEF RemoteInv, AckOwed
<1>11. EndOwed'
  BY <1>2, <1>3, <1>6, <1>7 DEF RemoteInv, EndOwed
<1> QED BY <1>5, <1>8, <1>9, <1>10, <1>11 DEF RemoteInv

LEMMA FailKeeps ==
  ASSUME RemoteInv, NEW s \in Session, FailStart(s)
  PROVE  RemoteInv'
<1>1. <<"error", "ended">> \in Ends
  BY DEF Ends
<1>2. /\ RemoveSession(s, <<"error", "ended">>)
      /\ startPc' = [startPc EXCEPT ![s] = "failed"]
      /\ UNCHANGED <<registered, via, forwarder, traffic, agent, connPc, lost, message, writer>>
  BY DEF FailStart, GoTo, connVars
<1>3. \A q \in Session : startPc'[q] \in {startPc[q], "failed"}
  BY <1>2 DEF RemoteInv, TypeOK
<1>4. /\ route' \in [Session -> {"none", "pending", "started"}]
      /\ ack' \in [Session -> {"pending", "ok", "err"}]
      /\ events' \in [Session -> Seq({"result", "error", "ended"})]
      /\ TypeOK' => RemoteInv'
  BY <1>1, <1>2, <1>3, RemoveKeeps
<1>5. TypeOK'
  BY <1>2, <1>4, ZenonT(40) DEF RemoteInv, TypeOK
<1> QED BY <1>4, <1>5

-----------------------------------------------------------------------------
(* The messages of the agent.                                              *)

LEMMA StartedKeeps ==
  ASSUME RemoteInv, NEW c \in Conn, NEW s \in Session, AgentStarted(c, s)
  PROVE  RemoteInv'
<1>1. /\ UNCHANGED <<registered, events, startPc, via, forwarder, traffic, connPc, lost, message, writer>>
      /\ agent' = [agent EXCEPT ![s] = "on"]
      /\ connPc[c] = "open" /\ via[s] = c /\ agent[s] = "asked"
  BY DEF AgentStarted, Reading, startVars, connVars
<1>2. \A q \in Session : /\ Told(q)' <=> Told(q)
                         /\ \A r \in {"pending", "started"} : InLost(q, r)' <=> InLost(q, r)
  BY <1>1 DEF Told, InLost
<1>3. startPc[s] \notin {"idle", "register", "start"}
  BY <1>1 DEF RemoteInv, AskedFirst
<1>4. LostHeld'
  BY <1>1 DEF RemoteInv, LostHeld
<1>5. AskedFirst' /\ RouteSelected'
  BY <1>1, <1>3 DEF RemoteInv, TypeOK, AskedFirst, RouteSelected, AgentStarted
<1>6. CASE route[s] = "pending"
  <2>1. route' = [route EXCEPT ![s] = "started"] /\ ack' = [ack EXCEPT ![s] = "ok"]
    BY <1>6 DEF AgentStarted
  <2>2. TypeOK'
    BY <1>1, <2>1 DEF RemoteInv, TypeOK
  <2>3. StartedRouteServed'
    BY <1>1, <2>1 DEF RemoteInv, TypeOK, StartedRouteServed, Swept
  <2>4. AckOwed'
    BY <1>1, <1>2, <2>1 DEF RemoteInv, TypeOK, AckOwed
  <2>5. EndOwed'
    BY <1>1, <1>2, <2>1 DEF RemoteInv, TypeOK, EndOwed, AlmostLive
  <2> QED BY <1>4, <1>5, <2>2, <2>3, <2>4, <2>5 DEF RemoteInv
<1>7. CASE route[s] # "pending"
  <2>1. UNCHANGED <<route, ack>>
    BY <1>7 DEF AgentStarted
  <2>2. TypeOK'
    BY <1>1, <2>1 DEF RemoteInv, TypeOK
  <2>3. StartedRouteServed' /\ AckOwed' /\ EndOwed'
    BY <1>1, <1>2, <2>1 DEF RemoteInv, StartedRouteServed, Swept, AckOwed, EndOwed, AlmostLive
  <2> QED BY <1>4, <1>5, <2>2, <2>3 DEF RemoteInv
<1> QED BY <1>6, <1>7

LEMMA EndedKeeps ==
  ASSUME RemoteInv, NEW c \in Conn, NEW s \in Session, AgentEnded(c, s)
  PROVE  RemoteInv'
<1>1. <<"ended">> \in Ends
  BY DEF Ends
<1>2. /\ RemoveSession(s, <<"ended">>)
      /\ agent[s] = "on" /\ agent' = [agent EXCEPT ![s] = "off"]
      /\ UNCHANGED <<registered, startPc, via, forwarder, traffic, connPc, lost, message, writer>>
  BY DEF AgentEnded, startVars, connVars
<1>3. \A q \in Session : /\ startPc'[q] \in {startPc[q], "failed"}
                         /\ agent'[q] = agent[q] \/ (agent[q] # "none" /\ agent'[q] = "off")
  BY <1>2 DEF RemoteInv, TypeOK
<1>4. /\ route' \in [Session -> {"none", "pending", "started"}]
      /\ ack' \in [Session -> {"pending", "ok", "err"}]
      /\ events' \in [Session -> Seq({"result", "error", "ended"})]
      /\ TypeOK' => RemoteInv'
  BY <1>1, <1>2, <1>3, RemoveKeeps
<1>5. TypeOK'
  BY <1>2, <1>4 DEF RemoteInv, TypeOK
<1> QED BY <1>4, <1>5

\* A message that the handler has read and will act on.
LEMMA HeardKeeps ==
  ASSUME RemoteInv, NEW c \in Conn, NEW s \in Session, AgentResult(c, s) \/ AgentError(c, s)
  PROVE  RemoteInv'
<1>1. /\ UNCHANGED <<registered, route, ack, events, startPc, via, forwarder, connPc, lost, writer>>
      /\ \E k \in {"fail", "result", "error"} : message' = [message EXCEPT ![c] = <<s, k>>]
      /\ traffic[s] < MaxMessages /\ traffic' = [traffic EXCEPT ![s] = @ + 1]
      /\ agent' \in {agent, [agent EXCEPT ![s] = "off"]} /\ agent[s] # "none"
  BY DEF AgentResult, AgentError, startVars, RemoteInv, TypeOK
<1>2. TypeOK'
  <2>1. message' \in [Conn -> (Session \X {"fail", "result", "error"}) \cup {None}]
    BY <1>1 DEF RemoteInv, TypeOK
  <2>2. agent' \in [Session -> {"none", "asked", "on", "off"}]
    BY <1>1 DEF RemoteInv, TypeOK
  <2>3. traffic' \in [Session -> 0..MaxMessages]
    <3>1. traffic \in [Session -> 0..MaxMessages] /\ traffic[s] + 1 \in 0..MaxMessages
      BY <1>1 DEF RemoteInv, TypeOK
    <3> QED BY <1>1, <3>1
  <2> QED BY <1>1, <2>1, <2>2, <2>3 DEF RemoteInv, TypeOK
<1>3. AskedFirst'
  BY <1>1 DEF RemoteInv, TypeOK, AskedFirst
<1>4. LostHeld' /\ RouteSelected' /\ StartedRouteServed' /\ AckOwed' /\ EndOwed'
  BY <1>1 DEF RemoteInv, LostHeld, RouteSelected, StartedRouteServed, Swept, AckOwed, EndOwed,
              AlmostLive, Told, InLost
<1> QED BY <1>2, <1>3, <1>4 DEF RemoteInv

LEMMA DeliverKeeps ==
  ASSUME RemoteInv, NEW c \in Conn, NEW s \in Session, Deliver(c, s)
  PROVE  RemoteInv'
<1>1. /\ UNCHANGED <<registered, startPc, via, forwarder, traffic, agent, connPc, lost, writer>>
      /\ message' = [message EXCEPT ![c] = None]
  BY DEF Deliver, startVars
<1>2. CASE message[c] = <<s, "fail">> /\ RemoveSession(s, <<"error", "ended">>)
  <2>1. <<"error", "ended">> \in Ends
    BY DEF Ends
  <2>2. \A q \in Session : startPc'[q] \in {startPc[q], "failed"}
    BY <1>1
  <2>3. /\ route' \in [Session -> {"none", "pending", "started"}]
        /\ ack' \in [Session -> {"pending", "ok", "err"}]
        /\ events' \in [Session -> Seq({"result", "error", "ended"})]
        /\ TypeOK' => RemoteInv'
    BY <1>1, <1>2, <2>1, <2>2, RemoveKeeps
  <2>4. TypeOK'
    BY <1>1, <2>3 DEF RemoteInv, TypeOK
  <2> QED BY <2>3, <2>4
<1>3. ASSUME NEW e \in {"result", "error"},
             events' = [events EXCEPT ![s] = Append(@, e)], UNCHANGED <<route, ack>>
      PROVE  RemoteInv'
  <2>1. events'[s] = events[s] \o <<e>> /\ \A q \in Session \ {s} : events'[q] = events[q]
    BY <1>3 DEF RemoteInv, TypeOK
  <2>2. \A q \in Session : Told(q) => Told(q)'
    <3>1. <<e>> \in Seq({"result", "error", "ended"})
      OBVIOUS
    <3>2. Told(s) => Told(s)'
      BY <2>1, <3>1, ToldKept DEF RemoteInv
    <3> QED BY <2>1, <3>2 DEF Told
  <2>3. TypeOK'
    BY <1>1, <1>3 DEF RemoteInv, TypeOK
  <2>4. \A q \in Session : /\ AlmostLive(q)' => AlmostLive(q)
                           /\ \A r \in {"pending", "started"} : InLost(q, r)' <=> InLost(q, r)
    BY <1>1, <1>3 DEF AlmostLive, InLost
  <2>5. LostHeld' /\ RouteSelected' /\ AskedFirst' /\ StartedRouteServed'
    BY <1>1, <1>3 DEF RemoteInv, LostHeld, RouteSelected, AskedFirst, StartedRouteServed, Swept
  <2>6. AckOwed' /\ EndOwed'
    BY <1>1, <1>3, <2>2, <2>4 DEF RemoteInv, AckOwed, EndOwed
  <2> QED BY <2>3, <2>5, <2>6 DEF RemoteInv
<1> QED BY <1>2, <1>3 DEF Deliver

-----------------------------------------------------------------------------
(* The connections.                                                        *)

LEMMA SweepKeeps ==
  ASSUME RemoteInv, NEW c \in Conn, SweepOnRegister(c) \/ SweepOnLeave(c)
  PROVE  RemoteInv'
<1>1. /\ UNCHANGED <<registered, ack, events, startPc, via, forwarder, traffic, agent, message, writer>>
      /\ Sweep(c) /\ connPc[c] \in {"new", "leaving"}
      /\ \E pc \in {"claiming", "releasing"} : connPc' = [connPc EXCEPT ![c] = pc]
  BY DEF SweepOnRegister, SweepOnLeave, ConnGoTo, startVars
<1>2. /\ route' \in [Session -> {"none", "pending", "started"}]
      /\ lost' \in [Conn -> SUBSET (Session \X {"pending", "started"})]
      /\ \A s \in Session : route'[s] = "none"
      /\ \A d \in Conn : lost[d] \subseteq lost'[d]
      /\ \A s \in Session : route[s] # "none" => \E d \in Conn : <<s, route[s]>> \in lost'[d]
      /\ \A d \in Conn \ {c} : lost'[d] = lost[d]
  BY <1>1, SweepMoves DEF RemoteInv
<1>3. TypeOK'
  <2>1. connPc' \in [Conn -> {"new", "claiming", "settling", "greeting", "open",
                             "leaving", "releasing", "draining", "closed", "abandoned"}]
    BY <1>1 DEF RemoteInv, TypeOK
  <2> QED BY <1>1, <1>2, <2>1 DEF RemoteInv, TypeOK
<1>4. LostHeld'
  BY <1>1, <1>2 DEF RemoteInv, TypeOK, LostHeld
<1>5. ASSUME NEW s \in Session, NEW r \in {"pending", "started"}, route[s] = r \/ InLost(s, r)
      PROVE  InLost(s, r)'
  BY <1>2, <1>5 DEF InLost
<1>6. \A s \in Session : (Told(s)' <=> Told(s)) /\ (AlmostLive(s)' <=> AlmostLive(s))
  BY <1>1 DEF Told, AlmostLive
<1>7. AckOwed' /\ EndOwed'
  BY <1>1, <1>2, <1>5, <1>6 DEF RemoteInv, AckOwed, EndOwed
<1>8. RouteSelected' /\ AskedFirst' /\ StartedRouteServed'
  BY <1>1, <1>2 DEF RemoteInv, RouteSelected, AskedFirst, StartedRouteServed
<1> QED BY <1>3, <1>4, <1>7, <1>8 DEF RemoteInv

LEMMA ConnKeeps ==
  ASSUME RemoteInv, NEW c \in Conn,
         \/ Register(c) \/ Settled(c) \/ SendHelloOk(c) \/ LeaveLoop(c) \/ Unregister(c)
         \/ ReadError(c) \/ WriterStalls(c) \/ WriterDrains(c) \/ WriterFails(c)
  PROVE  RemoteInv'
<1>1. /\ UNCHANGED <<route, ack, events, startPc, via, forwarder, traffic, agent, lost, message>>
      /\ registered' \in Conn \cup {None}
      /\ writer' = writer \/ \E w \in {"up", "stalled", "down"} : writer' = [writer EXCEPT ![c] = w]
  BY ZenonT(40) DEF RemoteInv, TypeOK, Register, Settled, SendHelloOk, LeaveLoop, Unregister, ReadError,
         WriterStalls, WriterDrains, WriterFails, SetWriter, startVars, connVars
<1>2. \/ connPc' = connPc
      \/ connPc[c] = "claiming" /\ connPc' = [connPc EXCEPT ![c] = "settling"]
      \/ lost[c] = {} /\ connPc[c] = "settling" /\ connPc' = [connPc EXCEPT ![c] = "greeting"]
      \/ lost[c] = {} /\ connPc[c] = "draining" /\ connPc' = [connPc EXCEPT ![c] = "closed"]
      \/ connPc[c] = "greeting" /\ \E pc \in {"open", "abandoned"} : connPc' = [connPc EXCEPT ![c] = pc]
      \/ connPc[c] = "open" /\ \E pc \in {"leaving", "abandoned"} : connPc' = [connPc EXCEPT ![c] = pc]
      \/ connPc[c] = "releasing" /\ connPc' = [connPc EXCEPT ![c] = "draining"]
  BY DEF Register, Settled, SendHelloOk, LeaveLoop, Unregister, ReadError, WriterStalls, WriterDrains,
         WriterFails, SetWriter, ConnGoTo, connVars
<1>3. TypeOK'
  <2>1. connPc' \in [Conn -> {"new", "claiming", "settling", "greeting", "open",
                             "leaving", "releasing", "draining", "closed", "abandoned"}]
    <3> DEFINE PcOfConn == {"new", "claiming", "settling", "greeting", "open",
                            "leaving", "releasing", "draining", "closed", "abandoned"}
    <3>1. PICK pc \in PcOfConn : connPc' = connPc \/ connPc' = [connPc EXCEPT ![c] = pc]
      BY <1>2
    <3>2. connPc \in [Conn -> PcOfConn]
      BY DEF RemoteInv, TypeOK
    <3> HIDE DEF PcOfConn
    <3>3. connPc' \in [Conn -> PcOfConn]
      BY <3>1, <3>2
    <3> QED BY <3>3 DEF PcOfConn
  <2>2. writer' \in [Conn -> {"up", "stalled", "down"}]
    BY <1>1 DEF RemoteInv, TypeOK
  <2> QED BY <1>1, <2>1, <2>2 DEF RemoteInv, TypeOK
<1>4. LostHeld'
  BY <1>1, <1>2 DEF RemoteInv, TypeOK, LostHeld
<1>5. \A d \in Conn : Swept(d)' => Swept(d)
  BY <1>2 DEF RemoteInv, TypeOK, Swept
<1>6. StartedRouteServed'
  <2>1. ASSUME NEW s \in Session, route[s] = "started" PROVE via[s] \in Conn
    BY <2>1 DEF RemoteInv, TypeOK, RouteSelected
  <2> QED BY <1>1, <1>5, <2>1 DEF RemoteInv, StartedRouteServed
<1>7. AckOwed' /\ EndOwed' /\ RouteSelected' /\ AskedFirst'
  BY <1>1 DEF RemoteInv, RouteSelected, AskedFirst, AckOwed, EndOwed, AlmostLive, Told, InLost
<1> QED BY <1>3, <1>4, <1>6, <1>7 DEF RemoteInv

-----------------------------------------------------------------------------
LEMMA RemoteStep == RemoteInv /\ [Next]_vars => RemoteInv'
<1> SUFFICES ASSUME RemoteInv, [Next]_vars PROVE RemoteInv'
  OBVIOUS
<1>1. CASE UNCHANGED vars
  BY <1>1, ZenonT(40) DEF vars, startVars, connVars, RemoteInv, TypeOK, LostHeld, AckOwed, EndOwed, AlmostLive,
              RouteSelected, AskedFirst, StartedRouteServed, Swept, Told, InLost
<1>2. ASSUME NEW s \in Session, StartStep(s) \/ OwnerStep(s) PROVE RemoteInv'
  BY <1>2, StartKeeps, FailKeeps
<1>3. ASSUME NEW c \in Conn, ConnStep(c) \/ PeerStep(c) PROVE RemoteInv'
  BY <1>3, ConnKeeps, SweepKeeps, DeliverKeeps, SettleKeeps DEF ConnStep, PeerStep
<1>4. ASSUME NEW c \in Conn, NEW s \in Session, AgentStep(c, s) PROVE RemoteInv'
  BY <1>4, StartedKeeps, HeardKeeps, EndedKeeps DEF AgentStep
<1> QED BY <1>1, <1>2, <1>3, <1>4 DEF Next

LEMMA RemoteInductive == Spec => []RemoteInv
<1> QED BY RemoteStarts, RemoteStep, PTL DEF Spec

\* The state of the calls, the maps and the connections is of the declared types,
\* and a call past select_agent holds a command_tx.
THEOREM RemoteTypes == Spec => []TypeOK
<1> QED BY RemoteInductive, PTL DEF RemoteInv

\* Whatever handlers register, sweep and settle meanwhile, the start_stream call
\* that waits is one that somebody can still answer (fail_session_start,
\* finish_agent_removal).
THEOREM AckIsOwed == Spec => []AckNotLost
<1>1. RemoteInv => AckNotLost
  BY DEF RemoteInv, AckOwed, AckNotLost
<1> QED BY <1>1, RemoteInductive, PTL

\* A live client is told of the end of its session, or there is somebody left to
\* tell it (remove_orphaned_sessions, forward_commands_to_agent).
THEOREM LiveIsReachable == Spec => []LiveReachable
<1>1. RemoteInv => LiveReachable
  BY DEF RemoteInv, EndOwed, AlmostLive, LiveReachable
<1> QED BY <1>1, RemoteInductive, PTL

\* No session is started for an agent whose sessions have been swept for the last
\* time (unregister_agent).
THEOREM StartedIsServed == Spec => []StartedRouteServed
<1> QED BY RemoteInductive, PTL DEF RemoteInv
====
