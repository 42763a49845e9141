-------------------------- MODULE DeviceAgentProofs --------------------------
(* Proofs about the device agent, for any requests, task ids, chunks and     *)
(* connections.                                                              *)
EXTENDS DeviceAgent, SequenceTheorems, TLAPS

USE DeviceAssumption

(* Only a playback that is being written to or waited for is handled, it belongs
   to a request, and so does every frame but HelloOk. *)
HandlingInv ==
  /\ pc \in {"write", "wait"} <=> handling # None
  /\ \A i \in DOMAIN inbox : inbox[i].kind # "hello_ok" => inbox[i].req \in Request

\* A request is tracked, and routed, under its own task id; the one that is written
\* to is still tracked, the one that is waited for no more; and outside the loop
\* nothing is tracked.
OwnedInv ==
  /\ \A t \in Task : tracker[t] # None => taskId[tracker[t]] = t
  /\ \A t \in Task : routed[t] # None => taskId[routed[t]] = t
  /\ pc = "write" => tracker[taskId[handling]] = handling
  /\ pc = "wait" => tracker[taskId[handling]] = None
  /\ pc \in {"down", "hello"} => \A t \in Task : tracker[t] = None

\* A start is on its way at most once, before any process runs for it.
StartInv ==
  /\ \A r \in Request :
       sent[r] = 0 => player[r] = "none" /\ \A i \in DOMAIN inbox : inbox[i].req # r
  /\ \A i \in DOMAIN inbox : inbox[i].kind = "start" =>
       /\ player[inbox[i].req] = "none"
       /\ \A j \in DOMAIN inbox : inbox[j].kind = "start" /\ inbox[j].req = inbox[i].req => i = j
  /\ \A r \in Request : player[r] = "none" => written[r] = 0

\* Frame k of r, for each k of N, is at pos[k] in the queue q, in order, and there
\* are no others of r.
Follows(q, pos, r, N) ==
  /\ \A k \in N : pos[k] \in DOMAIN q /\ q[pos[k]].req = r /\ q[pos[k]].kind = FrameKind(k)
  /\ \A k, l \in N : k < l => pos[k] < pos[l]
  /\ \A i \in DOMAIN q : q[i].req = r => \E k \in N : pos[k] = i

\* The frames of r in the inbox are all those from number n on, in order.
InFlight(r, n) ==
  /\ n <= sent[r]
  /\ \E pos \in [n..(sent[r] - 1) -> DOMAIN inbox] : Follows(inbox, pos, r, n..(sent[r] - 1))

\* The number of the next frame that the agent has to take for the playback of r.
NextFrame(r) == 1 + written[r] + (IF pc = "write" /\ handling = r THEN 1 ELSE 0)

Alone(r) == \A q \in Request \ {r} : taskId[q] # taskId[r]

Played(r) == written[r] = Chunks /\ player[r] = "ok"

\* What has to hold of a request that has its task id alone, from its start on
\* its way to the status that says that it was played.
PlayedInv ==
  \A r \in Request : Alone(r) =>
    /\ result[r] = "none" =>
         /\ (\E i \in DOMAIN inbox : inbox[i].kind = "start" /\ inbox[i].req = r) => InFlight(r, 0)
         /\ tracker[taskId[r]] = r => InFlight(r, NextFrame(r))
         /\ pc = "wait" /\ handling = r => written[r] = Chunks
         /\ \A i \in DOMAIN outbox : outbox[i] = [state |-> "finished", task |-> taskId[r]] => Played(r)
    /\ result[r] = "finished" => Played(r)

(* The inductive invariant. *)
DeviceInv == TypeOK /\ HandlingInv /\ OwnedInv /\ FedIsTracked /\ StartInv /\ PlayedInv

-----------------------------------------------------------------------------
(* Queues.                                                                 *)

Frames   == [kind : {"hello_ok", "start", "chunk", "finish"}, req : Request \cup {None}]
Statuses == [state : {"started", "finished", "failed"}, task : Task]

LEMMA TailFacts ==
  ASSUME NEW S, NEW q \in Seq(S), q # <<>>
  PROVE  /\ Tail(q) \in Seq(S) /\ Head(q) = q[1] /\ 1 \in DOMAIN q /\ q[1] \in S
         /\ \A i \in DOMAIN Tail(q) : i \in Nat /\ i + 1 \in DOMAIN q /\ Tail(q)[i] = q[i + 1]
         /\ \A i \in DOMAIN q : i \in Nat /\ (i = 1 \/ (i - 1 \in DOMAIN Tail(q) /\ Tail(q)[i - 1] = q[i]))
<1>1. Len(q) \in Nat \ {0} /\ DOMAIN q = 1..Len(q)
  BY EmptySeq, LenProperties
<1>2. /\ Tail(q) \in Seq(S) /\ Len(Tail(q)) = Len(q) - 1
      /\ \A i \in 1..Len(Tail(q)) : Tail(q)[i] = q[i + 1]
  BY HeadTailProperties
<1>3. DOMAIN Tail(q) = 1..(Len(q) - 1)
  BY <1>2, LenProperties
<1>4. Head(q) = q[1] /\ q[1] \in S
  BY <1>1, ElementOfSeq
<1> QED BY <1>1, <1>2, <1>3, <1>4

LEMMA AppendFacts ==
  ASSUME NEW S, NEW q \in Seq(S), NEW e \in S
  PROVE  /\ Append(q, e) \in Seq(S) /\ Len(q) \in Nat
         /\ DOMAIN q = 1..Len(q) /\ DOMAIN Append(q, e) = 1..(Len(q) + 1)
         /\ \A i \in 1..Len(q) : Append(q, e)[i] = q[i]
         /\ Append(q, e)[Len(q) + 1] = e
<1> QED BY AppendProperties, LenProperties

-----------------------------------------------------------------------------
(* Types.                                                                  *)

TypedInv == TypeOK /\ HandlingInv

\* The frame that the agent reads.
LEMMA ReadFacts ==
  ASSUME TypedInv, inbox # <<>>, inbox' = Tail(inbox)
  PROVE  /\ inbox' \in Seq(Frames) /\ Head(inbox) = inbox[1] /\ Head(inbox) \in Frames
         /\ 1 \in DOMAIN inbox
         /\ Head(inbox).kind # "hello_ok" => Head(inbox).req \in Request
         /\ \A i \in DOMAIN inbox' : inbox'[i].kind # "hello_ok" => inbox'[i].req \in Request
         /\ \A i \in DOMAIN inbox' : i \in Nat /\ i + 1 \in DOMAIN inbox /\ inbox'[i] = inbox[i + 1]
         /\ \A i \in DOMAIN inbox :
              i \in Nat /\ (i = 1 \/ (i - 1 \in DOMAIN inbox' /\ inbox'[i - 1] = inbox[i]))
<1>1. inbox \in Seq(Frames)
  BY DEF TypedInv, TypeOK, Frames
<1>2. /\ Tail(inbox) \in Seq(Frames) /\ Head(inbox) = inbox[1] /\ 1 \in DOMAIN inbox
      /\ inbox[1] \in Frames
      /\ \A i \in DOMAIN Tail(inbox) : i \in Nat /\ i + 1 \in DOMAIN inbox /\ Tail(inbox)[i] = inbox[i + 1]
      /\ \A i \in DOMAIN inbox :
           i \in Nat /\ (i = 1 \/ (i - 1 \in DOMAIN Tail(inbox) /\ Tail(inbox)[i - 1] = inbox[i]))
  BY <1>1, TailFacts
<1> QED BY <1>2 DEF TypedInv, HandlingInv

\* The frame that the gateway sends.
LEMMA SendFacts ==
  ASSUME TypedInv, NEW f \in Frames, inbox' = Append(inbox, f)
  PROVE  /\ inbox' \in Seq(Frames) /\ Len(inbox) \in Nat
         /\ DOMAIN inbox = 1..Len(inbox) /\ DOMAIN inbox' = 1..(Len(inbox) + 1)
         /\ \A i \in 1..Len(inbox) : inbox'[i] = inbox[i]
         /\ inbox'[Len(inbox) + 1] = f
<1>1. inbox \in Seq(Frames)
  BY DEF TypedInv, TypeOK, Frames
<1> QED BY <1>1, AppendFacts

LEMMA SettleFacts ==
  ASSUME TypeOK, NEW S, NEW x \in {"finished", "failed", "timeout"}, Settle(S, x)
  PROVE  /\ result' \in [Request -> {"none", "finished", "failed", "timeout"}]
         /\ \A r \in Request :
              /\ result[r] # "none" => result'[r] = result[r]
              /\ r \in S \/ result'[r] = result[r]
              /\ result'[r] \in {result[r], x}
<1>1. \A r \in Request : result[r] \in {"none", "finished", "failed", "timeout"}
  BY DEF TypeOK
<1>2. result' = [r \in Request |-> IF r \in S /\ result[r] = "none" THEN x ELSE result[r]]
  BY DEF Settle
<1> QED BY <1>1, <1>2

LEMMA GatewayTyped ==
  ASSUME TypedInv, GatewayStep
  PROVE  TypedInv'
<1> USE DEF TypedInv
<1>1. ASSUME NEW r \in Request, SendFrame(r) PROVE TypedInv'
  <2>1. /\ [kind |-> FrameKind(sent[r]), req |-> r] \in Frames
        /\ inbox' = Append(inbox, [kind |-> FrameKind(sent[r]), req |-> r])
    BY <1>1 DEF SendFrame, FrameKind, Frames
  <2>2. /\ inbox' \in Seq(Frames) /\ Len(inbox) \in Nat
        /\ DOMAIN inbox = 1..Len(inbox) /\ DOMAIN inbox' = 1..(Len(inbox) + 1)
        /\ \A i \in 1..Len(inbox) : inbox'[i] = inbox[i]
        /\ inbox'[Len(inbox) + 1] = [kind |-> FrameKind(sent[r]), req |-> r]
    BY <2>1, SendFacts
  <2>3. sent' \in [Request -> 0..(Chunks + 2)] /\ routed' \in [Task -> Request \cup {None}]
    <3>1. sent \in [Request -> 0..(Chunks + 2)] /\ sent[r] < Chunks + 2 /\ sent[r] + 1 \in 0..(Chunks + 2)
      BY <1>1 DEF SendFrame, TypeOK
    <3>2. sent' = [sent EXCEPT ![r] = sent[r] + 1]
      BY <1>1 DEF SendFrame
    <3>3. routed' = routed \/ routed' = [routed EXCEPT ![taskId[r]] = r]
      BY <1>1 DEF SendFrame
    <3>4. routed' \in [Task -> Request \cup {None}]
      BY <3>3 DEF TypeOK
    <3> QED BY <3>1, <3>2, <3>4
  <2>4. TypeOK'
    BY <1>1, <2>2, <2>3 DEF SendFrame, TypeOK, Frames, agentVars
  <2>5. HandlingInv'
    BY <1>1, <2>2 DEF SendFrame, HandlingInv, agentVars
  <2> QED BY <2>4, <2>5
<1>2. ASSUME NEW r \in Request, GiveUp(r) \/ RequestTimeout(r) PROVE TypedInv'
  <2>1. result' \in [Request -> {"none", "finished", "failed", "timeout"}]
    BY <1>2, SettleFacts DEF GiveUp, RequestTimeout
  <2>2. sent' \in [Request -> 0..(Chunks + 2)]
    <3>1. sent' = sent \/ sent' = [sent EXCEPT ![r] = Chunks + 2]
      BY <1>2 DEF GiveUp, RequestTimeout
    <3>2. Chunks + 2 \in 0..(Chunks + 2) /\ sent \in [Request -> 0..(Chunks + 2)]
      BY DEF TypeOK
    <3> QED BY <3>1, <3>2
  <2> QED BY <1>2, <2>1, <2>2 DEF GiveUp, RequestTimeout, TypeOK, HandlingInv, agentVars
<1>3. CASE RegisterAgent \/ GatewayCloses \/ GoSilent
  BY <1>3 DEF RegisterAgent, GatewayCloses, GoSilent, Settle, TypeOK, HandlingInv, agentVars, gatewayVars
<1>4. CASE SendHelloOk
  <2>1. /\ [kind |-> "hello_ok", req |-> None] \in Frames
        /\ inbox' = Append(inbox, [kind |-> "hello_ok", req |-> None])
    BY <1>4 DEF SendHelloOk, Frames
  <2>2. /\ inbox' \in Seq(Frames) /\ Len(inbox) \in Nat
        /\ DOMAIN inbox = 1..Len(inbox) /\ DOMAIN inbox' = 1..(Len(inbox) + 1)
        /\ \A i \in 1..Len(inbox) : inbox'[i] = inbox[i]
        /\ inbox'[Len(inbox) + 1] = [kind |-> "hello_ok", req |-> None]
    BY <2>1, SendFacts
  <2>3. TypeOK'
    BY <1>4, <2>2 DEF SendHelloOk, TypeOK, Frames, agentVars, gatewayVars
  <2>4. HandlingInv'
    BY <1>4, <2>2 DEF SendHelloOk, HandlingInv, agentVars
  <2> QED BY <2>3, <2>4
<1>5. CASE ReceiveStatus
  <2>1. outbox \in Seq(Statuses) /\ outbox # <<>> /\ outbox' = Tail(outbox)
    BY <1>5 DEF ReceiveStatus, TypeOK, Statuses
  <2>2. outbox' \in Seq(Statuses) /\ Head(outbox) \in Statuses
    BY <2>1, TailFacts
  <2>3. routed' \in [Task -> Request \cup {None}]
        /\ result' \in [Request -> {"none", "finished", "failed", "timeout"}]
    <3>1. CASE UNCHANGED <<routed, result>>
      BY <3>1 DEF TypeOK
    <3>2. CASE /\ Head(outbox).state # "started"
               /\ routed' = [routed EXCEPT ![Head(outbox).task] = None]
               /\ Settle({routed[Head(outbox).task]}, Head(outbox).state)
      <4>1. Head(outbox).state \in {"finished", "failed"}
        BY <2>2, <3>2 DEF Statuses
      <4>2. result' \in [Request -> {"none", "finished", "failed", "timeout"}]
        BY <3>2, <4>1, SettleFacts
      <4> QED BY <3>2, <4>2 DEF TypeOK
    <3> QED BY <1>5, <3>1, <3>2 DEF ReceiveStatus
  <2>4. TypeOK'
    BY <1>5, <2>2, <2>3 DEF ReceiveStatus, TypeOK, Statuses, agentVars
  <2>5. HandlingInv'
    BY <1>5 DEF ReceiveStatus, HandlingInv, agentVars
  <2> QED BY <2>4, <2>5
<1> QED BY <1>1, <1>2, <1>3, <1>4, <1>5 DEF GatewayStep

\* What a handler's report leaves behind.
LEMMA ReportTyped ==
  ASSUME TypedInv, NEW t \in Task, NEW st \in {"started", "finished", "failed"},
         NEW tr \in [Task -> Request \cup {None}],
         NEW p \in [Request -> {"none", "fed", "eof", "killed", "ok", "bad"}],
         Report(t, st, tr, p)
  PROVE  /\ outbox' \in Seq(Statuses) /\ pc' \in {"loop", "down"} /\ handling' = None
         /\ tracker' \in [Task -> Request \cup {None}]
         /\ player' \in [Request -> {"none", "fed", "eof", "killed", "ok", "bad"}]
         /\ writer = "up" \/ failed' = {}
<1>1. /\ outbox \in Seq(Statuses) /\ [state |-> st, task |-> t] \in Statuses
  BY DEF TypedInv, TypeOK, Statuses
<1>2. Append(outbox, [state |-> st, task |-> t]) \in Seq(Statuses)
  BY <1>1, AppendFacts
<1>3. Dropped(Tracked(tr), p) \in [Request -> {"none", "fed", "eof", "killed", "ok", "bad"}]
  BY DEF Dropped
<1>4. CASE writer = "up"
  BY <1>2, <1>4 DEF Report
<1>5. CASE writer # "up"
  BY <1>1, <1>3, <1>5 DEF Report, Left
<1> QED BY <1>4, <1>5

\* The step of a handler from the parts that it changes.
LEMMA StepTyped ==
  ASSUME TypedInv,
         outbox' \in Seq(Statuses),
         pc' \in {"down", "hello", "loop", "write", "wait"}, handling' \in Request \cup {None},
         pc' \in {"write", "wait"} <=> handling' # None,
         tracker' \in [Task -> Request \cup {None}], failed' \subseteq Task,
         player' \in [Request -> {"none", "fed", "eof", "killed", "ok", "bad"}],
         written' \in [Request -> Nat], writer' \in {"up", "down"},
         inbox' = inbox \/ (inbox # <<>> /\ inbox' = Tail(inbox)),
         UNCHANGED <<conns, link, registered, gatewayVars>>
  PROVE  TypedInv'
<1>1. /\ inbox' \in Seq(Frames)
      /\ \A i \in DOMAIN inbox' : inbox'[i].kind # "hello_ok" => inbox'[i].req \in Request
  <2>1. CASE inbox' = inbox
    BY <2>1 DEF TypedInv, TypeOK, HandlingInv, Frames
  <2>2. CASE inbox # <<>> /\ inbox' = Tail(inbox)
    BY <2>2, ReadFacts
  <2> QED BY <2>1, <2>2
<1>2. TypeOK'
  BY <1>1 DEF TypedInv, TypeOK, Frames, Statuses, gatewayVars
<1> QED BY <1>1, <1>2 DEF TypedInv, HandlingInv

LEMMA PlayersTyped ==
  ASSUME TypeOK, NEW S
  PROVE  /\ Killed(S, player) \in [Request -> {"none", "fed", "eof", "killed", "ok", "bad"}]
         /\ Dropped(S, player) \in [Request -> {"none", "fed", "eof", "killed", "ok", "bad"}]
<1> QED BY DEF TypeOK, Killed, Dropped

\* Reports that leave the rest of the handler's state to the loop.
LEMMA ReportedTyped ==
  ASSUME TypedInv, NEW t \in Task, NEW st \in {"started", "finished", "failed"},
         NEW tr \in [Task -> Request \cup {None}],
         NEW p \in [Request -> {"none", "fed", "eof", "killed", "ok", "bad"}],
         Report(t, st, tr, p), writer = "up" => failed' \subseteq Task,
         inbox' = inbox \/ (inbox # <<>> /\ inbox' = Tail(inbox)),
         UNCHANGED <<written, writer, conns, link, registered, gatewayVars>>
  PROVE  TypedInv'
<1>1. /\ outbox' \in Seq(Statuses) /\ pc' \in {"loop", "down"} /\ handling' = None
      /\ tracker' \in [Task -> Request \cup {None}]
      /\ player' \in [Request -> {"none", "fed", "eof", "killed", "ok", "bad"}]
      /\ writer = "up" \/ failed' = {}
  BY ReportTyped
<1>2. written' \in [Request -> Nat] /\ writer' \in {"up", "down"}
  BY DEF TypedInv, TypeOK
<1> QED BY <1>1, <1>2, StepTyped

LEMMA AgentTyped ==
  ASSUME TypedInv, AgentStep
  PROVE  TypedInv'
<1> DEFINE r == Head(inbox).req
           t == taskId[r]
<1>1. TypeOK /\ HandlingInv /\ outbox \in Seq(Statuses)
  BY DEF TypedInv, TypeOK, Statuses
<1>2. CASE HelloOk \/ IgnoreBeforeHello
  BY <1>1, <1>2, StepTyped DEF HelloOk, IgnoreBeforeHello, Receive, TypeOK, HandlingInv, agentVars, gatewayVars
<1>3. CASE StartPlayback
  <2>1. /\ inbox # <<>> /\ inbox' = Tail(inbox) /\ UNCHANGED <<written, writer, conns, link, registered, gatewayVars>>
        /\ Head(inbox).kind = "start"
    BY <1>3 DEF StartPlayback, Receive
  <2>2. r \in Request /\ t \in Task
    BY <1>1, <2>1, ReadFacts DEF TypeOK
  <2>3. CASE Report(t, "failed", tracker, player) /\ (writer = "up" => failed' \subseteq Task)
    BY <1>1, <2>1, <2>2, <2>3, ReportedTyped DEF TypeOK
  <2>4. CASE /\ Report(t, "started", [tracker EXCEPT ![t] = r], [player EXCEPT ![r] = "fed"])
             /\ writer = "up" => failed' \subseteq Task
    <3>1. /\ [tracker EXCEPT ![t] = r] \in [Task -> Request \cup {None}]
          /\ [player EXCEPT ![r] = "fed"] \in [Request -> {"none", "fed", "eof", "killed", "ok", "bad"}]
      BY <1>1, <2>2 DEF TypeOK
    <3> QED BY <2>1, <2>2, <2>4, <3>1, ReportedTyped
  <2> QED BY <1>1, <1>3, <2>2, <2>3, <2>4 DEF StartPlayback, TypeOK
<1>4. CASE ReadChunk
  <2>1. /\ inbox # <<>> /\ inbox' = Tail(inbox) /\ UNCHANGED <<written, writer, conns, link, registered, gatewayVars>>
        /\ Head(inbox).kind = "chunk" /\ pc = "loop"
    BY <1>4 DEF ReadChunk, Receive
  <2>2. r \in Request /\ t \in Task
    BY <1>1, <2>1, ReadFacts DEF TypeOK
  <2>3. CASE tracker[t] # None /\ pc' = "write" /\ handling' = tracker[t]
             /\ UNCHANGED <<tracker, failed, player, outbox>>
    BY <1>1, <2>1, <2>2, <2>3, StepTyped DEF TypeOK, HandlingInv
  <2>4. CASE Silently /\ UNCHANGED failed
    BY <1>1, <2>1, <2>2, <2>4, StepTyped DEF TypeOK, HandlingInv, Silently
  <2>5. CASE Report(t, "failed", tracker, player) /\ (writer = "up" => UNCHANGED failed)
    BY <1>1, <2>1, <2>2, <2>5, ReportedTyped DEF TypeOK
  <2> QED BY <1>4, <2>3, <2>4, <2>5 DEF ReadChunk
<1>5. CASE ReadFinish
  <2>1. /\ inbox # <<>> /\ inbox' = Tail(inbox) /\ UNCHANGED <<written, writer, conns, link, registered, gatewayVars>>
        /\ Head(inbox).kind = "finish" /\ pc = "loop"
    BY <1>5 DEF ReadFinish, Receive
  <2>2. r \in Request /\ t \in Task
    BY <1>1, <2>1, ReadFacts DEF TypeOK
  <2>3. CASE /\ tracker[t] # None /\ pc' = "wait" /\ handling' = tracker[t]
             /\ tracker' = [tracker EXCEPT ![t] = None] /\ failed' = failed \ {t}
             /\ player' = Dropped({tracker[t]}, player) /\ UNCHANGED outbox
    <3>1. player' \in [Request -> {"none", "fed", "eof", "killed", "ok", "bad"}]
      BY <1>1, <2>3, PlayersTyped
    <3> QED BY <1>1, <2>1, <2>2, <2>3, <3>1, StepTyped DEF TypeOK, HandlingInv
  <2>4. CASE Silently /\ failed' = failed \ {t}
    BY <1>1, <2>1, <2>2, <2>4, StepTyped DEF TypeOK, HandlingInv, Silently
  <2>5. CASE Report(t, "failed", tracker, player) /\ (writer = "up" => UNCHANGED failed)
    BY <1>1, <2>1, <2>2, <2>5, ReportedTyped DEF TypeOK
  <2> QED BY <1>5, <2>3, <2>4, <2>5 DEF ReadFinish
<1>6. CASE ReportExit
  <2>1. handling \in Request /\ taskId[handling] \in Task
    BY <1>1, <1>6 DEF ReportExit, TypeOK, HandlingInv
  <2>2. \E st \in {"finished", "failed"}, p \in {player, Killed({handling}, player)} :
          Report(taskId[handling], st, tracker, p)
    BY <1>6 DEF ReportExit
  <2> QED BY <1>1, <1>6, <2>1, <2>2, ReportedTyped, PlayersTyped DEF ReportExit, TypeOK
<1>7. CASE LeaveLoop
  BY <1>1, <1>7, StepTyped, PlayersTyped DEF LeaveLoop, Left, TypeOK
<1> QED BY <1>2, <1>3, <1>4, <1>5, <1>6, <1>7 DEF AgentStep

LEMMA OthersTyped ==
  ASSUME TypedInv, \/ Connect \/ PlayerStep \/ LeaveByError \/ WriterFails
                   \/ \E r \in Request : PlayerExits(r)
  PROVE  TypedInv'
<1>1. TypeOK /\ HandlingInv /\ outbox \in Seq(Statuses)
  BY DEF TypedInv, TypeOK, Statuses
<1>2. CASE Connect
  <2>1. /\ inbox' = <<>> /\ inbox' \in Seq(Frames) /\ DOMAIN inbox' = {} /\ conns' \in 0..MaxConns
        /\ outbox' \in Seq(Statuses)
    <3>1. conns \in 0..MaxConns /\ conns < MaxConns /\ conns' = conns + 1
      BY <1>1, <1>2 DEF Connect, TypeOK
    <3>2. inbox' = <<>> /\ outbox' \in {outbox, <<>>}
      BY <1>2 DEF Connect
    <3>3. conns' \in 0..MaxConns
      BY <3>1
    <3>4. <<>> \in Seq(Frames) /\ <<>> \in Seq(Statuses) /\ DOMAIN <<>> = {}
      OBVIOUS
    <3> QED BY <1>1, <3>2, <3>3, <3>4
  <2> QED BY <1>1, <1>2, <2>1 DEF Connect, TypedInv, TypeOK, HandlingInv, Frames, Statuses, gatewayVars
<1>3. CASE WriteChunk
  <2>1. handling \in Request
    BY <1>1, <1>3 DEF WriteChunk, TypeOK, HandlingInv
  <2>2. written' \in [Request -> Nat]
    BY <1>1, <1>3, <2>1 DEF WriteChunk, TypeOK
  <2> QED BY <1>1, <1>3, <2>2, StepTyped DEF WriteChunk, TypeOK
<1>4. CASE FailChunk
  <2>1. handling \in Request /\ taskId[handling] \in Task
    BY <1>1, <1>4 DEF FailChunk, TypeOK, HandlingInv
  <2>2. [tracker EXCEPT ![taskId[handling]] = None] \in [Task -> Request \cup {None}]
    BY <1>1 DEF TypeOK
  <2> QED BY <1>1, <1>4, <2>1, <2>2, ReportedTyped, PlayersTyped DEF FailChunk, TypeOK
<1>5. CASE LeaveByError
  BY <1>1, <1>5, StepTyped, PlayersTyped DEF LeaveByError, Left, TypeOK
<1>6. CASE WriterFails
  BY <1>1, <1>6, StepTyped DEF WriterFails, TypeOK, HandlingInv
<1>7. ASSUME NEW r \in Request, PlayerExits(r) PROVE TypedInv'
  <2>1. player' \in [Request -> {"none", "fed", "eof", "killed", "ok", "bad"}]
    BY <1>1, <1>7 DEF PlayerExits, TypeOK
  <2> QED BY <1>1, <1>7, <2>1, StepTyped DEF PlayerExits, TypeOK, HandlingInv
<1> QED BY <1>2, <1>3, <1>4, <1>5, <1>6, <1>7 DEF PlayerStep

-----------------------------------------------------------------------------
(* What is tracked, and what is fed.                                       *)

\* FedIsTracked, for any tracker and players.
FedTracked(tr, p) ==
  \A r \in Request :
    /\ p[r] = "fed" => tr[taskId[r]] = r
    /\ r \in Tracked(tr) => tr[taskId[r]] = r /\ p[r] \notin {"none", "eof", "killed"}

OwnTask(tr) == \A t \in Task : tr[t] # None => taskId[tr[t]] = t

TrackedInv == TypedInv /\ OwnedInv /\ FedIsTracked

LEMMA SameTracked == FedIsTracked <=> FedTracked(tracker, player)
<1> QED BY DEF FedIsTracked, FedTracked, Tracked

\* Leaving run_once, on any path.
LEMMA LeftOwned ==
  ASSUME TrackedInv, NEW tr, NEW p, FedTracked(tr, p), Left, UNCHANGED <<taskId, routed>>,
         player' = Dropped(Tracked(tr), p) \/ player' = Killed(Tracked(tr), p)
  PROVE  OwnedInv' /\ FedIsTracked'
<1>1. \A t \in Task : tracker'[t] = None
  BY DEF Left
<1>2. OwnedInv'
  BY <1>1 DEF TrackedInv, OwnedInv, Left
<1>3. \A r \in Request : taskId[r] \in Task
  BY DEF TrackedInv, TypedInv, TypeOK
<1>4. \A r \in Request : player'[r] # "fed"
  <2> SUFFICES ASSUME NEW r \in Request, player'[r] = "fed" PROVE FALSE
    OBVIOUS
  <2>1. p[r] = "fed" /\ r \notin Tracked(tr)
    BY DEF Dropped, Killed, Alive
  <2>2. tr[taskId[r]] = r
    BY <2>1 DEF FedTracked
  <2> QED BY <1>3, <2>1, <2>2 DEF Tracked
<1>5. \A r \in Request : r \notin Tracked(tracker)'
  BY <1>1 DEF Tracked
<1> QED BY <1>2, <1>4, <1>5 DEF FedIsTracked

LEMMA ReportOwned ==
  ASSUME TrackedInv, NEW t, NEW st, NEW tr, NEW p, Report(t, st, tr, p),
         FedTracked(tr, p), OwnTask(tr), UNCHANGED <<taskId, routed>>
  PROVE  OwnedInv' /\ FedIsTracked'
<1>1. CASE writer = "up"
  <2>1. tracker' = tr /\ player' = p /\ pc' = "loop"
    BY <1>1 DEF Report
  <2>2. OwnedInv'
    BY <2>1 DEF TrackedInv, OwnedInv, OwnTask
  <2>3. FedIsTracked'
    BY <2>1 DEF FedTracked, FedIsTracked, Tracked
  <2> QED BY <2>2, <2>3
<1>2. CASE writer # "up"
  BY <1>2, LeftOwned DEF Report
<1> QED BY <1>1, <1>2

\* A report that changes neither.
LEMMA PlainReport ==
  ASSUME TrackedInv, NEW t, NEW st, Report(t, st, tracker, player), UNCHANGED <<taskId, routed>>
  PROVE  OwnedInv' /\ FedIsTracked'
<1> QED BY ReportOwned, SameTracked DEF TrackedInv, OwnedInv, OwnTask

\* A task that is taken out, its player closed or killed.
LEMMA TakenOut ==
  ASSUME TrackedInv, NEW h \in Request, tracker[taskId[h]] = h, NEW p,
         p = Dropped({h}, player) \/ p = Killed({h}, player)
  PROVE  /\ FedTracked([tracker EXCEPT ![taskId[h]] = None], p)
         /\ OwnTask([tracker EXCEPT ![taskId[h]] = None])
<1> DEFINE tr == [tracker EXCEPT ![taskId[h]] = None]
<1>1. /\ tracker \in [Task -> Request \cup {None}] /\ taskId \in [Request -> Task] /\ taskId[h] \in Task
      /\ \A t \in Task : tracker[t] # None => taskId[tracker[t]] = t
  BY DEF TrackedInv, TypedInv, TypeOK, OwnedInv
<1>2. \A t \in Task : tr[t] = IF t = taskId[h] THEN None ELSE tracker[t]
  BY <1>1
<1>3. \A r \in Request : /\ p[r] = "fed" => player[r] = "fed" /\ r # h
                         /\ r # h => p[r] = player[r]
  BY DEF Dropped, Killed, Alive
<1> HIDE DEF tr
<1>4. ASSUME NEW r \in Request, r # h, tracker[taskId[r]] = r PROVE tr[taskId[r]] = r
  BY <1>1, <1>2, <1>4
<1>5. ASSUME NEW r \in Request, r \in Tracked(tr) PROVE r # h /\ r \in Tracked(tracker)
  BY <1>1, <1>2, <1>5 DEF Tracked
<1>6. FedTracked(tr, p)
  BY <1>3, <1>4, <1>5 DEF FedTracked, TrackedInv, FedIsTracked
<1>7. OwnTask(tr)
  BY <1>1, <1>2 DEF OwnTask
<1> QED BY <1>6, <1>7 DEF tr

LEMMA AgentOwned ==
  ASSUME TrackedInv, AgentStep
  PROVE  OwnedInv' /\ FedIsTracked'
<1> DEFINE r == Head(inbox).req
           t == taskId[r]
<1>1. TypedInv /\ TypeOK /\ HandlingInv /\ OwnedInv /\ FedIsTracked
  BY DEF TrackedInv, TypedInv
<1>2. CASE HelloOk \/ IgnoreBeforeHello
  BY <1>1, <1>2 DEF HelloOk, IgnoreBeforeHello, agentVars, gatewayVars, OwnedInv, FedIsTracked, Tracked
<1>3. CASE StartPlayback
  <2>1. UNCHANGED <<taskId, routed>> /\ r \in Request /\ t \in Task
    BY <1>1, <1>3, ReadFacts DEF StartPlayback, Receive, gatewayVars, TypeOK
  <2>2. CASE Report(t, "failed", tracker, player)
    BY <2>1, <2>2, PlainReport
  <2>3. CASE /\ tracker[t] = None
             /\ Report(t, "started", [tracker EXCEPT ![t] = r], [player EXCEPT ![r] = "fed"])
    <3> DEFINE tr == [tracker EXCEPT ![t] = r]
               p == [player EXCEPT ![r] = "fed"]
    <3>1. /\ \A u \in Task : tr[u] = IF u = t THEN r ELSE tracker[u]
          /\ \A q \in Request : p[q] = IF q = r THEN "fed" ELSE player[q]
      BY <1>1, <2>1 DEF TypeOK
    <3>2. \A q \in Request : taskId[q] \in Task
      BY <1>1 DEF TypeOK
    <3> HIDE DEF tr, p
    <3>3. ASSUME NEW q \in Request, q # r, tracker[taskId[q]] = q PROVE tr[taskId[q]] = q
      BY <2>3, <3>1, <3>2, <3>3
    <3>4. ASSUME NEW q \in Request, q # r, q \in Tracked(tr) PROVE q \in Tracked(tracker)
      BY <3>1, <3>4 DEF Tracked
    <3>5. FedTracked(tr, p)
      BY <1>1, <2>1, <3>1, <3>2, <3>3, <3>4 DEF FedTracked, FedIsTracked
    <3>6. OwnTask(tr)
      BY <1>1, <2>1, <3>1 DEF OwnTask, OwnedInv
    <3> QED BY <2>1, <2>3, <3>5, <3>6, ReportOwned DEF tr, p
  <2> QED BY <1>3, <2>2, <2>3 DEF StartPlayback
<1>4. CASE ReadChunk
  <2>1. UNCHANGED <<taskId, routed>> /\ pc = "loop" /\ r \in Request /\ t \in Task
    BY <1>1, <1>4, ReadFacts DEF ReadChunk, Receive, gatewayVars, TypeOK
  <2>2. CASE tracker[t] # None /\ pc' = "write" /\ handling' = tracker[t] /\ UNCHANGED <<tracker, player>>
    <3>1. tracker'[taskId'[handling']] = handling'
      BY <1>1, <2>1, <2>2 DEF OwnedInv
    <3> QED BY <1>1, <2>1, <2>2, <3>1 DEF OwnedInv, FedIsTracked, Tracked
  <2>3. CASE Silently
    BY <1>1, <2>1, <2>3 DEF Silently, OwnedInv, FedIsTracked, Tracked
  <2>4. CASE Report(t, "failed", tracker, player)
    BY <2>1, <2>4, PlainReport
  <2> QED BY <1>4, <2>2, <2>3, <2>4 DEF ReadChunk
<1>5. CASE ReadFinish
  <2>1. UNCHANGED <<taskId, routed>> /\ pc = "loop" /\ r \in Request /\ t \in Task
    BY <1>1, <1>5, ReadFacts DEF ReadFinish, Receive, gatewayVars, TypeOK
  <2>2. CASE /\ tracker[t] # None /\ pc' = "wait" /\ handling' = tracker[t]
             /\ tracker' = [tracker EXCEPT ![t] = None] /\ player' = Dropped({tracker[t]}, player)
    <3>1. tracker[t] \in Request /\ taskId[tracker[t]] = t
      BY <1>1, <2>1, <2>2 DEF TypeOK, OwnedInv
    <3>2. FedTracked(tracker', player') /\ OwnTask(tracker')
      BY <2>2, <3>1, TakenOut
    <3>3. tracker'[t] = None
      BY <1>1, <2>1, <2>2 DEF TypeOK
    <3>4. OwnedInv'
      BY <1>1, <2>1, <2>2, <3>1, <3>2, <3>3 DEF OwnedInv, OwnTask
    <3>5. FedIsTracked'
      BY <2>1, <3>2 DEF FedTracked, FedIsTracked, Tracked
    <3> QED BY <3>4, <3>5
  <2>3. CASE Silently
    BY <1>1, <2>1, <2>3 DEF Silently, OwnedInv, FedIsTracked, Tracked
  <2>4. CASE Report(t, "failed", tracker, player)
    BY <2>1, <2>4, PlainReport
  <2> QED BY <1>5, <2>2, <2>3, <2>4 DEF ReadFinish
<1>6. CASE ReportExit
  <2>1. UNCHANGED <<taskId, routed>> /\ handling \in Request /\ tracker[taskId[handling]] = None
    BY <1>1, <1>6 DEF ReportExit, gatewayVars, HandlingInv, OwnedInv, TypeOK
  <2>2. CASE \E st \in {"finished", "failed"} : Report(taskId[handling], st, tracker, player)
    BY <2>1, <2>2, PlainReport
  <2>3. CASE Report(taskId[handling], "failed", tracker, Killed({handling}, player))
    <3>1. handling \notin Tracked(tracker)
      BY <1>1, <2>1 DEF FedIsTracked
    <3> DEFINE p == Killed({handling}, player)
    <3>2. \A q \in Request : (q # handling => p[q] = player[q]) /\ (p[q] = "fed" => player[q] = "fed")
      BY DEF Killed
    <3> HIDE DEF p
    <3>3. FedTracked(tracker, p)
      <4>1. \A q \in Request : player[q] = "fed" => tracker[taskId[q]] = q
        BY <1>1 DEF FedIsTracked
      <4>2. \A q \in Request : q \in Tracked(tracker) =>
              q # handling /\ tracker[taskId[q]] = q /\ player[q] \notin {"none", "eof", "killed"}
        BY <1>1, <3>1 DEF FedIsTracked
      <4> QED BY <3>2, <4>1, <4>2 DEF FedTracked
    <3> QED BY <1>1, <2>1, <2>3, <3>3, ReportOwned DEF OwnTask, OwnedInv, p
  <2> QED BY <1>6, <2>2, <2>3 DEF ReportExit
<1>7. CASE LeaveLoop
  BY <1>1, <1>7, LeftOwned, SameTracked DEF LeaveLoop, gatewayVars
<1> QED BY <1>2, <1>3, <1>4, <1>5, <1>6, <1>7 DEF AgentStep

LEMMA OthersOwned ==
  ASSUME TrackedInv, \/ Connect \/ PlayerStep \/ LeaveByError \/ WriterFails
                     \/ \E r \in Request : PlayerExits(r)
  PROVE  OwnedInv' /\ FedIsTracked'
<1>1. TypedInv /\ TypeOK /\ HandlingInv /\ OwnedInv /\ FedIsTracked
  BY DEF TrackedInv, TypedInv
<1>2. CASE Connect \/ WriteChunk \/ WriterFails
  BY <1>1, <1>2 DEF Connect, WriteChunk, WriterFails, gatewayVars, OwnedInv, FedIsTracked, Tracked
<1>3. CASE FailChunk
  <2>1. handling \in Request /\ tracker[taskId[handling]] = handling /\ UNCHANGED <<taskId, routed>>
    BY <1>1, <1>3 DEF FailChunk, HandlingInv, OwnedInv, TypeOK, gatewayVars
  <2> QED BY <1>3, <2>1, TakenOut, ReportOwned DEF FailChunk
<1>4. CASE LeaveByError
  BY <1>1, <1>4, LeftOwned, SameTracked DEF LeaveByError, gatewayVars
<1>5. ASSUME NEW r \in Request, PlayerExits(r) PROVE OwnedInv' /\ FedIsTracked'
  <2>1. /\ player[r] \in Alive /\ player'[r] \in {"ok", "bad"}
        /\ \A q \in Request \ {r} : player'[q] = player[q]
        /\ UNCHANGED <<tracker, taskId, routed, pc, handling>>
    BY <1>1, <1>5 DEF PlayerExits, TypeOK, gatewayVars
  <2> QED BY <1>1, <2>1 DEF OwnedInv, FedIsTracked, Tracked
<1> QED BY <1>2, <1>3, <1>4, <1>5 DEF PlayerStep

LEMMA GatewayOwned ==
  ASSUME TrackedInv, GatewayStep
  PROVE  OwnedInv' /\ FedIsTracked'
<1>1. /\ TypeOK /\ OwnedInv /\ FedIsTracked
      /\ \A r \in Request : taskId[r] \in Task
  BY DEF TrackedInv, TypedInv, TypeOK
<1>2. UNCHANGED <<agentVars, taskId>>
  BY DEF GatewayStep, SendFrame, GiveUp, RequestTimeout, RegisterAgent, SendHelloOk, ReceiveStatus,
         GatewayCloses, GoSilent, gatewayVars
<1>3. \A t \in Task : routed'[t] # None => taskId[routed'[t]] = t
  <2>1. CASE \E r \in Request : routed' = [routed EXCEPT ![taskId[r]] = r]
    BY <1>1, <2>1 DEF TypeOK, OwnedInv
  <2>2. CASE routed' = routed \/ \A t \in Task : routed'[t] = None
    BY <1>1, <2>2 DEF OwnedInv
  <2>3. CASE ReceiveStatus
    <3>1. routed' = routed \/ routed' = [routed EXCEPT ![Head(outbox).task] = None]
      BY <2>3 DEF ReceiveStatus
    <3> QED BY <1>1, <3>1 DEF TypeOK, OwnedInv
  <2>4. GatewayStep => \/ routed' = routed \/ (\A t \in Task : routed'[t] = None)
                      \/ (\E r \in Request : routed' = [routed EXCEPT ![taskId[r]] = r])
                      \/ ReceiveStatus
    BY DEF GatewayStep, SendFrame, GiveUp, RequestTimeout, RegisterAgent, SendHelloOk,
           GatewayCloses, GoSilent, gatewayVars
  <2> QED BY <2>1, <2>2, <2>3, <2>4
<1> QED BY <1>1, <1>2, <1>3 DEF agentVars, OwnedInv, FedIsTracked, Tracked

LEMMA TrackedStep == TrackedInv /\ [Next]_vars => TrackedInv'
<1> SUFFICES ASSUME TrackedInv, [Next]_vars PROVE TrackedInv'
  OBVIOUS
<1>1. CASE UNCHANGED vars
  BY <1>1 DEF vars, agentVars, gatewayVars, TrackedInv, TypedInv, TypeOK, HandlingInv, OwnedInv,
              FedIsTracked, Tracked
<1>2. CASE AgentStep
  BY <1>2, AgentTyped, AgentOwned DEF TrackedInv
<1>3. CASE GatewayStep
  BY <1>3, GatewayTyped, GatewayOwned DEF TrackedInv
<1>4. CASE \/ Connect \/ PlayerStep \/ LeaveByError \/ WriterFails
           \/ \E r \in Request : PlayerExits(r)
  BY <1>4, OthersTyped, OthersOwned DEF TrackedInv
<1> QED BY <1>1, <1>2, <1>3, <1>4 DEF Next

LEMMA DeviceStarts == Init => DeviceInv
<1> SUFFICES ASSUME Init PROVE DeviceInv
  OBVIOUS
<1>1. TypeOK
  <2> <<>> \in Seq(Frames) /\ <<>> \in Seq(Statuses)
    OBVIOUS
  <2>1. inbox \in Seq(Frames) /\ outbox \in Seq(Statuses)
    BY DEF Init
  <2>2. 0 \in 0..MaxConns /\ 0 \in 0..(Chunks + 2)
    OBVIOUS
  <2> QED BY <2>1, <2>2 DEF Init, TypeOK, Frames, Statuses
<1>2. HandlingInv /\ OwnedInv /\ FedIsTracked /\ StartInv /\ PlayedInv
  <2> DOMAIN inbox = {} /\ DOMAIN outbox = {}
    BY DEF Init
  <2>1. \A r \in Request : taskId[r] \in Task
    BY DEF Init
  <2> QED BY <2>1 DEF Init, HandlingInv, OwnedInv, FedIsTracked, Tracked, StartInv, PlayedInv
<1> QED BY <1>1, <1>2 DEF DeviceInv

LEMMA TrackedInductive == Spec => []TrackedInv
<1>1. Init => TrackedInv
  BY DeviceStarts DEF DeviceInv, TrackedInv, TypedInv
<1> QED BY <1>1, TrackedStep, PTL DEF Spec

\* The device agent's state is of the declared types, and run_once handles a
\* playback only while it writes to it or waits for it.
THEOREM DeviceTypes == Spec => []TypeOK
<1> QED BY TrackedInductive, PTL DEF TrackedInv, TypedInv

\* Leaving run_once on any path leaves no player with an open stdin behind
\* (abort_all_playback_tasks, the drop of a PlaybackTask), for any requests that
\* share or do not share task ids.
THEOREM NoPlayerLeftFed == Spec => []FedIsTracked
<1> QED BY TrackedInductive, PTL DEF TrackedInv

-----------------------------------------------------------------------------
(* The frames of a request on their way.                                   *)

LEMMA Placed ==
  ASSUME NEW r \in Request, NEW n, n <= sent'[r], NEW N, N = n..(sent'[r] - 1),
         NEW new, new = [k \in N |-> new[k]], Follows(inbox', new, r, N)
  PROVE  InFlight(r, n)'
<1>1. new \in [N -> DOMAIN inbox']
  BY DEF Follows
<1> QED BY <1>1 DEF InFlight

\* A frame of another request, or a HelloOk, is read.
LEMMA ReadOther ==
  ASSUME TypedInv, NEW r \in Request, NEW n \in Nat, InFlight(r, n), sent' = sent,
         inbox # <<>>, inbox' = Tail(inbox), Head(inbox).req # r
  PROVE  InFlight(r, n)'
<1>1. /\ sent[r] \in Nat /\ Head(inbox) = inbox[1]
      /\ \A i \in DOMAIN inbox' : i \in Nat /\ i + 1 \in DOMAIN inbox /\ inbox'[i] = inbox[i + 1]
      /\ \A i \in DOMAIN inbox :
           i \in Nat /\ (i = 1 \/ (i - 1 \in DOMAIN inbox' /\ inbox'[i - 1] = inbox[i]))
  <2>1. sent[r] \in Nat
    BY DEF TypedInv, TypeOK
  <2> QED BY <2>1, ReadFacts
<1> DEFINE N == n..(sent[r] - 1)
<1>2. n <= sent[r] /\ \A k \in N : k \in Int
  BY DEF InFlight
<1>3. PICK pos : Follows(inbox, pos, r, N)
  BY DEF InFlight
<1> USE <1>3 DEF Follows
<1> HIDE DEF N
<1>4. ASSUME NEW k \in N PROVE pos[k] # 1 /\ pos[k] \in Nat
  <2>1. pos[k] \in DOMAIN inbox /\ inbox[pos[k]].req = r
    OBVIOUS
  <2>2. pos[k] # 1
    BY <1>1, <2>1
  <2> QED BY <1>1, <2>1, <2>2
<1> DEFINE new == [k \in N |-> pos[k] - 1]
<1>5. /\ new = [k \in N |-> new[k]]
      /\ \A k \in N : new[k] \in DOMAIN inbox' /\ inbox'[new[k]].req = r /\ inbox'[new[k]].kind = FrameKind(k)
  BY <1>1, <1>3, <1>4
<1>6. \A k, l \in N : k < l => new[k] < new[l]
  BY <1>3, <1>4
<1>7. ASSUME NEW i \in DOMAIN inbox', inbox'[i].req = r PROVE \E k \in N : new[k] = i
  <2>1. i + 1 \in DOMAIN inbox /\ inbox[i + 1].req = r /\ i \in Nat
    BY <1>1, <1>7
  <2>2. PICK k \in N : pos[k] = i + 1
    BY <1>3, <2>1
  <2>3. new[k] = i
    BY <2>1, <2>2
  <2> QED BY <2>3
<1> HIDE DEF new
<1>8. Follows(inbox', new, r, N)
  BY <1>5, <1>6, <1>7
<1> HIDE DEF Follows
<1> QED BY <1>2, <1>5, <1>8, Placed DEF N

\* The next frame of the request itself is read.
LEMMA ReadOwn ==
  ASSUME TypedInv, NEW r \in Request, NEW n \in Nat, InFlight(r, n), sent' = sent,
         inbox # <<>>, inbox' = Tail(inbox), Head(inbox).req = r
  PROVE  InFlight(r, n + 1)' /\ n < sent[r] /\ Head(inbox).kind = FrameKind(n)
<1>1. /\ sent[r] \in Nat /\ Head(inbox) = inbox[1] /\ 1 \in DOMAIN inbox
      /\ \A i \in DOMAIN inbox' : i \in Nat /\ i + 1 \in DOMAIN inbox /\ inbox'[i] = inbox[i + 1]
      /\ \A i \in DOMAIN inbox :
           i \in Nat \ {0} /\ (i = 1 \/ (i - 1 \in DOMAIN inbox' /\ inbox'[i - 1] = inbox[i]))
      /\ \A i \in DOMAIN inbox' : i \in Nat \ {0}
  <2>1. inbox \in Seq(Frames) /\ inbox' \in Seq(Frames)
    BY ReadFacts DEF TypedInv, TypeOK, Frames
  <2>2. /\ \A i \in DOMAIN inbox : i # 0
        /\ \A i \in DOMAIN inbox' : i # 0
    BY <2>1, LenProperties
  <2>3. sent[r] \in Nat
    BY DEF TypedInv, TypeOK
  <2>4. /\ Head(inbox) = inbox[1] /\ 1 \in DOMAIN inbox
        /\ \A i \in DOMAIN inbox' : i \in Nat /\ i + 1 \in DOMAIN inbox /\ inbox'[i] = inbox[i + 1]
        /\ \A i \in DOMAIN inbox :
             i \in Nat /\ (i = 1 \/ (i - 1 \in DOMAIN inbox' /\ inbox'[i - 1] = inbox[i]))
    BY ReadFacts
  <2> QED BY <2>2, <2>3, <2>4
<1> DEFINE N == n..(sent[r] - 1)
<1>2. n <= sent[r] /\ \A k \in N : k \in Int
  BY DEF InFlight
<1>3. PICK pos : Follows(inbox, pos, r, N)
  BY DEF InFlight
<1> USE <1>3 DEF Follows
<1> HIDE DEF N
<1>4. PICK k \in N : pos[k] = 1
  BY <1>1, <1>3
<1>5. k = n /\ n \in N
  <2>1. n \in N /\ k \in Int /\ n <= k
    BY <1>1, <1>4 DEF N
  <2>2. CASE n < k
    <3>1. pos[n] \in DOMAIN inbox /\ pos[n] < 1
      BY <1>3, <1>4, <2>1, <2>2
    <3>2. pos[n] \in Nat \ {0}
      BY <1>1, <3>1
    <3> QED BY <3>1, <3>2
  <2> QED BY <2>1, <2>2
<1>6. n < sent[r] /\ Head(inbox).kind = FrameKind(n)
  <2>1. n < sent[r]
    BY <1>1, <1>5 DEF N
  <2>2. inbox[pos[n]].kind = FrameKind(n)
    BY <1>5
  <2> QED BY <1>1, <1>4, <1>5, <2>1, <2>2
<1> DEFINE M == (n + 1)..(sent[r] - 1)
           new == [l \in M |-> pos[l] - 1]
<1>7. \A l \in M : l \in N /\ n < l
  BY <1>1 DEF N
<1>8. \A l \in M : l \in N /\ pos[l] \in DOMAIN inbox /\ pos[l] > 1 /\ pos[l] \in Nat
  BY <1>1, <1>3, <1>4, <1>5, <1>7
<1>9. \A l \in N : l \in M \/ l = n
  BY <1>1 DEF N
<1> HIDE DEF M
<1>10. /\ new = [l \in M |-> new[l]]
       /\ \A l \in M : new[l] \in DOMAIN inbox' /\ inbox'[new[l]].req = r /\ inbox'[new[l]].kind = FrameKind(l)
  BY <1>1, <1>3, <1>8
<1>11. \A j, l \in M : j < l => new[j] < new[l]
  BY <1>3, <1>8
<1>12. ASSUME NEW i \in DOMAIN inbox', inbox'[i].req = r PROVE \E l \in M : new[l] = i
  <2>1. i + 1 \in DOMAIN inbox /\ inbox[i + 1].req = r /\ i \in Nat \ {0}
    BY <1>1, <1>12
  <2>2. PICK l \in N : pos[l] = i + 1
    BY <1>3, <2>1
  <2>3. l # n /\ l \in M
    BY <1>4, <1>5, <1>9, <2>1, <2>2
  <2>4. new[l] = i
    BY <2>1, <2>2, <2>3
  <2> QED BY <2>3, <2>4
<1> HIDE DEF new
<1>13. InFlight(r, n + 1)'
  <2>1. Follows(inbox', new, r, M)
    BY <1>10, <1>11, <1>12
  <2>2. n + 1 <= sent'[r] /\ M = (n + 1)..(sent'[r] - 1)
    BY <1>1, <1>6 DEF M
  <2> HIDE DEF Follows
  <2> QED BY <1>10, <2>1, <2>2, Placed
<1> QED BY <1>6, <1>13

\* A frame is sent, of another request or a HelloOk.
LEMMA SendOther ==
  ASSUME TypedInv, NEW r \in Request, NEW n \in Nat, InFlight(r, n), sent'[r] = sent[r],
         NEW f \in Frames, inbox' = Append(inbox, f), f.req # r
  PROVE  InFlight(r, n)'
<1>1. /\ sent[r] \in Nat /\ Len(inbox) \in Nat
      /\ \A i \in DOMAIN inbox : i \in DOMAIN inbox' /\ inbox'[i] = inbox[i]
      /\ \A i \in DOMAIN inbox' : i \in DOMAIN inbox \/ inbox'[i] = f
  <2>1. /\ DOMAIN inbox = 1..Len(inbox) /\ DOMAIN inbox' = 1..(Len(inbox) + 1) /\ Len(inbox) \in Nat
        /\ \A i \in 1..Len(inbox) : inbox'[i] = inbox[i]
        /\ inbox'[Len(inbox) + 1] = f
    BY SendFacts
  <2> QED BY <2>1 DEF TypedInv, TypeOK
<1> DEFINE N == n..(sent[r] - 1)
<1>2. n <= sent[r] /\ \A k \in N : k \in Int
  BY DEF InFlight
<1>3. PICK pos : Follows(inbox, pos, r, N)
  BY DEF InFlight
<1> USE <1>3 DEF Follows
<1> HIDE DEF N
<1> DEFINE new == [k \in N |-> pos[k]]
<1>4. /\ new = [k \in N |-> new[k]]
      /\ \A k \in N : new[k] \in DOMAIN inbox' /\ inbox'[new[k]].req = r /\ inbox'[new[k]].kind = FrameKind(k)
      /\ \A k, l \in N : k < l => new[k] < new[l]
  BY <1>1, <1>3
<1>5. ASSUME NEW i \in DOMAIN inbox', inbox'[i].req = r PROVE \E k \in N : new[k] = i
  <2>1. i \in DOMAIN inbox /\ inbox[i].req = r
    BY <1>1, <1>5
  <2>2. PICK k \in N : pos[k] = i
    BY <1>3, <2>1
  <2>3. new[k] = i
    BY <2>2
  <2> QED BY <2>3
<1> HIDE DEF new
<1>6. Follows(inbox', new, r, N)
  BY <1>4, <1>5
<1> HIDE DEF Follows
<1> QED BY <1>2, <1>4, <1>6, Placed DEF N

\* A frame of the request itself is sent.
LEMMA SendOwn ==
  ASSUME TypedInv, NEW r \in Request, NEW n \in Nat, InFlight(r, n), sent'[r] = sent[r] + 1,
         inbox' = Append(inbox, [kind |-> FrameKind(sent[r]), req |-> r])
  PROVE  InFlight(r, n)'
<1> DEFINE f == [kind |-> FrameKind(sent[r]), req |-> r]
<1>1. /\ sent[r] \in Nat /\ Len(inbox) \in Nat
      /\ DOMAIN inbox = 1..Len(inbox) /\ DOMAIN inbox' = 1..(Len(inbox) + 1)
      /\ \A i \in 1..Len(inbox) : inbox'[i] = inbox[i]
      /\ inbox'[Len(inbox) + 1] = f
  <2> f \in Frames
    BY DEF Frames, FrameKind
  <2> HIDE DEF f
  <2> inbox' = Append(inbox, f)
    BY DEF f
  <2> QED BY SendFacts DEF TypedInv, TypeOK
<1> DEFINE N == n..(sent[r] - 1)
<1>2. n <= sent[r] /\ \A k \in N : k \in Int
  BY DEF InFlight
<1>3. PICK pos : Follows(inbox, pos, r, N)
  BY DEF InFlight
<1> USE <1>3 DEF Follows
<1> HIDE DEF N
<1> DEFINE M == n..(sent'[r] - 1)
           new == [k \in M |-> IF k = sent[r] THEN Len(inbox) + 1 ELSE pos[k]]
<1>4. /\ \A k \in M : k = sent[r] \/ (k \in N /\ k < sent[r])
      /\ \A k \in N : k \in M /\ k # sent[r]
      /\ sent[r] \in M
      /\ \A k, l \in M : k < l => k # sent[r]
  BY <1>1, <1>2 DEF N
<1>5. \A k \in N : pos[k] \in 1..Len(inbox)
  BY <1>1, <1>3
<1> HIDE DEF M, f
<1>6. \A k \in M : new[k] \in DOMAIN inbox' /\ inbox'[new[k]].req = r /\ inbox'[new[k]].kind = FrameKind(k)
  <2> SUFFICES ASSUME NEW k \in M
               PROVE  new[k] \in DOMAIN inbox' /\ inbox'[new[k]].req = r /\ inbox'[new[k]].kind = FrameKind(k)
    OBVIOUS
  <2>1. CASE k = sent[r]
    BY <1>1, <2>1 DEF f
  <2>2. CASE k # sent[r]
    <3>1. k \in N /\ new[k] = pos[k] /\ pos[k] \in 1..Len(inbox)
      BY <1>4, <1>5, <2>2
    <3> QED BY <1>1, <1>3, <3>1
  <2> QED BY <2>1, <2>2
<1>7. \A k, l \in M : k < l => new[k] < new[l]
  <2> SUFFICES ASSUME NEW k \in M, NEW l \in M, k < l PROVE new[k] < new[l]
    OBVIOUS
  <2>1. k \in N /\ new[k] = pos[k] /\ pos[k] \in 1..Len(inbox)
    BY <1>4, <1>5
  <2>2. CASE l = sent[r]
    BY <1>1, <2>1, <2>2
  <2>3. CASE l # sent[r]
    BY <1>3, <1>4, <2>1, <2>3
  <2> QED BY <2>2, <2>3
<1>8. ASSUME NEW i \in DOMAIN inbox', inbox'[i].req = r PROVE \E k \in M : new[k] = i
  <2>1. CASE i = Len(inbox) + 1
    BY <1>4, <2>1
  <2>2. CASE i \in DOMAIN inbox
    <3>1. PICK k \in N : pos[k] = i
      BY <1>1, <1>3, <1>8, <2>2
    <3>2. k \in M /\ new[k] = i
      BY <1>4, <3>1
    <3> QED BY <3>2
  <2> QED BY <1>1, <2>1, <2>2
<1>9. new = [k \in M |-> new[k]]
  OBVIOUS
<1> HIDE DEF new
<1>10. n <= sent'[r]
  BY <1>1, <1>2
<1>11. Follows(inbox', new, r, M)
  BY <1>6, <1>7, <1>8
<1> HIDE DEF Follows
<1> QED BY <1>9, <1>10, <1>11, Placed DEF M

-----------------------------------------------------------------------------
(* Starts.                                                                 *)

\* No process is spawned, and one that has ended with success stays so.
PlayersGoOn(p, q) ==
  \A r \in Request : (q[r] = "none" <=> p[r] = "none") /\ (p[r] = "ok" => q[r] = "ok")

LEMMA EndsGoOn ==
  ASSUME NEW S, NEW p
  PROVE  PlayersGoOn(p, p) /\ PlayersGoOn(p, Killed(S, p)) /\ PlayersGoOn(p, Dropped(S, p))
<1> QED BY DEF PlayersGoOn, Killed, Dropped, Alive

LEMMA ReportGoesOn ==
  ASSUME NEW t, NEW st, NEW tr, NEW p, Report(t, st, tr, p)
  PROVE  PlayersGoOn(p, player')
<1>1. player' = p \/ player' = Dropped(Tracked(tr), p)
  BY DEF Report
<1> QED BY <1>1, EndsGoOn

Taken == inbox # <<>> /\ inbox' = Tail(inbox)

AgentMoves ==
  \/ AgentStep \/ Connect \/ PlayerStep \/ LeaveByError \/ WriterFails
  \/ \E q \in Request : PlayerExits(q)

LEMMA MovesAlone ==
  ASSUME AgentMoves
  PROVE  UNCHANGED gatewayVars /\ (inbox' \in {inbox, <<>>} \/ Taken)
<1> QED BY DEF AgentMoves, AgentStep, PlayerStep, HelloOk, IgnoreBeforeHello, StartPlayback, ReadChunk,
               ReadFinish, ReportExit, LeaveLoop, Connect, WriteChunk, FailChunk, LeaveByError,
               WriterFails, PlayerExits, Receive, Taken, agentVars

\* What a step of the agent, or of a player, does to a request.
LEMMA Effects ==
  ASSUME TrackedInv, NEW r \in Request, AgentMoves
  PROVE  /\ player'[r] = "none" => player[r] = "none"
         /\ \/ Taken /\ Head(inbox).kind = "start" /\ Head(inbox).req = r
            \/ player[r] = "none" => player'[r] = "none"
         /\ \/ Taken /\ Head(inbox).kind = "start" /\ Head(inbox).req = r
            \/ player[r] = "ok" => player'[r] = "ok"
         /\ written'[r] = written[r] \/ player[r] = "fed"
<1>1. TypeOK /\ HandlingInv
  BY DEF TrackedInv, TypedInv
<1>2. CASE PlayersGoOn(player, player') /\ UNCHANGED <<gatewayVars, written>>
           /\ (inbox' \in {inbox, <<>>} \/ Taken)
  BY <1>2 DEF PlayersGoOn
<1>3. CASE HelloOk \/ IgnoreBeforeHello \/ Connect \/ LeaveLoop \/ LeaveByError \/ WriterFails
  <2>1. PlayersGoOn(player, player')
    <3>1. player' = player \/ \E S : player' = Killed(S, player) \/ player' = Dropped(S, player)
      BY <1>3 DEF HelloOk, IgnoreBeforeHello, Connect, LeaveLoop, LeaveByError, WriterFails, agentVars
    <3> QED BY <3>1, EndsGoOn
  <2>2. UNCHANGED <<gatewayVars, written>> /\ (inbox' \in {inbox, <<>>} \/ Taken)
    BY <1>3 DEF HelloOk, IgnoreBeforeHello, Connect, LeaveLoop, LeaveByError, WriterFails, agentVars,
                Receive, Taken
  <2> QED BY <1>2, <2>1, <2>2
<1>4. CASE StartPlayback
  <2>1. Taken /\ Head(inbox).kind = "start" /\ UNCHANGED <<gatewayVars, written>>
    BY <1>4 DEF StartPlayback, Receive, Taken
  <2> DEFINE h == Head(inbox).req
  <2>2. PICK p \in {player, [player EXCEPT ![h] = "fed"]} : PlayersGoOn(p, player')
    BY <1>4, ReportGoesOn DEF StartPlayback
  <2>3. (p[r] = "none" => player[r] = "none") /\ (r # h => p[r] = player[r])
    BY <1>1 DEF TypeOK
  <2>4. (player'[r] = "none" <=> p[r] = "none") /\ (p[r] = "ok" => player'[r] = "ok")
    BY <2>2 DEF PlayersGoOn
  <2> QED BY <2>1, <2>3, <2>4
<1>5. CASE ReadChunk \/ ReadFinish \/ ReportExit \/ FailChunk
  <2>1. PlayersGoOn(player, player')
    <3>1. CASE \E t, st, tr : Report(t, st, tr, player)
      BY <3>1, ReportGoesOn
    <3>2. CASE player' = player \/ \E S : player' = Dropped(S, player)
      BY <3>2, EndsGoOn
    <3>3. CASE \E t, st, tr, S : Report(t, st, tr, Killed(S, player))
      <4>1. PICK S : PlayersGoOn(Killed(S, player), player')
        BY <3>3, ReportGoesOn
      <4> QED BY <4>1, EndsGoOn DEF PlayersGoOn
    <3>4. ReadChunk => (\E t, st, tr : Report(t, st, tr, player)) \/ player' = player
      BY DEF ReadChunk, Silently
    <3>5. ReadFinish => (\E t, st, tr : Report(t, st, tr, player)) \/ player' = player
                        \/ \E S : player' = Dropped(S, player)
      BY DEF ReadFinish, Silently
    <3>6. ReportExit => \/ \E t, st, tr : Report(t, st, tr, player)
                       \/ \E t, st, tr, S : Report(t, st, tr, Killed(S, player))
      BY DEF ReportExit
    <3>7. FailChunk => \E t, st, tr, S : Report(t, st, tr, Killed(S, player))
      BY DEF FailChunk
    <3> QED BY <1>5, <3>1, <3>2, <3>3, <3>4, <3>5, <3>6, <3>7
  <2>2. UNCHANGED <<gatewayVars, written>> /\ (inbox' \in {inbox, <<>>} \/ Taken)
    BY <1>5 DEF ReadChunk, ReadFinish, ReportExit, FailChunk, Receive, Taken
  <2> QED BY <1>2, <2>1, <2>2
<1>6. CASE WriteChunk
  BY <1>1, <1>6 DEF WriteChunk, TypeOK, Taken
<1>7. ASSUME NEW q \in Request, PlayerExits(q)
      PROVE  PlayersGoOn(player, player') /\ UNCHANGED <<gatewayVars, written>> /\ inbox' = inbox
  BY <1>1, <1>7 DEF PlayerExits, TypeOK, PlayersGoOn, Alive
<1> QED BY <1>2, <1>3, <1>4, <1>5, <1>6, <1>7 DEF AgentMoves, AgentStep, PlayerStep

\* Every frame left in the inbox was there before, in the same order.
LEMMA InboxMoves ==
  ASSUME TrackedInv, AgentMoves
  PROVE  \E d \in {0, 1} :
           /\ d = 1 <=> Taken
           /\ \A i \in DOMAIN inbox' :
                /\ i \in Nat /\ i + d \in DOMAIN inbox /\ inbox'[i] = inbox[i + d] /\ i + d > d
                /\ inbox'[i].kind # "hello_ok" => inbox'[i].req \in Request
<1>1. TypedInv /\ HandlingInv /\ inbox \in Seq(Frames)
  BY DEF TrackedInv, TypedInv, TypeOK, Frames
<1>2. CASE inbox' = inbox /\ ~Taken
  <2>1. DOMAIN inbox = 1..Len(inbox)
    BY <1>1, LenProperties
  <2>2. \A i \in DOMAIN inbox' :
          /\ i \in Nat /\ i + 0 \in DOMAIN inbox /\ inbox'[i] = inbox[i + 0] /\ i + 0 > 0
          /\ inbox'[i].kind # "hello_ok" => inbox'[i].req \in Request
    BY <1>1, <1>2, <2>1 DEF HandlingInv
  <2> WITNESS 0 \in {0, 1}
  <2> QED BY <1>2, <2>2
<1>3. CASE inbox' = <<>> /\ ~Taken
  <2>1. DOMAIN inbox' = {}
    BY <1>3
  <2> WITNESS 0 \in {0, 1}
  <2> QED BY <1>3, <2>1
<1>4. CASE Taken
  <2>1. DOMAIN inbox' = 1..Len(inbox')
    BY <1>1, <1>4, ReadFacts, LenProperties DEF Taken
  <2>2. \A i \in DOMAIN inbox' :
          /\ i \in Nat /\ i + 1 \in DOMAIN inbox /\ inbox'[i] = inbox[i + 1]
          /\ inbox'[i].kind # "hello_ok" => inbox'[i].req \in Request
    BY <1>1, <1>4, ReadFacts DEF Taken
  <2>3. \A i \in DOMAIN inbox' : i + 1 > 1
    BY <2>1
  <2> WITNESS 1 \in {0, 1}
  <2> QED BY <1>4, <2>2, <2>3
<1> QED BY <1>2, <1>3, <1>4, MovesAlone

LEMMA AgentStarts ==
  ASSUME TrackedInv, StartInv, AgentMoves
  PROVE  StartInv'
<1>1. PICK d \in {0, 1} :
        /\ d = 1 <=> Taken
        /\ \A i \in DOMAIN inbox' :
             /\ i \in Nat /\ i + d \in DOMAIN inbox /\ inbox'[i] = inbox[i + d] /\ i + d > d
             /\ inbox'[i].kind # "hello_ok" => inbox'[i].req \in Request
  BY InboxMoves
<1>2. Taken => Head(inbox) = inbox[1] /\ 1 \in DOMAIN inbox
  BY ReadFacts DEF Taken, TrackedInv
<1>3. sent' = sent
  BY MovesAlone DEF gatewayVars
<1>4. ASSUME NEW r \in Request, sent[r] = 0
      PROVE  player'[r] = "none" /\ \A i \in DOMAIN inbox' : inbox'[i].req # r
  <2>1. player[r] = "none" /\ \A i \in DOMAIN inbox : inbox[i].req # r
    BY <1>4 DEF StartInv
  <2>2. player'[r] = "none"
    BY <1>2, <2>1, Effects
  <2> QED BY <1>1, <2>1, <2>2
<1>5. ASSUME NEW i \in DOMAIN inbox', inbox'[i].kind = "start"
      PROVE  /\ player'[inbox'[i].req] = "none"
             /\ \A j \in DOMAIN inbox' : inbox'[j].kind = "start" /\ inbox'[j].req = inbox'[i].req => i = j
  <2> DEFINE r == inbox'[i].req
  <2>1. i \in Nat /\ i + d \in DOMAIN inbox /\ inbox'[i] = inbox[i + d] /\ r \in Request /\ i + d > d
    BY <1>1, <1>5
  <2>2. player[r] = "none"
    BY <1>5, <2>1 DEF StartInv
  <2>3. ASSUME Taken, inbox[1].kind = "start", inbox[1].req = r PROVE FALSE
    <3>1. i + d = 1
      BY <1>2, <1>5, <2>1, <2>3 DEF StartInv
    <3> QED BY <1>1, <2>1, <2>3, <3>1
  <2>4. player'[r] = "none"
    BY <1>2, <2>1, <2>2, <2>3, Effects
  <2>5. ASSUME NEW j \in DOMAIN inbox', inbox'[j].kind = "start", inbox'[j].req = r PROVE i = j
    <3>1. j \in Nat /\ j + d \in DOMAIN inbox /\ inbox'[j] = inbox[j + d]
      BY <1>1
    <3>2. i + d = j + d
      BY <1>5, <2>1, <2>5, <3>1 DEF StartInv
    <3> QED BY <2>1, <3>1, <3>2
  <2> QED BY <2>4, <2>5
<1>6. ASSUME NEW r \in Request, player'[r] = "none" PROVE written'[r] = 0
  BY <1>6, Effects DEF StartInv
<1> QED BY <1>3, <1>4, <1>5, <1>6 DEF StartInv

\* What the gateway may do to the frames on their way and to the fate of a request.
LEMMA GatewayMoves ==
  ASSUME TrackedInv, GatewayStep
  PROVE  /\ UNCHANGED <<agentVars, taskId>>
         /\ \/ \E r \in Request : SendFrame(r)
            \/ SendHelloOk
            \/ inbox' = inbox /\ \A r \in Request : sent'[r] = sent[r] \/ (sent[r] # 0 /\ GiveUp(r))
<1>1. UNCHANGED <<agentVars, taskId>>
  BY DEF GatewayStep, SendFrame, GiveUp, RequestTimeout, RegisterAgent, SendHelloOk, ReceiveStatus,
         GatewayCloses, GoSilent, gatewayVars
<1>2. ASSUME NEW q \in Request, GiveUp(q)
      PROVE  inbox' = inbox /\ \A r \in Request : sent'[r] = sent[r] \/ (sent[r] # 0 /\ GiveUp(r))
  <2>1. inbox' = inbox /\ sent[q] # 0 /\ \A r \in Request \ {q} : sent'[r] = sent[r]
    BY <1>2 DEF GiveUp, TrackedInv, TypedInv, TypeOK
  <2> QED BY <1>2, <2>1
<1>3. CASE RegisterAgent \/ ReceiveStatus \/ GatewayCloses \/ GoSilent \/ \E r \in Request : RequestTimeout(r)
  BY <1>3 DEF RequestTimeout, RegisterAgent, ReceiveStatus, GatewayCloses, GoSilent, gatewayVars
<1> QED BY <1>1, <1>2, <1>3 DEF GatewayStep

LEMMA GatewayStarts ==
  ASSUME TrackedInv, StartInv, GatewayStep
  PROVE  StartInv'
<1>1. player' = player /\ written' = written
  BY GatewayMoves DEF agentVars
<1>2. ASSUME NEW r \in Request, SendFrame(r) PROVE StartInv'
  <2> DEFINE f == [kind |-> FrameKind(sent[r]), req |-> r]
  <2>1. f \in Frames /\ f.req = r /\ (f.kind = "start" <=> sent[r] = 0)
    <3>1. sent[r] \in Nat
      BY DEF TrackedInv, TypedInv, TypeOK
    <3> QED BY <3>1 DEF Frames, FrameKind
  <2>2. inbox' = Append(inbox, f)
    BY <1>2 DEF SendFrame
  <2> HIDE DEF f
  <2>3. /\ Len(inbox) \in Nat
        /\ DOMAIN inbox = 1..Len(inbox) /\ DOMAIN inbox' = 1..(Len(inbox) + 1)
        /\ \A i \in 1..Len(inbox) : inbox'[i] = inbox[i]
        /\ inbox'[Len(inbox) + 1] = f
    BY <2>1, <2>2, SendFacts DEF TrackedInv
  <2>4. sent'[r] # 0 /\ \A q \in Request \ {r} : sent'[q] = sent[q]
    BY <1>2 DEF SendFrame, TrackedInv, TypedInv, TypeOK
  <2>5. \A i \in DOMAIN inbox' : (i \in DOMAIN inbox /\ inbox'[i] = inbox[i]) \/ (i = Len(inbox) + 1 /\ inbox'[i] = f)
    BY <2>3
  <2>6. sent[r] = 0 => player[r] = "none" /\ \A i \in DOMAIN inbox : inbox[i].req # r
    BY DEF StartInv
  <2>7. ASSUME NEW i \in DOMAIN inbox', inbox'[i].kind = "start"
        PROVE  /\ player[inbox'[i].req] = "none"
               /\ \A j \in DOMAIN inbox' : inbox'[j].kind = "start" /\ inbox'[j].req = inbox'[i].req => i = j
    <3>1. CASE i = Len(inbox) + 1 /\ inbox'[i] = f
      BY <2>1, <2>5, <2>6, <2>7, <3>1
    <3>2. CASE i \in DOMAIN inbox /\ inbox'[i] = inbox[i]
      BY <2>1, <2>5, <2>6, <2>7, <3>2 DEF StartInv
    <3> QED BY <2>5, <3>1, <3>2
  <2>8. \A q \in Request : sent'[q] = 0 =>
          player[q] = "none" /\ \A i \in DOMAIN inbox' : inbox'[i].req # q
    BY <2>1, <2>4, <2>5 DEF StartInv
  <2> QED BY <1>1, <2>7, <2>8 DEF StartInv
<1>3. CASE SendHelloOk
  <2> DEFINE f == [kind |-> "hello_ok", req |-> None]
  <2>1. f \in Frames /\ f.req = None /\ f.kind = "hello_ok"
    BY DEF Frames
  <2>2. inbox' = Append(inbox, f) /\ sent' = sent
    BY <1>3 DEF SendHelloOk, gatewayVars
  <2> HIDE DEF f
  <2>3. \A i \in DOMAIN inbox' : (i \in DOMAIN inbox /\ inbox'[i] = inbox[i]) \/ inbox'[i] = f
    <3>1. /\ Len(inbox) \in Nat
          /\ DOMAIN inbox = 1..Len(inbox) /\ DOMAIN inbox' = 1..(Len(inbox) + 1)
          /\ \A i \in 1..Len(inbox) : inbox'[i] = inbox[i]
          /\ inbox'[Len(inbox) + 1] = f
      BY <2>1, <2>2, SendFacts DEF TrackedInv
    <3> QED BY <3>1
  <2> QED BY <1>1, <2>1, <2>2, <2>3 DEF StartInv
<1>4. CASE inbox' = inbox /\ \A r \in Request : sent'[r] = sent[r] \/ (sent[r] # 0 /\ GiveUp(r))
  <2>1. \A r \in Request : sent'[r] = 0 => sent[r] = 0
    <3> SUFFICES ASSUME NEW r \in Request, sent'[r] = 0, sent[r] # 0, GiveUp(r) PROVE FALSE
      BY <1>4
    <3>1. sent'[r] = Chunks + 2
      BY DEF GiveUp, TrackedInv, TypedInv, TypeOK
    <3> QED BY <3>1
  <2> QED BY <1>1, <1>4, <2>1 DEF StartInv
<1> QED BY <1>2, <1>3, <1>4, GatewayMoves

-----------------------------------------------------------------------------
(* Playing.                                                                *)

\* The request of the frame that is read, and its playback.
OwnFrame(r) == Taken /\ Head(inbox).req = r

\* What one step does to the playback of a tracked request with a task id of its
\* own: nothing, a frame of another request, its next chunk, or its start.
LEMMA TrackedMoves ==
  ASSUME TrackedInv, StartInv, AgentMoves, NEW r \in Request, Alone(r), tracker'[taskId[r]] = r
  PROVE  \/ /\ tracker[taskId[r]] = r /\ NextFrame(r)' = NextFrame(r)
            /\ inbox' = inbox \/ (Taken /\ Head(inbox).req # r)
         \/ tracker[taskId[r]] = r /\ NextFrame(r)' = NextFrame(r) + 1 /\ OwnFrame(r)
         \/ OwnFrame(r) /\ Head(inbox).kind = "start" /\ NextFrame(r)' = 1
<1>1. TypedInv /\ TypeOK /\ HandlingInv /\ OwnedInv /\ FedIsTracked
  BY DEF TrackedInv, TypedInv
<1> DEFINE t == taskId[r]
           h == Head(inbox).req
<1>2. /\ t \in Task /\ None \notin Request /\ written[r] \in Nat
      /\ \A q \in Request \ {r} : taskId[q] # t
  BY <1>1 DEF Alone, TypeOK
<1>3. ASSUME NEW tr, NEW p, NEW st, NEW u, Report(u, st, tr, p)
      PROVE  writer = "up" /\ tr[t] = r /\ pc' = "loop" /\ tracker' = tr
  BY <1>2, <1>3 DEF Report, Left
<1>4. CASE Left
  BY <1>2, <1>4 DEF Left
<1>5. CASE HelloOk \/ IgnoreBeforeHello \/ Connect
  BY <1>1, <1>2, <1>5 DEF HelloOk, IgnoreBeforeHello, Connect, OwnedInv, agentVars
<1>6. CASE StartPlayback
  <2>1. Taken /\ pc = "loop" /\ Head(inbox).kind = "start" /\ written' = written
    BY <1>6 DEF StartPlayback, Receive, Taken
  <2>2. h \in Request /\ player[h] = "none"
    BY <1>1, <2>1, ReadFacts DEF Taken, StartInv
  <2>3. CASE Report(taskId[h], "failed", tracker, player)
    <3>1. tracker[t] = r /\ pc' = "loop"
      BY <1>3, <2>3
    <3>2. player[r] # "none"
      BY <1>1, <1>2, <3>1 DEF FedIsTracked, Tracked
    <3> QED BY <2>1, <2>2, <3>1, <3>2 DEF NextFrame
  <2>4. CASE Report(taskId[h], "started", [tracker EXCEPT ![taskId[h]] = h], [player EXCEPT ![h] = "fed"])
    <3>1. pc' = "loop" /\ [tracker EXCEPT ![taskId[h]] = h][t] = r
      BY <1>3, <2>4
    <3>2. CASE h = r
      <4>1. written[r] = 0
        BY <2>2, <3>2 DEF StartInv
      <4> QED BY <2>1, <3>1, <3>2, <4>1 DEF NextFrame, OwnFrame
    <3>3. CASE h # r
      <4>1. tracker[t] = r
        BY <1>1, <1>2, <2>2, <3>1, <3>3 DEF TypeOK
      <4> QED BY <2>1, <3>1, <3>3, <4>1 DEF NextFrame
    <3> QED BY <3>2, <3>3
  <2> QED BY <1>6, <2>3, <2>4 DEF StartPlayback
<1>7. CASE ReadChunk
  <2>1. Taken /\ pc = "loop" /\ Head(inbox).kind = "chunk" /\ written' = written
    BY <1>7 DEF ReadChunk, Receive, Taken
  <2>2. h \in Request /\ taskId[h] \in Task
    BY <1>1, <2>1, ReadFacts DEF Taken, TypeOK
  <2>3. tracker[t] = r
    BY <1>3, <1>7 DEF ReadChunk, Silently
  <2>4. CASE h = r
    <3>1. pc' = "write" /\ handling' = r
      BY <1>2, <1>7, <2>3, <2>4 DEF ReadChunk
    <3> QED BY <1>2, <2>1, <2>3, <2>4, <3>1 DEF NextFrame, OwnFrame
  <2>5. CASE h # r
    <3>1. pc' = "write" => handling' # r
      <4>1. CASE tracker[taskId[h]] # None /\ handling' = tracker[taskId[h]]
        <5>1. taskId[handling'] = taskId[h]
          BY <1>1, <2>2, <4>1 DEF OwnedInv
        <5> QED BY <1>2, <2>2, <2>5, <5>1
      <4>2. CASE Silently \/ Report(taskId[h], "failed", tracker, player)
        BY <1>3, <2>1, <4>2 DEF Silently
      <4> QED BY <1>7, <4>1, <4>2 DEF ReadChunk
    <3> QED BY <2>1, <2>3, <2>5, <3>1 DEF NextFrame
  <2> QED BY <2>4, <2>5
<1>8. CASE ReadFinish
  <2>1. Taken /\ pc = "loop" /\ Head(inbox).kind = "finish" /\ written' = written
    BY <1>8 DEF ReadFinish, Receive, Taken
  <2>2. h \in Request /\ taskId[h] \in Task
    BY <1>1, <2>1, ReadFacts DEF Taken, TypeOK
  <2>3. CASE /\ tracker[taskId[h]] # None /\ pc' = "wait"
             /\ tracker' = [tracker EXCEPT ![taskId[h]] = None]
    <3>1. taskId[h] # t /\ tracker[t] = r
      BY <1>1, <1>2, <2>3 DEF TypeOK
    <3> QED BY <2>1, <2>3, <3>1 DEF NextFrame
  <2>4. CASE tracker[taskId[h]] = None /\ (Silently \/ Report(taskId[h], "failed", tracker, player))
    <3>1. tracker[t] = r /\ pc' = "loop"
      BY <1>3, <2>1, <2>4 DEF Silently
    <3>2. h # r
      BY <1>2, <2>4, <3>1
    <3> QED BY <2>1, <3>1, <3>2 DEF NextFrame
  <2> QED BY <1>8, <2>3, <2>4 DEF ReadFinish
<1>9. CASE ReportExit \/ FailChunk
  <2>1. inbox' = inbox /\ written' = written /\ handling \in Request
    BY <1>1, <1>9 DEF ReportExit, FailChunk, HandlingInv, TypeOK
  <2>2. PICK tr \in {tracker, [tracker EXCEPT ![taskId[handling]] = None]} :
          /\ \E u, st, p : Report(u, st, tr, p)
          /\ tr = tracker => pc = "wait"
    BY <1>1, <1>9, <2>1 DEF ReportExit, FailChunk, OwnedInv, TypeOK
  <2>3. tr[t] = r /\ pc' = "loop"
    BY <1>3, <2>2
  <2>4. tracker[t] = r /\ (pc = "write" => handling # r)
    BY <1>1, <1>2, <2>1, <2>2, <2>3 DEF TypeOK
  <2> QED BY <2>1, <2>3, <2>4 DEF NextFrame
<1>10. CASE WriteChunk
  <2>1. pc = "write" /\ pc' = "loop" /\ inbox' = inbox /\ tracker' = tracker
        /\ written' = [written EXCEPT ![handling] = @ + 1] /\ handling \in Request
    BY <1>1, <1>10 DEF WriteChunk, HandlingInv, TypeOK
  <2>2. NextFrame(r)' = NextFrame(r)
    <3>1. CASE handling = r
      BY <1>1, <1>2, <2>1, <3>1 DEF NextFrame, TypeOK
    <3>2. CASE handling # r
      BY <1>1, <1>2, <2>1, <3>2 DEF NextFrame, TypeOK
    <3> QED BY <3>1, <3>2
  <2> QED BY <2>1, <2>2
<1>11. CASE WriterFails \/ \E q \in Request : PlayerExits(q)
  BY <1>11 DEF WriterFails, PlayerExits, NextFrame
<1> QED BY <1>4, <1>5, <1>6, <1>7, <1>8, <1>9, <1>10, <1>11
        DEF AgentMoves, AgentStep, PlayerStep, LeaveLoop, LeaveByError

\* The agent waits for the player of such a request once it has read its finish.
LEMMA WaitMoves ==
  ASSUME TrackedInv, AgentMoves, NEW r \in Request, Alone(r), pc' = "wait", handling' = r
  PROVE  /\ written'[r] = written[r]
         /\ \/ pc = "wait" /\ handling = r
            \/ /\ pc = "loop" /\ tracker[taskId[r]] = r /\ OwnFrame(r)
               /\ Head(inbox).kind = "finish"
<1>1. TypedInv /\ TypeOK /\ HandlingInv /\ OwnedInv
  BY DEF TrackedInv, TypedInv
<1> DEFINE h == Head(inbox).req
<1>2. \A u, st, tr, p : ~Report(u, st, tr, p)
  BY DEF Report, Left
<1>3. CASE ReadFinish
  <2>1. Taken /\ pc = "loop" /\ Head(inbox).kind = "finish" /\ written' = written
    BY <1>3 DEF ReadFinish, Receive, Taken
  <2>2. h \in Request /\ taskId[h] \in Task
    BY <1>1, <2>1, ReadFacts DEF Taken, TypeOK
  <2>3. tracker[taskId[h]] = r
    BY <1>2, <1>3, <2>1 DEF ReadFinish, Silently
  <2>4. taskId[r] = taskId[h] /\ h = r
    BY <1>1, <2>2, <2>3 DEF OwnedInv, Alone
  <2> QED BY <2>1, <2>3, <2>4 DEF OwnFrame
<1>4. CASE WriterFails \/ \E q \in Request : PlayerExits(q)
  BY <1>4 DEF WriterFails, PlayerExits
<1>5. ~(StartPlayback \/ ReportExit \/ FailChunk \/ WriteChunk \/ HelloOk \/ Connect
        \/ LeaveLoop \/ LeaveByError)
  BY <1>2 DEF StartPlayback, ReportExit, FailChunk, WriteChunk, HelloOk, Connect, LeaveLoop,
              LeaveByError, Left
<1>6. ~ReadChunk
  BY <1>2 DEF ReadChunk, Silently
<1>7. CASE IgnoreBeforeHello
  BY <1>7 DEF IgnoreBeforeHello, agentVars
<1> QED BY <1>3, <1>4, <1>5, <1>6, <1>7 DEF AgentMoves, AgentStep, PlayerStep

\* "finished" is reported when the player that was waited for has ended well.
LEMMA StatusMoves ==
  ASSUME TrackedInv, AgentMoves, NEW r \in Request, Alone(r),
         NEW i \in DOMAIN outbox', outbox'[i] = [state |-> "finished", task |-> taskId[r]]
  PROVE  \/ \E j \in DOMAIN outbox : outbox[j] = [state |-> "finished", task |-> taskId[r]]
         \/ pc = "wait" /\ handling = r /\ player[r] = "ok"
<1>1. TypedInv /\ TypeOK /\ HandlingInv /\ outbox \in Seq(Statuses)
  BY DEF TrackedInv, TypedInv, TypeOK, Statuses
<1>2. ASSUME NEW u \in Task, NEW st \in {"started", "finished", "failed"}, NEW tr, NEW p,
             Report(u, st, tr, p)
      PROVE  \/ \E j \in DOMAIN outbox : outbox[j] = [state |-> "finished", task |-> taskId[r]]
             \/ st = "finished" /\ u = taskId[r]
  <2> DEFINE new == [state |-> st, task |-> u]
  <2>1. new \in Statuses /\ new.state = st /\ new.task = u
    BY DEF Statuses
  <2> HIDE DEF new
  <2>2. outbox' = outbox \/ outbox' = Append(outbox, new)
    BY <1>2 DEF Report, new
  <2>3. CASE outbox' = Append(outbox, new)
    <3>1. /\ DOMAIN outbox = 1..Len(outbox) /\ DOMAIN outbox' = 1..(Len(outbox) + 1)
          /\ Len(outbox) \in Nat
          /\ \A j \in 1..Len(outbox) : outbox'[j] = outbox[j]
          /\ outbox'[Len(outbox) + 1] = new
      BY <1>1, <2>1, <2>3, AppendFacts
    <3>2. CASE i \in DOMAIN outbox
      BY <3>1, <3>2
    <3>3. CASE i = Len(outbox) + 1
      BY <2>1, <3>1, <3>3
    <3> QED BY <3>1, <3>2, <3>3
  <2> QED BY <2>2, <2>3
<1>3. CASE outbox' = outbox
  BY <1>3
<1>4. CASE outbox' = <<>>
  BY <1>4
<1>5. CASE StartPlayback \/ ReadChunk \/ ReadFinish
  <2>1. CASE outbox' # outbox
    <3>1. Taken /\ Head(inbox).kind # "hello_ok"
      BY <1>5 DEF StartPlayback, ReadChunk, ReadFinish, Receive, Taken
    <3>2. taskId[Head(inbox).req] \in Task
      BY <1>1, <3>1, ReadFacts DEF Taken, TypeOK
    <3>3. \E st \in {"started", "failed"} : \E tr, p : Report(taskId[Head(inbox).req], st, tr, p)
      BY <1>5, <2>1 DEF StartPlayback, ReadChunk, ReadFinish, Silently
    <3> QED BY <1>2, <3>2, <3>3
  <2> QED BY <1>3, <2>1
<1>6. CASE FailChunk
  BY <1>1, <1>2, <1>6 DEF FailChunk, HandlingInv, TypeOK
<1>7. CASE ReportExit
  <2>1. handling \in Request /\ taskId[handling] \in Task /\ pc = "wait"
    BY <1>1, <1>7 DEF ReportExit, HandlingInv, TypeOK
  <2>2. CASE player[handling] = "ok" /\ \E st \in {"finished", "failed"} : Report(taskId[handling], st, tracker, player)
    BY <1>2, <2>1, <2>2 DEF Alone
  <2>3. CASE \E p : Report(taskId[handling], "failed", tracker, p)
    BY <1>2, <2>1, <2>3
  <2> QED BY <1>7, <2>2, <2>3 DEF ReportExit
<1>8. ~(StartPlayback \/ ReadChunk \/ ReadFinish \/ FailChunk \/ ReportExit) => outbox' \in {outbox, <<>>}
  BY DEF AgentMoves, AgentStep, PlayerStep, HelloOk, IgnoreBeforeHello, LeaveLoop, Connect, WriteChunk,
         LeaveByError, WriterFails, PlayerExits
<1> QED BY <1>3, <1>4, <1>5, <1>6, <1>7, <1>8

\* What was played stays played: no start of the request is on its way any more.
LEMMA PlayedStays ==
  ASSUME TrackedInv, StartInv, AgentMoves, NEW r \in Request, Played(r)
  PROVE  Played(r)'
<1>1. ~(Taken /\ Head(inbox).kind = "start" /\ Head(inbox).req = r)
  BY ReadFacts DEF Taken, TrackedInv, StartInv, Played
<1> QED BY <1>1, Effects DEF Played

LEMMA AgentPlays ==
  ASSUME TrackedInv, StartInv, PlayedInv, AgentMoves
  PROVE  PlayedInv'
<1> SUFFICES ASSUME NEW r \in Request, Alone(r)
             PROVE  /\ result[r] = "none" =>
                         /\ (\E i \in DOMAIN inbox' : inbox'[i].kind = "start" /\ inbox'[i].req = r) => InFlight(r, 0)'
                         /\ tracker'[taskId[r]] = r => InFlight(r, NextFrame(r))'
                         /\ pc' = "wait" /\ handling' = r => written'[r] = Chunks
                         /\ \A i \in DOMAIN outbox' :
                              outbox'[i] = [state |-> "finished", task |-> taskId[r]] => Played(r)'
                    /\ result[r] = "finished" => Played(r)'
  BY MovesAlone DEF gatewayVars, PlayedInv, Alone
<1>1. /\ TypedInv /\ TypeOK /\ sent' = sent
  BY MovesAlone DEF TrackedInv, TypedInv, gatewayVars
<1>2. result[r] = "finished" => Played(r)'
  BY PlayedStays DEF PlayedInv
<1> SUFFICES ASSUME result[r] = "none"
             PROVE  /\ (\E i \in DOMAIN inbox' : inbox'[i].kind = "start" /\ inbox'[i].req = r) => InFlight(r, 0)'
                    /\ tracker'[taskId[r]] = r => InFlight(r, NextFrame(r))'
                    /\ pc' = "wait" /\ handling' = r => written'[r] = Chunks
                    /\ \A i \in DOMAIN outbox' :
                         outbox'[i] = [state |-> "finished", task |-> taskId[r]] => Played(r)'
  BY <1>2
<1>3. NextFrame(r) \in Nat /\ written[r] \in Nat /\ sent[r] <= Chunks + 2 /\ sent[r] \in Nat
  BY <1>1 DEF NextFrame, TypeOK
<1>4. ASSUME NEW n \in Nat, InFlight(r, n), inbox' = inbox PROVE InFlight(r, n)'
  BY <1>1, <1>4 DEF InFlight
<1>5. Taken => /\ 1 \in DOMAIN inbox /\ Head(inbox) = inbox[1]
               /\ \A i \in DOMAIN inbox' : i \in Nat /\ i + 1 \in DOMAIN inbox /\ inbox'[i] = inbox[i + 1]
  BY <1>1, ReadFacts DEF Taken
<1>6. ASSUME NEW i \in DOMAIN inbox', inbox'[i].kind = "start", inbox'[i].req = r
      PROVE  InFlight(r, 0)'
  <2>1. PICK d \in {0, 1} : /\ d = 1 <=> Taken
                           /\ i \in Nat /\ i + d \in DOMAIN inbox /\ inbox'[i] = inbox[i + d] /\ i + d > d
    BY InboxMoves
  <2>2. InFlight(r, 0)
    BY <1>6, <2>1 DEF PlayedInv
  <2>3. CASE Taken /\ Head(inbox).req = r
    <3>1. Head(inbox).kind = "start"
      BY <1>1, <2>2, <2>3, ReadOwn DEF Taken, FrameKind
    <3>2. i + d = 1
      BY <1>5, <1>6, <2>1, <2>3, <3>1 DEF StartInv
    <3> QED BY <2>1, <2>3, <3>2
  <2>4. CASE Taken /\ Head(inbox).req # r
    BY <1>1, <2>2, <2>4, ReadOther DEF Taken
  <2>5. CASE inbox' = inbox
    BY <1>4, <2>2, <2>5
  <2>6. inbox' # <<>>
    BY <1>6
  <2> QED BY <2>3, <2>4, <2>5, <2>6, MovesAlone
<1>7. ASSUME tracker'[taskId[r]] = r PROVE InFlight(r, NextFrame(r))'
  <2>1. CASE /\ tracker[taskId[r]] = r /\ NextFrame(r)' = NextFrame(r)
             /\ inbox' = inbox \/ (Taken /\ Head(inbox).req # r)
    <3>1. InFlight(r, NextFrame(r))
      BY <2>1 DEF PlayedInv
    <3>2. \A n \in Nat : InFlight(r, n) => InFlight(r, n)'
      BY <1>1, <1>4, <2>1, ReadOther DEF Taken
    <3> QED BY <1>3, <2>1, <3>1, <3>2 DEF InFlight
  <2>2. CASE tracker[taskId[r]] = r /\ NextFrame(r)' = NextFrame(r) + 1 /\ OwnFrame(r)
    <3>1. InFlight(r, NextFrame(r))
      BY <2>2 DEF PlayedInv
    <3>2. \A n \in Nat : InFlight(r, n) => InFlight(r, n + 1)'
      BY <1>1, <2>2, ReadOwn DEF OwnFrame, Taken
    <3> QED BY <1>3, <2>2, <3>1, <3>2 DEF InFlight
  <2>3. CASE OwnFrame(r) /\ Head(inbox).kind = "start" /\ NextFrame(r)' = 1
    <3>1. InFlight(r, 0)
      BY <1>5, <2>3 DEF PlayedInv, OwnFrame
    <3>2. InFlight(r, 0 + 1)'
      BY <1>1, <2>3, <3>1, ReadOwn DEF OwnFrame, Taken
    <3> QED BY <2>3, <3>2 DEF InFlight
  <2> QED BY <1>7, <2>1, <2>2, <2>3, TrackedMoves
<1>8. ASSUME pc' = "wait", handling' = r PROVE written'[r] = Chunks
  <2>1. CASE pc = "wait" /\ handling = r
    BY <1>8, <2>1, WaitMoves DEF PlayedInv
  <2>2. CASE pc = "loop" /\ tracker[taskId[r]] = r /\ OwnFrame(r) /\ Head(inbox).kind = "finish"
    <3>1. InFlight(r, NextFrame(r)) /\ NextFrame(r) = 1 + written[r]
      BY <1>3, <2>2 DEF PlayedInv, NextFrame
    <3>2. NextFrame(r) < sent[r] /\ FrameKind(NextFrame(r)) = "finish"
      BY <1>1, <1>3, <2>2, <3>1, ReadOwn DEF OwnFrame, Taken
    <3>3. NextFrame(r) > Chunks
      BY <1>3, <3>2 DEF FrameKind
    <3>4. written[r] = Chunks
      BY <1>3, <3>1, <3>2, <3>3
    <3> QED BY <1>8, <3>4, WaitMoves
  <2> QED BY <1>8, <2>1, <2>2, WaitMoves
<1>9. ASSUME NEW i \in DOMAIN outbox', outbox'[i] = [state |-> "finished", task |-> taskId[r]]
      PROVE  Played(r)'
  <2>1. CASE \E j \in DOMAIN outbox : outbox[j] = [state |-> "finished", task |-> taskId[r]]
    BY <2>1, PlayedStays DEF PlayedInv
  <2>2. CASE pc = "wait" /\ handling = r /\ player[r] = "ok"
    BY <2>2, PlayedStays DEF PlayedInv, Played
  <2> QED BY <1>9, <2>1, <2>2, StatusMoves
<1> QED BY <1>6, <1>7, <1>8, <1>9

\* A request is settled once, and with success only when the agent says so of its
\* task id.
LEMMA FateMoves ==
  ASSUME TrackedInv, GatewayStep, NEW r \in Request
  PROVE  /\ result'[r] = "none" => result[r] = "none" /\ ~GiveUp(r)
         /\ \/ result'[r] = "finished" => result[r] = "finished"
            \/ /\ result[r] = "none"
               /\ \E i \in DOMAIN outbox : outbox[i] = [state |-> "finished", task |-> taskId[r]]
         /\ \A i \in DOMAIN outbox' : \E j \in DOMAIN outbox : outbox'[i] = outbox[j]
<1>1. TypedInv /\ TypeOK /\ OwnedInv /\ outbox \in Seq(Statuses)
  BY DEF TrackedInv, TypedInv, TypeOK, Statuses
<1>2. GiveUp(r) => result'[r] # "none"
  BY <1>1 DEF GiveUp, Settle, TypeOK
<1>3. CASE UNCHANGED <<result, outbox>>
  BY <1>2, <1>3
<1>4. CASE outbox' = outbox /\ \E S : Settle(S, "failed") \/ Settle(S, "timeout")
  BY <1>1, <1>2, <1>4 DEF Settle, TypeOK
<1>5. CASE RegisterAgent \/ GatewayCloses
  BY <1>4, <1>5 DEF RegisterAgent, GatewayCloses
<1>6. CASE SendHelloOk \/ GoSilent \/ \E q \in Request : SendFrame(q)
  BY <1>3, <1>6 DEF SendHelloOk, GoSilent, SendFrame, gatewayVars
<1>7. CASE \E q \in Request : GiveUp(q) \/ RequestTimeout(q)
  BY <1>4, <1>7 DEF GiveUp, RequestTimeout
<1>8. CASE ReceiveStatus
  <2> DEFINE m == Head(outbox)
  <2>1. /\ outbox # <<>> /\ outbox' = Tail(outbox) /\ m \in Statuses /\ 1 \in DOMAIN outbox /\ m = outbox[1]
        /\ \A i \in DOMAIN outbox' : i + 1 \in DOMAIN outbox /\ outbox'[i] = outbox[i + 1]
    BY <1>1, <1>8, TailFacts DEF ReceiveStatus
  <2>2. CASE result' = result
    BY <1>2, <2>1, <2>2
  <2>3. CASE /\ m.state # "started" /\ routed[m.task] # None
             /\ Settle({routed[m.task]}, m.state)
    <3>1. m.task \in Task /\ m.state \in {"finished", "failed"}
          /\ m = [state |-> m.state, task |-> m.task]
      BY <2>1, <2>3 DEF Statuses
    <3>2. taskId[routed[m.task]] = m.task
      BY <1>1, <2>3, <3>1 DEF OwnedInv
    <3>3. result'[r] = IF r = routed[m.task] /\ result[r] = "none" THEN m.state ELSE result[r]
      BY <2>3 DEF Settle
    <3> QED BY <1>2, <2>1, <3>1, <3>2, <3>3
  <2> QED BY <1>8, <2>2, <2>3 DEF ReceiveStatus
<1> QED BY <1>5, <1>6, <1>7, <1>8 DEF GatewayStep

\* What the gateway sends leaves the frames of a request on their way as they have
\* to be, unless it gives the request up.
LEMMA GatewayFlight ==
  ASSUME TrackedInv, StartInv, GatewayStep, NEW r \in Request, ~GiveUp(r), NEW n \in Nat, InFlight(r, n)
  PROVE  InFlight(r, n)'
<1>1. TypedInv /\ TypeOK
  BY DEF TrackedInv, TypedInv
<1>2. ASSUME NEW q \in Request, SendFrame(q) PROVE InFlight(r, n)'
  <2> DEFINE f == [kind |-> FrameKind(sent[q]), req |-> q]
  <2>1. f \in Frames /\ f.req = q /\ inbox' = Append(inbox, f)
    BY <1>2 DEF Frames, FrameKind, SendFrame
  <2>2. CASE q = r
    <3>1. sent'[r] = sent[r] + 1
      BY <1>1, <1>2, <2>2 DEF SendFrame, TypeOK
    <3> QED BY <1>1, <2>1, <2>2, <3>1, SendOwn
  <2>3. CASE q # r
    <3>1. sent'[r] = sent[r]
      BY <1>1, <1>2, <2>3 DEF SendFrame, TypeOK
    <3> HIDE DEF f
    <3> QED BY <1>1, <2>1, <2>3, <3>1, SendOther
  <2> QED BY <2>2, <2>3
<1>3. CASE SendHelloOk
  <2> DEFINE f == [kind |-> "hello_ok", req |-> None]
  <2>1. f \in Frames /\ f.req # r /\ inbox' = Append(inbox, f) /\ sent'[r] = sent[r]
    BY <1>3 DEF Frames, SendHelloOk, gatewayVars
  <2> HIDE DEF f
  <2> QED BY <1>1, <2>1, SendOther
<1>4. CASE inbox' = inbox /\ sent'[r] = sent[r]
  BY <1>4 DEF InFlight
<1> QED BY <1>2, <1>3, <1>4, GatewayMoves

LEMMA GatewayPlays ==
  ASSUME TrackedInv, StartInv, PlayedInv, GatewayStep
  PROVE  PlayedInv'
<1>1. /\ TypedInv /\ TypeOK
      /\ UNCHANGED <<pc, handling, tracker, player, written, taskId>>
  BY GatewayMoves DEF TrackedInv, TypedInv, agentVars
<1> SUFFICES ASSUME NEW r \in Request, Alone(r)
             PROVE  /\ result'[r] = "none" =>
                         /\ (\E i \in DOMAIN inbox' : inbox'[i].kind = "start" /\ inbox'[i].req = r) => InFlight(r, 0)'
                         /\ tracker[taskId[r]] = r => InFlight(r, NextFrame(r))'
                         /\ pc = "wait" /\ handling = r => written[r] = Chunks
                         /\ \A i \in DOMAIN outbox' :
                              outbox'[i] = [state |-> "finished", task |-> taskId[r]] => Played(r)
                    /\ result'[r] = "finished" => Played(r)
  BY <1>1 DEF PlayedInv, Alone, Played
<1>2. ASSUME result'[r] = "none" PROVE result[r] = "none" /\ ~GiveUp(r)
  BY <1>2, FateMoves
<1>3. \A i \in DOMAIN outbox' : \E j \in DOMAIN outbox : outbox'[i] = outbox[j]
  BY FateMoves
<1>4. ASSUME result'[r] = "none", NEW i \in DOMAIN inbox', inbox'[i].kind = "start", inbox'[i].req = r
      PROVE  InFlight(r, 0)'
  <2>1. InFlight(r, 0)
    <3>1. CASE \E j \in DOMAIN inbox : inbox[j].kind = "start" /\ inbox[j].req = r
      BY <1>2, <1>4, <3>1 DEF PlayedInv
    <3>2. CASE sent[r] = 0
      <4>1. \A j \in DOMAIN inbox : inbox[j].req # r
        BY <3>2 DEF StartInv
      <4>2. 0..(sent[r] - 1) = {}
        BY <3>2
      <4> DEFINE pos == [k \in 0..(sent[r] - 1) |-> 1]
      <4>3. pos \in [0..(sent[r] - 1) -> DOMAIN inbox]
        BY <4>2
      <4> HIDE DEF pos
      <4>4. Follows(inbox, pos, r, 0..(sent[r] - 1))
        BY <4>1, <4>2 DEF Follows
      <4>5. \E f \in [0..(sent[r] - 1) -> DOMAIN inbox] : Follows(inbox, f, r, 0..(sent[r] - 1))
        BY <4>3, <4>4, Zenon
      <4>6. 0 <= sent[r]
        BY <3>2
      <4> QED BY <4>5, <4>6, Zenon DEF InFlight
    <3>3. ASSUME NEW q \in Request, SendFrame(q), sent[r] # 0
          PROVE  \E j \in DOMAIN inbox : inbox[j].kind = "start" /\ inbox[j].req = r
      <4> DEFINE f == [kind |-> FrameKind(sent[q]), req |-> q]
      <4>1. f \in Frames /\ inbox' = Append(inbox, f)
        BY <3>3 DEF Frames, FrameKind, SendFrame
      <4>2. f.kind = "start" /\ f.req = r => sent[r] = 0
        BY <1>1 DEF FrameKind, TypeOK
      <4> HIDE DEF f
      <4>3. i \in DOMAIN inbox /\ inbox'[i] = inbox[i]
        BY <1>1, <1>4, <3>3, <4>1, <4>2, SendFacts
      <4> QED BY <1>4, <4>3
    <3>4. CASE SendHelloOk
      <4> DEFINE f == [kind |-> "hello_ok", req |-> None]
      <4>1. f \in Frames /\ f.kind = "hello_ok" /\ inbox' = Append(inbox, f)
        BY <3>4 DEF Frames, SendHelloOk
      <4> HIDE DEF f
      <4>2. i \in DOMAIN inbox /\ inbox'[i] = inbox[i]
        BY <1>1, <1>4, <4>1, SendFacts
      <4> QED BY <1>4, <3>1, <4>2
    <3> QED BY <1>4, <3>1, <3>2, <3>3, <3>4, GatewayMoves
  <2> QED BY <1>2, <1>4, <2>1, GatewayFlight
<1>5. ASSUME result'[r] = "none", tracker[taskId[r]] = r PROVE InFlight(r, NextFrame(r))'
  <2>1. NextFrame(r)' = NextFrame(r) /\ NextFrame(r) \in Nat
    BY <1>1 DEF NextFrame, TypeOK
  <2>2. InFlight(r, NextFrame(r))
    BY <1>2, <1>5 DEF PlayedInv
  <2>3. \A n \in Nat : InFlight(r, n) => InFlight(r, n)'
    BY <1>2, <1>5, GatewayFlight
  <2> QED BY <2>1, <2>2, <2>3 DEF InFlight
<1>6. ASSUME result'[r] = "finished" PROVE Played(r)
  <2>1. CASE result[r] = "finished"
    BY <2>1 DEF PlayedInv
  <2>2. CASE result[r] = "none" /\ \E i \in DOMAIN outbox : outbox[i] = [state |-> "finished", task |-> taskId[r]]
    BY <2>2 DEF PlayedInv
  <2> QED BY <1>6, <2>1, <2>2, FateMoves
<1> QED BY <1>2, <1>3, <1>4, <1>5, <1>6 DEF PlayedInv

-----------------------------------------------------------------------------
LEMMA DeviceStep == DeviceInv /\ [Next]_vars => DeviceInv'
<1> SUFFICES ASSUME DeviceInv, [Next]_vars PROVE DeviceInv'
  OBVIOUS
<1>1. TrackedInv /\ StartInv /\ PlayedInv
  BY DEF DeviceInv, TrackedInv, TypedInv
<1>2. TrackedInv'
  BY <1>1, TrackedStep
<1>3. StartInv' /\ PlayedInv'
  <2>1. CASE AgentMoves
    BY <1>1, <2>1, AgentStarts, AgentPlays
  <2>2. CASE GatewayStep
    BY <1>1, <2>2, GatewayStarts, GatewayPlays
  <2>3. CASE UNCHANGED vars
    BY <1>1, <2>3 DEF vars, agentVars, gatewayVars, StartInv, PlayedInv, Alone, InFlight, NextFrame, Played
  <2> QED BY <2>1, <2>2, <2>3 DEF Next, AgentMoves
<1> QED BY <1>2, <1>3 DEF DeviceInv, TrackedInv, TypedInv

LEMMA DeviceInductive == Spec => []DeviceInv
<1> QED BY DeviceStarts, DeviceStep, PTL DEF Spec

\* A play_audio request with a task id of its own is told "finished" only if every
\* chunk of it was written to its player and the player ended with success, for
\* any number of chunks, whatever connections were lost and statuses read late.
THEOREM FinishedIsPlayed == Spec => []FinishedMeansPlayed
<1>1. DeviceInv => FinishedMeansPlayed
  BY DEF DeviceInv, PlayedInv, Alone, Played, FinishedMeansPlayed
<1> QED BY <1>1, DeviceInductive, PTL
=============================================================================
