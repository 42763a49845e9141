--------------------------- MODULE SdkClientProofs ---------------------------
(* Proofs about the Rust SDK's client and its gateway, for any programs, any *)
(* number of connections and sessions.                                       *)
EXTENDS SdkClient, SequenceTheorems, WellFoundedInduction, TLAPS

USE SdkClientAssumption

Frame  == [kind : FrameKind, req : Nat, session : Nat]
Reply  == [kind : ReplyKind, req : Nat, session : Nat]
Opened == [domain : Domain, state : {"open", "asked", "over"}, conn : Nat, req : Nat, events : Nat]

StartKind == {"start_asr", "start_tts"}

\* The part of TypeOK that the proofs need, without its bounds.
Typed ==
  /\ conn \in Nat /\ reqId \in Nat /\ session \in Nat /\ active \in Nat
  /\ domain \in Domain \cup {NoDomain}
  /\ got \in [conn : Nat, req : Nat, session : Nat]
  /\ up \in Seq(Frame) /\ down \in Seq(Reply) /\ ses \in Seq(Opened)

\* What the client and the gateway take for the session: one of those there are,
\* and the gateway the last one.
Numbered ==
  /\ active \in {0, Len(ses)}
  /\ session <= Len(ses)
  /\ session = 0 <=> domain = NoDomain

\* A session.started under way is the only one, is that of the active session, and
\* finds a client without a session.
StartedInv ==
  /\ \A i \in DOMAIN down :
       down[i].kind = "started" =>
         /\ active # 0 /\ down[i].session = active /\ session = 0
         /\ ses[active].conn = conn /\ ses[active].req = down[i].req
  /\ \A i, j \in DOMAIN down : down[i].kind = "started" /\ down[j].kind = "started" => i = j

EndedInv ==
  \A i \in DOMAIN down :
    down[i].kind = "ended" => down[i].session \in 1..Len(ses) /\ ses[down[i].session].state = "over"

\* Frames for a session are sent when the client has heard of it.
FramesInv ==
  /\ active # 0 /\ session # 0 => session = active
  /\ \A i \in DOMAIN up :
       /\ up[i].kind \in {"audio", "stop"} => up[i].session \in 1..Len(ses)
       /\ up[i].kind = "audio" /\ active # 0 => up[i].session = active
       /\ up[i].kind = "stop" /\ up[i].session = active =>
            \A j \in DOMAIN down : down[j].kind # "started"

\* A start that the gateway will take, because no session is active by then, was
\* sent by a client without one, which has sent no audio since.
QuietAfter(i) == session = 0 /\ \A j \in DOMAIN up : j > i => up[j].kind # "audio"

TakenInv ==
  /\ active = 0 => \A i \in DOMAIN up : up[i].kind \in StartKind => QuietAfter(i)
  /\ \A k, i \in DOMAIN up :
       k < i /\ up[k].kind = "stop" /\ up[k].session = active /\ up[i].kind \in StartKind => QuietAfter(i)

GotInv ==
  got.session # 0 =>
    /\ got.session <= Len(ses)
    /\ ses[got.session].conn = got.conn /\ ses[got.session].req = got.req

KnownInv ==
  active # 0 /\ ses[active].state # "over" =>
    \/ session = active
    \/ \E i \in DOMAIN down : down[i].kind = "started"

(* The inductive invariant. *)
SdkInv ==
  /\ Typed /\ Numbered /\ StartedInv /\ EndedInv
  /\ FramesInv /\ TakenInv /\ GotInv /\ KnownInv

-----------------------------------------------------------------------------
(* Queues.                                                                 *)

LEMMA TailFacts ==
  ASSUME NEW S, NEW q \in Seq(S), q # <<>>
  PROVE  /\ Tail(q) \in Seq(S) /\ Head(q) = q[1] /\ 1 \in DOMAIN q /\ q[1] \in S
         /\ \A i \in DOMAIN Tail(q) : i \in Nat /\ i + 1 \in DOMAIN q /\ Tail(q)[i] = q[i + 1]
         /\ \A i \in DOMAIN q : i = 1 \/ (i - 1 \in DOMAIN Tail(q) /\ Tail(q)[i - 1] = q[i])
<1>1. Len(q) \in Nat \ {0} /\ DOMAIN q = 1..Len(q)
  BY EmptySeq, LenProperties
<1>2. /\ Tail(q) \in Seq(S) /\ Len(Tail(q)) = Len(q) - 1
      /\ \A i \in 1..Len(Tail(q)) : Tail(q)[i] = q[i + 1]
  BY HeadTailProperties
<1>3. DOMAIN Tail(q) = 1..(Len(q) - 1)
  BY <1>2, LenProperties
<1>4. Head(q) = q[1] /\ q[1] \in S
  BY <1>1, ElementOfSeq
<1> QED BY <1>1, <1>2, <1>3, <1>4

LEMMA ConcatFacts ==
  ASSUME NEW S, NEW q \in Seq(S), NEW r \in Seq(S)
  PROVE  /\ q \o r \in Seq(S)
         /\ \A i \in DOMAIN q : i \in DOMAIN (q \o r) /\ (q \o r)[i] = q[i]
         /\ \A i \in DOMAIN (q \o r) :
              \/ i \in DOMAIN q /\ (q \o r)[i] = q[i]
              \/ i - Len(q) \in DOMAIN r /\ (q \o r)[i] = r[i - Len(q)]
<1>1. /\ q \o r \in Seq(S) /\ Len(q \o r) = Len(q) + Len(r)
      /\ \A i \in 1..Len(q) + Len(r) :
           (q \o r)[i] = IF i <= Len(q) THEN q[i] ELSE r[i - Len(q)]
  BY ConcatProperties
<1>2. /\ DOMAIN q = 1..Len(q) /\ DOMAIN r = 1..Len(r) /\ Len(q) \in Nat /\ Len(r) \in Nat
      /\ DOMAIN (q \o r) = 1..Len(q) + Len(r)
  BY <1>1, LenProperties
<1> QED BY <1>1, <1>2

LEMMA AppendFacts ==
  ASSUME NEW S, NEW q \in Seq(S), NEW e \in S
  PROVE  /\ Append(q, e) \in Seq(S) /\ Len(q) \in Nat
         /\ DOMAIN q = 1..Len(q) /\ DOMAIN Append(q, e) = 1..(Len(q) + 1)
         /\ Len(Append(q, e)) = Len(q) + 1
         /\ \A i \in 1..Len(q) : Append(q, e)[i] = q[i]
         /\ Append(q, e)[Len(q) + 1] = e
<1> QED BY AppendProperties, LenProperties

-----------------------------------------------------------------------------
(* The calls.                                                              *)

LEMMA SdkStarts == Init => SdkInv
<1> SUFFICES ASSUME Init PROVE SdkInv
  OBVIOUS
<1>1. /\ up = <<>> /\ down = <<>> /\ ses = <<>> /\ Len(ses) = 0
      /\ DOMAIN up = {} /\ DOMAIN down = {}
      /\ up \in Seq(Frame) /\ down \in Seq(Reply) /\ ses \in Seq(Opened)
  BY DEF Init
<1> QED BY <1>1 DEF Init, SdkInv, Typed, Numbered, StartedInv, EndedInv, FramesInv, TakenInv,
                    GotInv, KnownInv, NoDomain

sent == <<conn, session, active, domain, got, down, ses>>

\* A call that sends nothing, or a frame that the client may send now.
LEMMA CallKeeps ==
  ASSUME SdkInv, UNCHANGED sent, reqId' \in Nat, NEW f \in Frame,
         up' = up \/ up' = Append(up, f),
         f.kind \in {"audio", "stop"} => f.session = session /\ session # 0,
         f.kind \in StartKind => session = 0
  PROVE  SdkInv'
<1> USE DEF SdkInv, sent
<1>1. CASE up' = up
  BY <1>1 DEF Typed, Numbered, StartedInv, EndedInv, FramesInv, TakenInv, GotInv, KnownInv,
              QuietAfter
<1>2. CASE up' = Append(up, f)
  <2>1. /\ up' \in Seq(Frame) /\ Len(up) \in Nat
        /\ DOMAIN up = 1..Len(up) /\ DOMAIN up' = 1..(Len(up) + 1)
        /\ \A i \in 1..Len(up) : up'[i] = up[i]
        /\ up'[Len(up) + 1] = f
    BY <1>2, AppendFacts DEF Typed
  <2>2. /\ Typed' /\ Numbered' /\ StartedInv' /\ EndedInv' /\ GotInv' /\ KnownInv'
    BY <2>1 DEF Typed, Numbered, StartedInv, EndedInv, GotInv, KnownInv
  <2>3. FramesInv'
    <3>1. ASSUME NEW i \in DOMAIN up'
          PROVE  (i \in DOMAIN up /\ up'[i] = up[i]) \/ up'[i] = f
      BY <2>1
    <3>2. f.kind \in {"audio", "stop"} =>
            /\ f.session \in 1..Len(ses) /\ (active # 0 => f.session = active)
            /\ \A j \in DOMAIN down : down[j].kind # "started"
      BY DEF FramesInv, Typed, Numbered, StartedInv
    <3> HIDE DEF SdkInv
    <3>3. FramesInv /\ UNCHANGED <<session, active, down, ses>>
      BY DEF SdkInv
    <3> QED BY <3>1, <3>2, <3>3 DEF FramesInv
  <2>4. ASSUME NEW i \in DOMAIN up', up'[i].kind \in StartKind,
               i \in DOMAIN up => QuietAfter(i)
        PROVE  QuietAfter(i)'
    <3>1. session' = 0
      BY <2>1, <2>4 DEF QuietAfter
    <3>2. ASSUME NEW j \in DOMAIN up', j > i PROVE up'[j].kind # "audio"
      BY <2>1, <2>4, <3>1, <3>2 DEF QuietAfter
    <3> QED BY <3>1, <3>2 DEF QuietAfter
  <2>5. TakenInv'
    BY <2>1, <2>4 DEF TakenInv
  <2> QED BY <2>2, <2>3, <2>5
<1> QED BY <1>1, <1>2

\* A frame as Msg makes it.
LEMMA FrameTyped ==
  ASSUME Typed, NEW kind \in FrameKind, NEW req \in Nat, NEW s \in Nat
  PROVE  /\ Msg(kind, req, s) \in Frame
         /\ Msg(kind, req, s).kind = kind /\ Msg(kind, req, s).session = s
<1> QED BY DEF Msg, Frame

LEMMA AskKeeps ==
  ASSUME SdkInv, NEW kind \in {"discover", "voices", "start_asr", "start_tts"}, NEW w,
         Ask(kind, w), kind \in StartKind => session = 0
  PROVE  SdkInv'
<1>1. UNCHANGED sent /\ reqId' \in Nat
  BY DEF Ask, sent, gatewayVars, SdkInv, Typed
<1>2. /\ Msg(kind, reqId', 0) \in Frame /\ Msg(kind, reqId', 0).kind = kind
  BY <1>1, FrameTyped DEF FrameKind, SdkInv
<1>3. up' = up \/ up' = Append(up, Msg(kind, reqId', 0))
  BY DEF Ask, Send
<1> QED BY <1>1, <1>2, <1>3, CallKeeps

LEMMA InputKeeps ==
  ASSUME SdkInv, NEW kind \in FrameKind \ StartKind, NEW ready \in BOOLEAN, Input(kind, ready),
         ready /\ kind \in {"audio", "stop"} => session # 0
  PROVE  SdkInv'
<1>1. UNCHANGED sent /\ reqId' \in Nat /\ session \in Nat
  BY DEF Input, sent, gatewayVars, SdkInv, Typed
<1>2. /\ Msg(kind, 0, session) \in Frame /\ Msg(kind, 0, session).kind = kind
      /\ Msg(kind, 0, session).session = session
  BY <1>1, FrameTyped DEF SdkInv
<1>3. CASE up' = up
  <2> Msg("hello", 0, 0) \in Frame /\ Msg("hello", 0, 0).kind = "hello"
    BY FrameTyped DEF SdkInv, FrameKind
  <2> QED BY <1>1, <1>3, CallKeeps DEF StartKind
<1>4. CASE ready /\ up' = Append(up, Msg(kind, 0, session))
  BY <1>1, <1>2, <1>4, CallKeeps
<1> QED BY <1>3, <1>4 DEF Input, Send

LEMMA IdleKeeps ==
  ASSUME SdkInv, UNCHANGED <<sent, reqId, up>>
  PROVE  SdkInv'
<1> Msg("hello", 0, 0) \in Frame /\ Msg("hello", 0, 0).kind = "hello"
  BY FrameTyped DEF SdkInv, FrameKind
<1> QED BY CallKeeps DEF StartKind, SdkInv, Typed

\* The calls that the program makes on a connection it has.
LEMMA ProgramKeeps ==
  ASSUME SdkInv,
         \/ Discover \/ ListVoices \/ (\E d \in Domain : Start(d))
         \/ SendAudio \/ AppendTts \/ Commit \/ Stop \/ Read
         \/ ControlAsk \/ ControlReply \/ CloseCall \/ ReceiveEnd \/ GiveUp \/ Hangup
  PROVE  SdkInv'
<1>1. CASE Discover \/ ListVoices
  BY <1>1, AskKeeps DEF Discover, ListVoices, StartKind
<1>2. ASSUME NEW d \in Domain, Start(d) PROVE SdkInv'
  <2>1. CASE session = 0 /\ Ask(StartOf(d), "start")
    BY <2>1, AskKeeps DEF StartOf
  <2>2. CASE UNCHANGED <<sent, reqId, up>>
    BY <2>2, IdleKeeps
  <2> QED BY <1>2, <2>1, <2>2 DEF Start, sent, gatewayVars
<1>3. CASE SendAudio \/ AppendTts
  <2>1. domain = "asr" => session # 0
    BY DEF SdkInv, Numbered, NoDomain
  <2> QED BY <1>3, <2>1, InputKeeps DEF SendAudio, AppendTts, FrameKind, StartKind
<1>4. CASE Commit \/ Stop
  BY <1>4, InputKeeps DEF Commit, Stop, FrameKind, StartKind
<1>5. CASE Read \/ ControlAsk \/ ControlReply \/ CloseCall \/ ReceiveEnd \/ GiveUp \/ Hangup
  BY <1>5, IdleKeeps DEF Read, ControlAsk, ControlReply, CloseCall, ReceiveEnd, GiveUp, Hangup,
                         sent, gatewayVars, clientVars
<1> QED BY <1>1, <1>2, <1>3, <1>4, <1>5

\* A new connection: neither side has a session, nothing is under way, and every
\* session of the earlier one is over.
LEMMA ConnectKeeps == SdkInv /\ Connect => SdkInv'
<1> SUFFICES ASSUME SdkInv, Connect PROVE SdkInv'
  OBVIOUS
<1>1. /\ conn' \in Nat /\ reqId' = 0 /\ session' = 0 /\ domain' = NoDomain /\ got' = got
      /\ down' = <<>> /\ active' = 0 /\ DOMAIN down' = {} /\ down' \in Seq(Reply)
      /\ up' = <<>> \/ up' = <<Msg("hello", 0, 0)>>
  BY DEF Connect, SdkInv, Typed
<1>2. /\ up' \in Seq(Frame)
      /\ \A i \in DOMAIN up' : up'[i].kind = "hello"
  <2>1. CASE up' = <<>>
    BY <2>1
  <2>2. CASE up' = <<Msg("hello", 0, 0)>>
    <3>1. Msg("hello", 0, 0) \in Frame /\ Msg("hello", 0, 0).kind = "hello"
      BY FrameTyped DEF SdkInv, FrameKind
    <3> QED BY <2>2, <3>1
  <2> QED BY <1>1, <2>1, <2>2
<1>3. /\ Len(ses) \in Nat /\ DOMAIN ses = 1..Len(ses)
      /\ \A s \in 1..Len(ses) : ses[s] \in Opened
  BY LenProperties, ElementOfSeq DEF SdkInv, Typed
<1>4. /\ ses' \in Seq(Opened) /\ Len(ses') = Len(ses)
      /\ \A s \in 1..Len(ses) : ses'[s].conn = ses[s].conn /\ ses'[s].req = ses[s].req
  <2>1. ses' = [s \in 1..Len(ses) |-> [ses[s] EXCEPT !.state = "over"]]
    BY <1>3 DEF Connect
  <2>2. \A s \in 1..Len(ses) : [ses[s] EXCEPT !.state = "over"] \in Opened
    BY <1>3 DEF Opened
  <2> QED BY <1>3, <2>1, <2>2 DEF Opened
<1>5. Typed' /\ Numbered'
  <2>1. Typed'
    BY <1>1, <1>2, <1>4 DEF SdkInv, Typed
  <2>2. Numbered'
    BY <1>1, <1>3, <1>4 DEF Numbered
  <2> QED BY <2>1, <2>2
<1>6. GotInv'
  BY <1>1, <1>3, <1>4 DEF SdkInv, Typed, GotInv
<1>7. StartedInv' /\ EndedInv' /\ KnownInv'
  BY <1>1 DEF StartedInv, EndedInv, KnownInv
<1>8. FramesInv' /\ TakenInv'
  BY <1>1, <1>2 DEF FramesInv, TakenInv, StartKind
<1> QED BY <1>5, <1>6, <1>7, <1>8 DEF SdkInv

-----------------------------------------------------------------------------
(* The gateway.                                                            *)

\* The sessions keep their origin, and what is over stays over.
SessionsGoOn ==
  /\ ses' \in Seq(Opened) /\ Len(ses') = Len(ses)
  /\ \A s \in 1..Len(ses) :
       /\ ses'[s].conn = ses[s].conn /\ ses'[s].req = ses[s].req
       /\ ses[s].state = "over" => ses'[s].state = "over"

\* What the gateway says, other than session.started, and only the ends of
\* sessions that are over.
Plain(ms) ==
  /\ ms \in Seq(Reply)
  /\ \A i \in DOMAIN ms :
       /\ ms[i].kind # "started"
       /\ ms[i].kind = "ended" => ms[i].session \in 1..Len(ses) /\ ses'[ms[i].session].state = "over"

TookOrNot == up' = up \/ (up # <<>> /\ up' = Tail(up))

\* Every invariant but TakenInv carries over to a shorter queue of frames.
LEMMA TookFacts ==
  ASSUME Typed, TookOrNot
  PROVE  /\ up' \in Seq(Frame)
         /\ \E d \in {0, 1} :
              /\ \A i \in DOMAIN up' : i + d \in DOMAIN up /\ up'[i] = up[i + d]
              /\ d = 1 => up # <<>> /\ up' = Tail(up)
         /\ DOMAIN up' \subseteq Nat /\ DOMAIN up \subseteq Nat
<1>1. /\ up \in Seq(Frame) /\ DOMAIN up = 1..Len(up) /\ Len(up) \in Nat
  BY LenProperties DEF Typed
<1>2. CASE up' = up
  <2>1. \A i \in DOMAIN up' : i + 0 \in DOMAIN up /\ up'[i] = up[i + 0]
    BY <1>1, <1>2
  <2>2. \E d \in {0, 1} :
          /\ \A i \in DOMAIN up' : i + d \in DOMAIN up /\ up'[i] = up[i + d]
          /\ d = 1 => up # <<>> /\ up' = Tail(up)
    <3>1. WITNESS 0 \in {0, 1}
    <3> QED BY <2>1
  <2>3. up' \in Seq(Frame) /\ DOMAIN up' \subseteq Nat /\ DOMAIN up \subseteq Nat
    BY <1>1, <1>2
  <2> QED BY <2>2, <2>3
<1>3. CASE up # <<>> /\ up' = Tail(up)
  <2>1. /\ up' \in Seq(Frame)
        /\ \A i \in DOMAIN up' : i \in Nat /\ i + 1 \in DOMAIN up /\ up'[i] = up[i + 1]
    BY <1>1, <1>3, TailFacts
  <2> QED BY <1>1, <1>3, <2>1
<1> QED BY <1>2, <1>3 DEF TookOrNot

LEMMA GatewayKeeps ==
  ASSUME SdkInv, TookOrNot, SessionsGoOn, NEW ms, Plain(ms), down' = down \o ms,
         UNCHANGED <<conn, reqId, session, domain, got, active>>
  PROVE  SdkInv'
<1> USE DEF SdkInv
<1>1. /\ up' \in Seq(Frame)
      /\ DOMAIN up' \subseteq Nat /\ DOMAIN up \subseteq Nat
  BY TookFacts
<1>2. PICK d \in {0, 1} : \A i \in DOMAIN up' : i + d \in DOMAIN up /\ up'[i] = up[i + d]
  BY TookFacts
<1>3. /\ down' \in Seq(Reply)
      /\ \A i \in DOMAIN down : i \in DOMAIN down' /\ down'[i] = down[i]
      /\ \A i \in DOMAIN down' :
           \/ i \in DOMAIN down /\ down'[i] = down[i]
           \/ i - Len(down) \in DOMAIN ms /\ down'[i] = ms[i - Len(down)]
  BY ConcatFacts, SMTT(30) DEF Typed, Plain
<1>4. \A i \in DOMAIN down' : down'[i].kind = "started" => i \in DOMAIN down /\ down'[i] = down[i]
  BY <1>3 DEF Plain
<1>5. Typed' /\ Numbered'
  BY <1>1, <1>3 DEF Typed, Numbered, SessionsGoOn
<1>6. Len(ses) \in Nat /\ active \in 0..Len(ses) /\ session \in 0..Len(ses)
  BY LenProperties DEF Typed, Numbered
<1>7. StartedInv' /\ KnownInv' /\ GotInv'
  <2>1. StartedInv'
    BY <1>4, <1>6, SMTT(30) DEF StartedInv, SessionsGoOn
  <2>2. KnownInv'
    BY <1>3, <1>6 DEF KnownInv, SessionsGoOn
  <2>3. GotInv'
    BY <1>6 DEF GotInv, SessionsGoOn, Typed
  <2> QED BY <2>1, <2>2, <2>3
<1>8. EndedInv'
  <2> SUFFICES ASSUME NEW i \in DOMAIN down', down'[i].kind = "ended"
               PROVE  down'[i].session \in 1..Len(ses') /\ ses'[down'[i].session].state = "over"
    BY DEF EndedInv
  <2>1. CASE i \in DOMAIN down /\ down'[i] = down[i]
    BY <2>1 DEF EndedInv, SessionsGoOn
  <2>2. CASE i - Len(down) \in DOMAIN ms /\ down'[i] = ms[i - Len(down)]
    BY <2>2 DEF Plain, SessionsGoOn
  <2> QED BY <1>3, <2>1, <2>2
<1>9. FramesInv'
  BY <1>2, <1>4 DEF FramesInv, SessionsGoOn
<1>10. ASSUME NEW i \in DOMAIN up', QuietAfter(i + d) PROVE QuietAfter(i)'
  BY <1>1, <1>2, <1>10 DEF QuietAfter
<1>11. TakenInv'
  BY <1>1, <1>2, <1>10 DEF TakenInv
<1> QED BY <1>5, <1>7, <1>8, <1>9, <1>11

LEMMA ReplyTyped ==
  ASSUME NEW kind \in ReplyKind, NEW req \in Nat, NEW s \in Nat
  PROVE  /\ Msg(kind, req, s) \in Reply
         /\ Msg(kind, req, s).kind = kind /\ Msg(kind, req, s).req = req
         /\ Msg(kind, req, s).session = s
<1> QED BY DEF Msg, Reply

\* One message that neither starts nor ends a session, the end of a session, and
\* nothing at all.
LEMMA PlainOne ==
  ASSUME NEW kind \in ReplyKind \ {"started", "ended"}, NEW req \in Nat, NEW s \in Nat
  PROVE  Plain(<<Msg(kind, req, s)>>)
<1> QED BY ReplyTyped DEF Plain

LEMMA PlainEnd ==
  ASSUME NEW s \in 1..Len(ses), Len(ses) \in Nat, ses'[s].state = "over", NEW d
  PROVE  Plain(EndOf(s, d))
<1>1. /\ Msg("done", 0, s) \in Reply /\ Msg("done", 0, s).kind = "done"
      /\ Msg("ended", 0, s) \in Reply /\ Msg("ended", 0, s).kind = "ended"
      /\ Msg("ended", 0, s).session = s
  <2> s \in Nat /\ "done" \in ReplyKind /\ "ended" \in ReplyKind
    BY DEF ReplyKind
  <2> QED BY ReplyTyped
<1>2. CASE EndOf(s, d) = <<Msg("done", 0, s), Msg("ended", 0, s)>>
  BY <1>1, <1>2 DEF Plain
<1>3. CASE EndOf(s, d) = <<Msg("ended", 0, s)>>
  BY <1>1, <1>3 DEF Plain
<1> QED BY <1>2, <1>3 DEF EndOf

LEMMA SessionFacts ==
  ASSUME Typed
  PROVE  /\ Len(ses) \in Nat /\ DOMAIN ses = 1..Len(ses)
         /\ \A s \in 1..Len(ses) : ses[s] \in Opened
<1> QED BY LenProperties, ElementOfSeq DEF Typed

LEMMA SameSessions == Typed /\ ses' = ses => SessionsGoOn
<1> QED BY DEF Typed, SessionsGoOn

\* A session that changes its state or counts a result.
LEMMA OneSession ==
  ASSUME Typed, NEW s \in 1..Len(ses), NEW e \in Opened, ses' = [ses EXCEPT ![s] = e],
         e.conn = ses[s].conn, e.req = ses[s].req, ses[s].state = "over" => e.state = "over"
  PROVE  SessionsGoOn /\ ses'[s] = e
<1>1. /\ ses' \in Seq(Opened) /\ Len(ses') = Len(ses)
      /\ \A r \in 1..Len(ses) : ses'[r] = IF r = s THEN e ELSE ses[r]
  BY ExceptSeq DEF Typed
<1> QED BY <1>1 DEF SessionsGoOn

\* An answer to a frame that was taken, while the sessions go on.
LEMMA AnsweredKeeps ==
  ASSUME SdkInv, TookOrNot, SessionsGoOn, UNCHANGED <<clientVars, conn, active>>,
         \/ down' = down
         \/ \E kind \in ReplyKind \ {"started", "ended"}, req \in Nat, s \in Nat :
              Say(<<Msg(kind, req, s)>>)
  PROVE  SdkInv'
<1>1. CASE down' = down
  <2>1. down' = down \o <<>>
    BY <1>1, ConcatEmptySeq DEF SdkInv, Typed
  <2>2. Plain(<<>>)
    BY DEF Plain
  <2> QED BY <2>1, <2>2, GatewayKeeps DEF clientVars
<1>2. ASSUME NEW kind \in ReplyKind \ {"started", "ended"}, NEW req \in Nat, NEW s \in Nat,
             Say(<<Msg(kind, req, s)>>)
      PROVE  SdkInv'
  BY <1>2, PlainOne, GatewayKeeps DEF Say, clientVars
<1> QED BY <1>1, <1>2

LEMMA FirstFrame ==
  ASSUME Typed, TakeFrame
  PROVE  /\ TookOrNot /\ up # <<>> /\ up' = Tail(up)
         /\ 1 \in DOMAIN up /\ Head(up) = up[1] /\ up[1] \in Frame
<1> QED BY TailFacts DEF Typed, TakeFrame, TookOrNot

LEMMA QueryKeeps == SdkInv /\ HandleQuery => SdkInv'
<1> SUFFICES ASSUME SdkInv, HandleQuery PROVE SdkInv'
  OBVIOUS
<1>1. TookOrNot /\ Head(up).req \in Nat /\ active \in Nat
  BY FirstFrame DEF HandleQuery, SdkInv, Frame, Typed
<1>2. SessionsGoOn
  BY SameSessions DEF HandleQuery, SdkInv
<1>3. \E kind \in ReplyKind \ {"started", "ended"}, req \in Nat, s \in Nat :
        Say(<<Msg(kind, req, s)>>)
  BY <1>1 DEF HandleQuery, Deny, ReplyKind
<1> QED BY <1>1, <1>2, <1>3, AnsweredKeeps DEF HandleQuery

LEMMA InputHandled == SdkInv /\ HandleInput => SdkInv'
<1> SUFFICES ASSUME SdkInv, HandleInput PROVE SdkInv'
  OBVIOUS
<1>1. TookOrNot /\ active \in Nat
  BY FirstFrame DEF HandleInput, SdkInv, Typed
<1>2. SessionsGoOn
  <2>1. CASE ses' = ses
    BY <2>1, SameSessions DEF SdkInv
  <2>2. CASE active # 0 /\ ses[active].state = "open" /\ ses' = [ses EXCEPT ![active].state = "asked"]
    <3>1. active \in 1..Len(ses) /\ ses[active] \in Opened
      BY <2>2, SessionFacts DEF SdkInv, Numbered
    <3>2. ses' = [ses EXCEPT ![active] = [ses[active] EXCEPT !.state = "asked"]]
      BY <2>2
    <3>3. [ses[active] EXCEPT !.state = "asked"] \in Opened
      BY <3>1 DEF Opened
    <3> QED BY <2>2, <3>1, <3>2, <3>3, OneSession DEF SdkInv, Opened
  <2> QED BY <2>1, <2>2 DEF HandleInput
<1>3. \/ down' = down
      \/ \E kind \in ReplyKind \ {"started", "ended"}, req \in Nat, s \in Nat :
           Say(<<Msg(kind, req, s)>>)
  BY <1>1 DEF HandleInput, Deny, ReplyKind
<1> QED BY <1>1, <1>2, <1>3, AnsweredKeeps DEF HandleInput

\* A stop that is taken leaves the gateway without a session; a start behind it
\* is from a client without one.
LEMMA StopHandled == SdkInv /\ HandleStop => SdkInv'
<1> SUFFICES ASSUME SdkInv, HandleStop PROVE SdkInv'
  OBVIOUS
<1>1. /\ TookOrNot /\ up # <<>> /\ up' = Tail(up)
      /\ 1 \in DOMAIN up /\ Head(up) = up[1] /\ up[1] \in Frame
      /\ up[1].kind = "stop"
  BY FirstFrame DEF HandleStop, SdkInv
<1>2. SessionsGoOn
  <2>1. CASE ses' = ses
    BY <2>1, SameSessions DEF SdkInv
  <2>2. CASE active # 0 /\ ses[active].state = "open" /\ ses' = [ses EXCEPT ![active].state = "asked"]
    <3>1. active \in 1..Len(ses) /\ ses[active] \in Opened
      BY <2>2, SessionFacts DEF SdkInv, Numbered
    <3>2. ses' = [ses EXCEPT ![active] = [ses[active] EXCEPT !.state = "asked"]]
      BY <2>2
    <3>3. [ses[active] EXCEPT !.state = "asked"] \in Opened
      BY <3>1 DEF Opened
    <3> QED BY <2>2, <3>1, <3>2, <3>3, OneSession DEF SdkInv, Opened
  <2> QED BY <2>1, <2>2 DEF HandleStop
<1>3. CASE Deny(Head(up)) /\ UNCHANGED <<active, ses>>
  <2>1. active \in Nat
    BY DEF SdkInv, Typed
  <2>2. \E kind \in ReplyKind \ {"started", "ended"}, req \in Nat, s \in Nat :
          Say(<<Msg(kind, req, s)>>)
    BY <1>3, <2>1 DEF Deny, ReplyKind
  <2> QED BY <1>1, <1>2, <1>3, <2>2, AnsweredKeeps DEF HandleStop
<1>4. CASE active # 0 /\ up[1].session = active /\ active' = 0 /\ down' = down
  <2>1. \A i \in DOMAIN down : down[i].kind # "started"
    BY <1>1, <1>4 DEF SdkInv, FramesInv
  <2>2. /\ up' \in Seq(Frame)
        /\ \A i \in DOMAIN up' : i \in Nat /\ i + 1 \in DOMAIN up /\ up'[i] = up[i + 1]
    BY <1>1, TailFacts DEF SdkInv, Typed
  <2>3. UNCHANGED <<conn, reqId, session, domain, got>>
    BY DEF HandleStop, clientVars
  <2>4. Len(ses) \in Nat
    BY SessionFacts DEF SdkInv
  <2>5. Typed' /\ Numbered'
    BY <1>2, <1>4, <2>2, <2>3 DEF SdkInv, Typed, Numbered, SessionsGoOn
  <2>6. StartedInv' /\ EndedInv' /\ KnownInv'
    BY <1>2, <1>4, <2>1 DEF SdkInv, StartedInv, EndedInv, KnownInv, SessionsGoOn
  <2>7. GotInv'
    BY <1>2, <2>3, <2>4 DEF SdkInv, GotInv, SessionsGoOn, Typed
  <2>8. FramesInv'
    BY <1>2, <1>4, <2>1, <2>2, <2>3 DEF SdkInv, FramesInv, SessionsGoOn
  <2>9. ASSUME NEW i \in DOMAIN up', up'[i].kind \in StartKind PROVE QuietAfter(i)'
    <3>1. QuietAfter(i + 1)
      BY <1>1, <1>4, <2>2, <2>9 DEF SdkInv, TakenInv
    <3> QED BY <2>2, <2>3, <3>1 DEF QuietAfter
  <2>10. TakenInv'
    BY <2>9 DEF TakenInv
  <2> QED BY <2>5, <2>6, <2>7, <2>8, <2>10 DEF SdkInv
<1> QED BY <1>1, <1>3, <1>4 DEF HandleStop

LEMMA ShortConcat ==
  ASSUME NEW a, NEW b, NEW c
  PROVE  <<a>> \o <<b>> = <<a, b>> /\ <<a, b>> \o <<c>> = <<a, b, c>>
<1> DEFINE S == {a, b, c}
<1>1. /\ <<a>> \in Seq(S) /\ <<b>> \in Seq(S) /\ <<c>> \in Seq(S)
      /\ <<a, b>> \in Seq(S) /\ <<a, b, c>> \in Seq(S)
  OBVIOUS
<1> HIDE DEF S
<1>2. <<a>> \o <<b>> = <<a, b>>
  <2>1. /\ <<a>> \o <<b>> \in Seq(S) /\ Len(<<a>> \o <<b>>) = 2
        /\ \A i \in 1..2 : (<<a>> \o <<b>>)[i] = <<a, b>>[i]
    BY <1>1, ConcatProperties
  <2> QED BY <1>1, <2>1, SeqEqual
<1>3. <<a, b>> \o <<c>> = <<a, b, c>>
  <2>1. /\ <<a, b>> \o <<c>> \in Seq(S) /\ Len(<<a, b>> \o <<c>>) = 3
        /\ \A i \in 1..3 : (<<a, b>> \o <<c>>)[i] = <<a, b, c>>[i]
    BY <1>1, ConcatProperties
  <2> QED BY <1>1, <2>1, SeqEqual
<1> QED BY <1>2, <1>3

\* A start that is taken: the client has no session, and no audio is under way.
LEMMA StartHandled == SdkInv /\ HandleStart => SdkInv'
<1> SUFFICES ASSUME SdkInv, HandleStart PROVE SdkInv'
  OBVIOUS
<1> DEFINE f == Head(up)
           d == IF f.kind = "start_asr" THEN "asr" ELSE "tts"
           s == Len(ses) + 1
           new(state) == [domain |-> d, state |-> state, conn |-> conn, req |-> f.req, events |-> 0]
<1>1. /\ TookOrNot /\ up # <<>> /\ up' = Tail(up)
      /\ 1 \in DOMAIN up /\ f = up[1] /\ up[1] \in Frame
      /\ up[1].kind \in StartKind
  BY FirstFrame DEF HandleStart, SdkInv, StartKind
<1>2. CASE Deny(f) /\ UNCHANGED <<active, ses>>
  <2>1. active \in Nat /\ SessionsGoOn
    BY <1>2, SameSessions DEF SdkInv, Typed
  <2>2. \E kind \in ReplyKind \ {"started", "ended"}, req \in Nat, r \in Nat :
          Say(<<Msg(kind, req, r)>>)
    BY <1>2, <2>1 DEF Deny, ReplyKind
  <2> QED BY <1>1, <1>2, <2>1, <2>2, AnsweredKeeps DEF HandleStart
<1>3. ASSUME NEW state \in {"open", "over"}, NEW ms, active = 0, active' = s,
             ses' = Append(ses, new(state)), down' = down \o ms,
             \/ ms = <<Msg("started", f.req, s)>>
             \/ state = "over" /\ ms = EndOf(s, d) \o <<Msg("started", f.req, s)>>
      PROVE  SdkInv'
  <2>1. /\ session = 0 /\ \A j \in DOMAIN up : j > 1 => up[j].kind # "audio"
    BY <1>1, <1>3 DEF SdkInv, TakenInv, QuietAfter
  <2>2. /\ up' \in Seq(Frame)
        /\ \A i \in DOMAIN up' : i \in Nat /\ i + 1 \in DOMAIN up /\ up'[i] = up[i + 1]
    BY <1>1, TailFacts DEF SdkInv, Typed
  <2>3. \A i \in DOMAIN up' : i + 1 > 1 /\ up'[i].kind # "audio"
    <3> SUFFICES ASSUME NEW i \in DOMAIN up' PROVE i + 1 > 1 /\ up'[i].kind # "audio"
      OBVIOUS
    <3>1. DOMAIN up' = 1..Len(up') /\ Len(up') \in Nat
      BY <2>2, LenProperties
    <3> QED BY <2>1, <2>2, <3>1
  <2>4. UNCHANGED <<conn, reqId, session, domain, got>>
    BY DEF HandleStart, clientVars
  <2>5. /\ Len(ses) \in Nat /\ s \in Nat /\ s # 0 /\ f.req \in Nat /\ new(state) \in Opened
        /\ conn \in Nat
    BY <1>1, SessionFacts DEF SdkInv, Typed, Frame, Opened, Domain
  <2>6. /\ ses' \in Seq(Opened) /\ Len(ses') = s
        /\ \A r \in 1..Len(ses) : ses'[r] = ses[r]
        /\ ses'[s] = new(state)
    <3> ses \in Seq(Opened)
      BY DEF SdkInv, Typed
    <3> HIDE DEF new
    <3> QED BY <1>3, <2>5, AppendFacts
  <2>7. ses'[s].conn = conn /\ ses'[s].req = f.req /\ ses'[s].state = state
    BY <2>6
  <2> DEFINE m == Msg("started", f.req, s)
  <2>8. /\ m \in Reply /\ m.kind = "started" /\ m.req = f.req /\ m.session = s
    <3> "started" \in ReplyKind
      BY DEF ReplyKind
    <3> HIDE DEF f, s
    <3> QED BY <2>5, ReplyTyped
  <2>9. /\ ms \in Seq(Reply) /\ Len(ms) \in DOMAIN ms /\ ms[Len(ms)] = m
        /\ \A i \in DOMAIN ms :
             /\ ms[i].kind = "started" => i = Len(ms) /\ ms[i] = m
             /\ ms[i].kind = "ended" => ms[i].session = s /\ state = "over"
    <3> DEFINE done == Msg("done", 0, s)  ended == Msg("ended", 0, s)
    <3>1. /\ done \in Reply /\ done.kind = "done"
          /\ ended \in Reply /\ ended.kind = "ended" /\ ended.session = s
      <4>1. "done" \in ReplyKind /\ "ended" \in ReplyKind
        BY DEF ReplyKind
      <4> HIDE DEF s
      <4>2. done \in Reply /\ done.kind = "done"
        BY <2>5, <4>1, ReplyTyped
      <4>3. ended \in Reply /\ ended.kind = "ended" /\ ended.session = s
        BY <2>5, <4>1, ReplyTyped
      <4> QED BY <4>2, <4>3
    <3>2. ms = <<m>> \/ (state = "over" /\ (ms = <<ended, m>> \/ ms = <<done, ended, m>>))
      <4>1. /\ <<ended>> \o <<m>> = <<ended, m>>
            /\ <<done, ended>> \o <<m>> = <<done, ended, m>>
        BY ShortConcat
      <4>2. EndOf(s, d) \in {<<ended>>, <<done, ended>>}
        BY DEF EndOf
      <4> HIDE DEF m, done, ended, s, d
      <4> QED BY <1>3, <4>1, <4>2 DEF m
    <3> HIDE DEF m, done, ended
    <3>3. CASE ms = <<m>>
      BY <2>8, <3>3
    <3>4. CASE state = "over" /\ ms = <<ended, m>>
      BY <2>8, <3>1, <3>4
    <3>5. CASE state = "over" /\ ms = <<done, ended, m>>
      BY <2>8, <3>1, <3>5
    <3> QED BY <3>2, <3>3, <3>4, <3>5
  <2> HIDE DEF m, new, s, d, f
  <2>10. /\ down' \in Seq(Reply)
         /\ \A i \in DOMAIN down' :
              \/ i \in DOMAIN down /\ down'[i] = down[i]
              \/ i - Len(down) \in DOMAIN ms /\ down'[i] = ms[i - Len(down)]
         /\ DOMAIN down' \subseteq Int /\ Len(down) \in Nat
         /\ Len(ms) + Len(down) \in DOMAIN down' /\ down'[Len(ms) + Len(down)] = m
    <3>1. /\ down \in Seq(Reply) /\ DOMAIN down = 1..Len(down) /\ Len(down) \in Nat
          /\ DOMAIN ms = 1..Len(ms) /\ Len(ms) \in Nat
      BY <2>9, LenProperties DEF SdkInv, Typed
    <3>2. /\ down' \in Seq(Reply) /\ Len(down') = Len(down) + Len(ms)
          /\ \A i \in 1..Len(down) + Len(ms) :
               down'[i] = IF i <= Len(down) THEN down[i] ELSE ms[i - Len(down)]
      BY <1>3, <2>9, <3>1, ConcatProperties
    <3>3. DOMAIN down' = 1..Len(down) + Len(ms)
      BY <3>2, LenProperties
    <3> QED BY <2>9, <3>1, <3>2, <3>3
  <2>11. \A i \in DOMAIN down : down[i].kind # "started"
    BY <1>3 DEF SdkInv, StartedInv
  <2>12. \A i \in DOMAIN down' :
           down'[i].kind = "started" => down'[i] = m /\ i = Len(ms) + Len(down)
    BY <2>9, <2>10, <2>11
  <2>13. Typed'
    BY <1>3, <2>2, <2>4, <2>5, <2>6, <2>10 DEF SdkInv, Typed
  <2>14. Numbered'
    BY <1>3, <2>1, <2>4, <2>5, <2>6 DEF SdkInv, Numbered
  <2>15. StartedInv'
    BY <1>3, <2>1, <2>4, <2>5, <2>7, <2>8, <2>12 DEF StartedInv
  <2>16. EndedInv'
    <3> SUFFICES ASSUME NEW i \in DOMAIN down', down'[i].kind = "ended"
                 PROVE  down'[i].session \in 1..Len(ses') /\ ses'[down'[i].session].state = "over"
      BY DEF EndedInv
    <3>1. CASE i \in DOMAIN down /\ down'[i] = down[i]
      BY <2>5, <2>6, <3>1 DEF SdkInv, EndedInv, s
    <3>2. CASE i - Len(down) \in DOMAIN ms /\ down'[i] = ms[i - Len(down)]
      BY <2>5, <2>6, <2>7, <2>9, <3>2 DEF s
    <3> QED BY <2>10, <3>1, <3>2
  <2>17. KnownInv'
    BY <2>8, <2>10 DEF KnownInv
  <2>18. GotInv'
    BY <2>4, <2>5, <2>6 DEF SdkInv, GotInv, Typed, s
  <2>19. \A i \in DOMAIN up' : up'[i].kind = "stop" => up'[i].session \in 1..Len(ses)
    BY <2>2 DEF SdkInv, FramesInv
  <2>20. FramesInv'
    <3>1. session' = 0 /\ active' = s /\ Len(ses') = s
      BY <1>3, <2>1, <2>4, <2>6
    <3>2. \A i \in DOMAIN up' : up'[i].kind = "stop" => up'[i].session \in 1..s /\ up'[i].session # s
      BY <2>5, <2>19 DEF s
    <3> QED BY <2>3, <3>1, <3>2 DEF FramesInv
  <2>21. TakenInv'
    <3>1. \A i \in DOMAIN up' : up'[i].kind = "stop" => up'[i].session # active'
      BY <1>3, <2>5, <2>19 DEF s
    <3> QED BY <1>3, <2>5, <3>1 DEF TakenInv
  <2> QED BY <2>13, <2>14, <2>15, <2>16, <2>17, <2>18, <2>20, <2>21 DEF SdkInv
<1>4. CASE active = 0 /\ active' = s /\ Say(<<Msg("started", f.req, s)>>) /\ ses' = Append(ses, new("open"))
  BY <1>3, <1>4 DEF Say
<1>5. CASE /\ active = 0 /\ active' = s /\ ses' = Append(ses, new("over"))
           /\ Say(EndOf(s, d) \o <<Msg("started", f.req, s)>>)
  BY <1>3, <1>5 DEF Say
<1> QED BY <1>2, <1>4, <1>5 DEF HandleStart

\* The events of a session and its end.
LEMMA PumpKeeps ==
  ASSUME SdkInv, NEW s \in DOMAIN ses, PumpEvent(s) \/ PumpEnd(s)
  PROVE  SdkInv'
<1>1. /\ s \in 1..Len(ses) /\ s \in Nat /\ Len(ses) \in Nat /\ ses[s] \in Opened /\ ses[s].state # "over"
  BY SessionFacts DEF SdkInv, PumpEvent, PumpEnd, Pumped
<1>2. TookOrNot /\ UNCHANGED <<clientVars, conn, active>>
  <2>1. up' = up /\ clientVars' = clientVars /\ conn' = conn /\ active' = active
    BY DEF PumpEvent, PumpEnd
  <2>2. TookOrNot
    BY <2>1 DEF TookOrNot
  <2> QED BY <2>1, <2>2
<1>3. CASE PumpEvent(s)
  <2>1. ses' = [ses EXCEPT ![s] = [ses[s] EXCEPT !.events = @ + 1]]
    BY <1>3 DEF PumpEvent
  <2> DEFINE e == [ses[s] EXCEPT !.events = @ + 1]
  <2>2. /\ e \in Opened /\ e.conn = ses[s].conn /\ e.req = ses[s].req /\ e.state = ses[s].state
    <3>1. ses[s].events + 1 \in Nat
      BY <1>1 DEF Opened
    <3> QED BY <1>1, <3>1 DEF Opened
  <2> HIDE DEF e
  <2>3. SessionsGoOn
    <3>1. ses' = [ses EXCEPT ![s] = e]
      BY <2>1 DEF e
    <3> QED BY <1>1, <2>2, <3>1, OneSession DEF SdkInv
  <2>4. \E kind \in ReplyKind \ {"started", "ended"}, req \in Nat, r \in Nat :
          Say(<<Msg(kind, req, r)>>)
    BY <1>1, <1>3 DEF PumpEvent, ReplyKind
  <2> QED BY <1>2, <2>3, <2>4, AnsweredKeeps
<1>4. CASE PumpEnd(s)
  <2>1. ses' = [ses EXCEPT ![s] = [ses[s] EXCEPT !.state = "over"]]
    BY <1>4 DEF PumpEnd
  <2>2. [ses[s] EXCEPT !.state = "over"] \in Opened
    BY <1>1 DEF Opened
  <2>3. SessionsGoOn /\ ses'[s].state = "over"
    BY <1>1, <2>1, <2>2, OneSession DEF SdkInv, Opened
  <2>4. CASE Say(EndOf(s, ses[s].domain))
    BY <1>1, <1>2, <2>3, <2>4, PlainEnd, GatewayKeeps DEF Say, clientVars
  <2>5. CASE Say(<<Msg("error", 0, s)>>)
    BY <1>1, <1>2, <2>3, <2>5, AnsweredKeeps DEF ReplyKind
  <2> QED BY <1>4, <2>4, <2>5 DEF PumpEnd
<1> QED BY <1>3, <1>4

-----------------------------------------------------------------------------
(* What the client reads.                                                  *)

LEMMA ReceiveKeeps == SdkInv /\ Receive => SdkInv'
<1> SUFFICES ASSUME SdkInv, Receive PROVE SdkInv'
  OBVIOUS
<1> DEFINE m == down[1]
<1>1. /\ down # <<>> /\ down' = Tail(down) /\ down' \in Seq(Reply)
      /\ Head(down) = m /\ 1 \in DOMAIN down /\ m \in Reply
      /\ \A i \in DOMAIN down' : i \in Nat /\ i + 1 \in DOMAIN down /\ down'[i] = down[i + 1]
      /\ \A i \in DOMAIN down : i = 1 \/ (i - 1 \in DOMAIN down' /\ down'[i - 1] = down[i])
  BY TailFacts DEF SdkInv, Typed, Receive
<1>2. /\ Observe(m) /\ UNCHANGED <<conn, reqId, up, active, ses>>
      /\ got' = got \/ (m.kind = "started" /\ m.req = reqId
                         /\ got' = [conn |-> conn, req |-> reqId, session |-> m.session])
  BY <1>1 DEF Receive, Answers, gatewayVars
<1>3. /\ Len(ses) \in Nat /\ active \in 0..Len(ses) /\ session \in 0..Len(ses)
      /\ DOMAIN ses = 1..Len(ses) /\ DOMAIN down \subseteq Nat
      /\ \A s \in 1..Len(ses) : ses[s] \in Opened
  BY SessionFacts, LenProperties DEF SdkInv, Typed, Numbered
<1>4. CASE m.kind = "started"
  <2>1. /\ active # 0 /\ m.session = active /\ session = 0
        /\ ses[active].conn = conn /\ ses[active].req = m.req
        /\ \A i \in DOMAIN down' : down'[i].kind # "started"
    BY <1>1, <1>4 DEF SdkInv, StartedInv
  <2>2. session' = active /\ domain' = ses[active].domain /\ domain' \in Domain
    BY <1>2, <1>3, <1>4, <2>1 DEF Observe, Opened
  <2>3. Typed'
    BY <1>1, <1>2, <1>3, <2>1, <2>2 DEF SdkInv, Typed
  <2>4. Numbered'
    BY <1>2, <1>3, <2>1, <2>2 DEF SdkInv, Numbered, Domain, NoDomain
  <2>5. StartedInv' /\ EndedInv' /\ KnownInv'
    BY <1>1, <1>2, <2>1, <2>2 DEF SdkInv, StartedInv, EndedInv, KnownInv
  <2>6. FramesInv'
    BY <1>1, <1>2, <2>1, <2>2 DEF SdkInv, FramesInv
  <2>7. TakenInv'
    BY <1>1, <1>2, <1>4, <2>1 DEF SdkInv, TakenInv, FramesInv
  <2>8. GotInv'
    BY <1>2, <1>3, <2>1 DEF SdkInv, GotInv
  <2> QED BY <2>3, <2>4, <2>5, <2>6, <2>7, <2>8 DEF SdkInv
<1>5. CASE m.kind # "started"
  <2>1. /\ got' = got
        /\ \/ session' = session /\ domain' = domain
           \/ m.kind = "ended" /\ m.session = session /\ session' = 0 /\ domain' = NoDomain
    BY <1>2, <1>5 DEF Observe
  <2>2. Typed' /\ Numbered'
    <3>1. Typed'
      BY <1>1, <1>2, <1>3, <2>1 DEF SdkInv, Typed
    <3>2. Numbered'
      BY <1>2, <1>3, <2>1 DEF SdkInv, Numbered
    <3> QED BY <3>1, <3>2
  <2>3. StartedInv' /\ EndedInv'
    BY <1>1, <1>2, <2>1 DEF SdkInv, StartedInv, EndedInv
  <2>4. FramesInv'
    BY <1>1, <1>2, <2>1 DEF SdkInv, FramesInv
  <2>5. \A i \in DOMAIN up : QuietAfter(i) => QuietAfter(i)'
    BY <1>2, <2>1 DEF QuietAfter
  <2>6. TakenInv'
    BY <1>2, <2>5 DEF SdkInv, TakenInv
  <2>7. GotInv'
    BY <1>2, <2>1 DEF SdkInv, GotInv
  <2>8. KnownInv'
    <3> SUFFICES ASSUME active # 0, ses[active].state # "over"
                 PROVE  session' = active \/ \E i \in DOMAIN down' : down'[i].kind = "started"
      BY <1>2 DEF KnownInv
    <3>1. CASE session = active
      BY <1>1, <2>1, <3>1 DEF SdkInv, EndedInv
    <3>2. CASE \E i \in DOMAIN down : down[i].kind = "started"
      <4>1. PICK i \in DOMAIN down : down[i].kind = "started"
        BY <3>2
      <4>2. i - 1 \in DOMAIN down' /\ down'[i - 1] = down[i]
        BY <1>1, <1>5, <4>1
      <4> QED BY <4>1, <4>2
    <3> QED BY <3>1, <3>2 DEF SdkInv, KnownInv
  <2> QED BY <2>2, <2>3, <2>4, <2>6, <2>7, <2>8 DEF SdkInv
<1> QED BY <1>4, <1>5

LEMMA SdkStep == SdkInv /\ [Next]_vars => SdkInv'
<1> SUFFICES ASSUME SdkInv, [Next]_vars PROVE SdkInv'
  OBVIOUS
<1>1. CASE UNCHANGED vars
  BY <1>1, IdleKeeps DEF vars, clientVars, gatewayVars, sent
<1>2. CASE ClientStep
  BY <1>2, ConnectKeeps, ProgramKeeps, ReceiveKeeps DEF ClientStep
<1>3. CASE GatewayStep
  BY <1>3, QueryKeeps, StartHandled, InputHandled, StopHandled DEF GatewayStep
<1>4. CASE ControlReply \/ GiveUp \/ Hangup
  BY <1>4, ProgramKeeps
<1>5. CASE \E s \in DOMAIN ses : PumpEvent(s) \/ PumpEnd(s)
  BY <1>5, PumpKeeps
<1> QED BY <1>1, <1>2, <1>3, <1>4, <1>5 DEF Next

LEMMA SdkInductive == Spec => []SdkInv
<1> QED BY SdkStarts, SdkStep, PTL DEF Spec

\* A session that runs on the gateway is the client's active session or about to
\* be (observe_message looks at every message, also when the call that asked was
\* given up), for any program.
THEOREM SessionIsKnown == Spec => []RunningSessionIsKnown
<1>1. SdkInv => RunningSessionIsKnown
  BY DEF SdkInv, KnownInv, StartedInv, RunningSessionIsKnown
<1> QED BY <1>1, SdkInductive, PTL

\* What start_asr and start_tts return is the session that the gateway started for
\* this very request, not one for an earlier connection or request.
THEOREM StartAnswerIsOwn == Spec => []AnswerIsOwn
<1>1. SdkInv => AnswerIsOwn
  BY DEF SdkInv, GotInv, AnswerIsOwn
<1> QED BY <1>1, SdkInductive, PTL

\* A binary frame, which names no session, is taken by the session it was meant
\* for, whatever the program stops and starts (send_audio, handle_client_websocket).
THEOREM AudioIsMeant == Spec => []AudioReachesMeant
<1>1. SdkInv => AudioReachesMeant
  <2> SUFFICES ASSUME SdkInv, up # <<>>, Head(up).kind = "audio", active # 0
               PROVE  Head(up).session = active
    BY DEF AudioReachesMeant
  <2>1. Head(up) = up[1] /\ 1 \in DOMAIN up
    BY TailFacts DEF SdkInv, Typed
  <2> QED BY <2>1 DEF SdkInv, FramesInv
<1> QED BY <1>1, SdkInductive, PTL

-----------------------------------------------------------------------------
(* Types, and where programs get to.                                       *)

\* Every set of natural numbers that is not empty has a least element.
LEMMA LeastNumber ==
  ASSUME NEW T \in SUBSET Nat, T # {}
  PROVE  \E m \in T : \A n \in T : m <= n
<1> DEFINE R == OpToRel(<, Nat)
<1>1. IsWellFoundedOn(R, Nat)
  BY NatLessThanWellFounded
<1>2. \A x, y \in Nat : <<y, x>> \in R <=> y < x
  BY DEF OpToRel
<1> HIDE DEF R
<1>3. PICK m \in T : \A n \in T : <<n, m>> \notin R
  BY <1>1, WFMin
<1>4. ASSUME NEW n \in T PROVE m <= n
  <2>1. ~(n < m)
    BY <1>2, <1>3
  <2> QED BY <2>1
<1> QED BY <1>4

SomeSession == {0} \cup Session

FrameType == [kind : FrameKind, req : Nat, session : SomeSession]
ReplyType == [kind : ReplyKind, req : Nat, session : SomeSession]
SessionType == [domain : Domain, state : {"open", "asked", "over"},
                conn : Nat, req : Nat, events : 0..MaxEvents]

Waits == {"none", "hello", "discover", "voices", "start", "recv", "drain_asr", "drain_tts", "control"}

\* A program that waits is at one of its calls.
CallTypes ==
  /\ prog \in Program
  /\ at \in 1..(Len(prog.calls) + 1)
  /\ wait \in Waits
  /\ wait # "none" => at <= Len(prog.calls)
  /\ link \in {"none", "up", "closed"}
  /\ seen \subseteq {"done", "ended"} /\ missed \in BOOLEAN

QueueTypes ==
  /\ up \in Seq(FrameType) /\ down \in Seq(ReplyType)
  /\ ses \in Seq(SessionType) /\ Len(ses) <= MaxSessions
  /\ refused \subseteq Nat \X Nat

\* The session that a call or an answer means is one of those there may be.
LEMMA SessionsBounded ==
  ASSUME SdkInv, QueueTypes
  PROVE  /\ session \in SomeSession /\ active \in SomeSession /\ got.session \in SomeSession
         /\ Len(ses) \in Nat /\ DOMAIN ses = 1..Len(ses)
         /\ \A s \in DOMAIN ses : ses[s] \in SessionType /\ s \in SomeSession
<1>1. Len(ses) \in 0..MaxSessions /\ DOMAIN ses = 1..Len(ses)
  BY LenProperties DEF QueueTypes
<1>2. \A s \in DOMAIN ses : ses[s] \in SessionType
  BY <1>1, ElementOfSeq DEF QueueTypes
<1>3. session \in 0..Len(ses) /\ active \in 0..Len(ses) /\ got.session \in 0..Len(ses)
  <2>1. session \in Nat /\ session <= Len(ses) /\ active \in {0, Len(ses)}
    BY DEF SdkInv, Typed, Numbered
  <2>2. got.session \in Nat /\ got.session <= Len(ses)
    BY <1>1 DEF SdkInv, Typed, GotInv
  <2>3. Len(ses) \in Nat
    BY <1>1
  <2> QED BY <2>1, <2>2, <2>3
<1>4. 0..Len(ses) \subseteq SomeSession
  BY <1>1 DEF SomeSession, Session
<1> QED BY <1>1, <1>2, <1>3, <1>4

\* An error takes the program to a later call, or to its end.
LEMMA AfterErrorFacts ==
  ASSUME prog \in Program, at \in 1..Len(prog.calls)
  PROVE  AfterError \in 1..(Len(prog.calls) + 1)
<1>1. Len(prog.calls) \in Nat /\ prog.onError \in {"stop", "next", "continue"}
  BY LenProperties
<1>2. CASE prog.onError # "next"
  BY <1>1, <1>2 DEF AfterError
<1>3. CASE prog.onError = "next"
  <2> DEFINE later == {i \in (at + 1)..Len(prog.calls) : prog.calls[i] \in {"connect", "control"}}
             first == CHOOSE i \in later : \A j \in later : i <= j
  <2>1. AfterError = IF later = {} THEN Len(prog.calls) + 1 ELSE first
    BY <1>3 DEF AfterError
  <2>2. later \in SUBSET (1..Len(prog.calls)) /\ later \in SUBSET Nat
    BY <1>1
  <2> HIDE DEF later
  <2>3. later # {} => first \in later
    BY <2>2, LeastNumber
  <2> HIDE DEF first
  <2> QED BY <1>1, <2>1, <2>2, <2>3
<1> QED BY <1>2, <1>3

\* A call returns, with what it asked for or an error.
LEMMA CallReturns ==
  ASSUME CallTypes, wait # "none" \/ ~Ended, Succeed \/ Fail, prog' = prog
  PROVE  /\ wait' = "none" /\ prog' \in Program /\ at' \in 1..(Len(prog'.calls) + 1)
<1>1. /\ prog \in Program /\ Len(prog.calls) \in Nat /\ at \in 1..Len(prog.calls)
  <2>1. prog \in Program /\ at \in 1..(Len(prog.calls) + 1)
    BY DEF CallTypes
  <2>2. Len(prog.calls) \in Nat
    BY <2>1, LenProperties
  <2> QED BY <2>1, <2>2 DEF CallTypes, Ended
<1>2. CASE Succeed
  BY <1>1, <1>2 DEF Succeed
<1>3. CASE Fail
  BY <1>1, <1>3, AfterErrorFacts DEF Fail
<1> QED BY <1>2, <1>3

\* ... or goes on waiting, or the program makes it.
LEMMA CallGoesOn ==
  ASSUME CallTypes, wait # "none" \/ ~Ended, UNCHANGED <<prog, at>>,
         wait' \in Waits
  PROVE  /\ wait' # "none" => at' <= Len(prog'.calls)
         /\ prog' \in Program /\ at' \in 1..(Len(prog'.calls) + 1)
<1>1. prog \in Program /\ at \in 1..(Len(prog.calls) + 1) /\ Len(prog.calls) \in Nat
  BY LenProperties DEF CallTypes
<1> QED BY <1>1 DEF CallTypes, Ended

LEMMA CallStep ==
  ASSUME CallTypes, [Next]_vars
  PROVE  CallTypes'
<1> DEFINE Here == wait # "none" \/ ~Ended
           Rest == link' \in {"none", "up", "closed"} /\ seen' \subseteq {"done", "ended"} /\ missed' \in BOOLEAN
<1>1. ASSUME Here, prog' = prog, Succeed \/ Fail, Rest PROVE CallTypes'
  <2>1. wait' = "none" /\ prog' \in Program /\ at' \in 1..(Len(prog'.calls) + 1)
    BY <1>1, CallReturns
  <2> QED BY <1>1, <2>1 DEF CallTypes, Waits
<1>2. ASSUME Here, UNCHANGED <<prog, at>>, wait' \in Waits, Rest PROVE CallTypes'
  BY <1>2, CallGoesOn DEF CallTypes, Waits
<1>3. link \in {"none", "up", "closed"} /\ seen \subseteq {"done", "ended"} /\ missed \in BOOLEAN /\ wait \in Waits
  BY DEF CallTypes, Waits
<1>4. ASSUME UNCHANGED clientVars, link' \in {"none", "up", "closed"} PROVE CallTypes'
  BY <1>4 DEF CallTypes, clientVars
<1>5. CASE Connect
  <2>1. Here /\ prog' = prog /\ Rest
    BY <1>3, <1>5 DEF Connect, AtCall
  <2>2. (Succeed \/ Fail) \/ (at' = at /\ wait' \in Waits)
    BY <1>5 DEF Connect, Waits
  <2> QED BY <1>1, <1>2, <2>1, <2>2
<1>6. ASSUME NEW kind, NEW w \in Waits, Ask(kind, w), ~Ended PROVE CallTypes'
  <2>1. prog' = prog /\ Rest
    BY <1>3, <1>6 DEF Ask
  <2>2. (Succeed \/ Fail) \/ (at' = at /\ wait' \in Waits)
    BY <1>6 DEF Ask
  <2> QED BY <1>1, <1>2, <1>6, <2>1, <2>2
<1>7. CASE Discover \/ ListVoices
  BY <1>6, <1>7 DEF Discover, ListVoices, AtCall, Waits
<1>8. ASSUME NEW d \in Domain, Start(d) PROVE CallTypes'
  <2>1. CASE Ask(StartOf(d), "start")
    BY <1>6, <1>8, <2>1 DEF Start, AtCall, Waits
  <2>2. CASE Fail /\ UNCHANGED <<prog, conn, link, seen, missed>>
    BY <1>1, <1>3, <1>8, <2>2 DEF Start, AtCall
  <2> QED BY <1>8, <2>1, <2>2 DEF Start
<1>9. ASSUME NEW kind, NEW ready, Input(kind, ready), ~Ended PROVE CallTypes'
  BY <1>1, <1>3, <1>9 DEF Input
<1>10. CASE SendAudio \/ AppendTts \/ Commit \/ Stop
  BY <1>9, <1>10 DEF SendAudio, AppendTts, Commit, Stop, AtCall
<1>11. CASE Read \/ ControlAsk
  <2>1. Here /\ UNCHANGED <<prog, at>> /\ wait' \in Waits /\ Rest
    BY <1>3, <1>11 DEF Read, ControlAsk, AtCall, Waits
  <2> QED BY <1>2, <2>1
<1>12. CASE ControlReply \/ CloseCall \/ ReceiveEnd
  <2>1. Here /\ prog' = prog /\ (Succeed \/ Fail) /\ Rest
    BY <1>3, <1>12 DEF ControlReply, CloseCall, ReceiveEnd, AtCall
  <2> QED BY <1>1, <2>1
<1>13. CASE GiveUp
  <2>1. Here /\ prog' = prog /\ Succeed /\ Rest
    BY <1>3, <1>13 DEF GiveUp, Succeed
  <2> QED BY <1>1, <2>1
<1>14. CASE Receive
  <2>1. Here /\ prog' = prog
    BY <1>14 DEF Receive
  <2>2. Rest
    <3>1. seen' \subseteq {"done", "ended"}
      BY <1>3, <1>14 DEF Receive
    <3>2. missed' \in BOOLEAN
      BY <1>14 DEF Receive
    <3> QED BY <1>3, <1>14, <3>1, <3>2 DEF Receive
  <2>3. (Succeed \/ Fail) \/ (at' = at /\ wait' \in Waits)
    BY <1>3, <1>14 DEF Receive
  <2> QED BY <1>1, <1>2, <2>1, <2>2, <2>3
<1>15. CASE GatewayStep \/ Hangup \/ UNCHANGED vars
  BY <1>3, <1>4, <1>15
     DEF GatewayStep, HandleQuery, HandleStart, HandleInput, HandleStop, Hangup, vars
<1>16. ASSUME NEW s \in DOMAIN ses, PumpEvent(s) \/ PumpEnd(s) PROVE CallTypes'
  BY <1>3, <1>4, <1>16 DEF PumpEvent, PumpEnd
<1> QED BY <1>5, <1>7, <1>8, <1>10, <1>11, <1>12, <1>13, <1>14, <1>15, <1>16 DEF Next, ClientStep

LEMMA MessageTypes ==
  ASSUME NEW req \in Nat, NEW s \in SomeSession
  PROVE  /\ \A kind \in FrameKind : Msg(kind, req, s) \in FrameType
         /\ \A kind \in ReplyKind : Msg(kind, req, s) \in ReplyType
<1> QED BY DEF Msg, FrameType, ReplyType

\* At most one frame more or less, some messages more, one less, or none.
LEMMA QueuesTyped ==
  ASSUME QueueTypes, NEW f \in FrameType, NEW ms \in Seq(ReplyType)
  PROVE  /\ Append(up, f) \in Seq(FrameType)
         /\ up # <<>> => Tail(up) \in Seq(FrameType) /\ Head(up) \in FrameType
         /\ down \o ms \in Seq(ReplyType)
         /\ down # <<>> => Tail(down) \in Seq(ReplyType)
<1>1. up \in Seq(FrameType) /\ down \in Seq(ReplyType)
  BY DEF QueueTypes
<1> QED BY <1>1, AppendFacts, TailFacts, ConcatFacts

\* What the client does.
LEMMA ClientQueues ==
  ASSUME SdkInv, SdkInv', QueueTypes, ClientStep \/ ControlReply \/ GiveUp \/ Hangup
  PROVE  QueueTypes'
<1>1. session \in SomeSession /\ reqId' \in Nat /\ 0 \in SomeSession /\ 0 \in Nat
  BY SessionsBounded DEF SdkInv, Typed, SomeSession
<1>2. ASSUME UNCHANGED <<up, down, ses, refused>> PROVE QueueTypes'
  BY <1>2 DEF QueueTypes
<1>3. ASSUME NEW kind \in FrameKind, NEW req \in Nat, NEW s \in SomeSession,
             up' = Append(up, Msg(kind, req, s)), UNCHANGED <<down, ses, refused>>
      PROVE  QueueTypes'
  <2>1. up' \in Seq(FrameType)
    <3>1. Msg(kind, req, s) \in FrameType /\ <<>> \in Seq(ReplyType)
      BY MessageTypes
    <3> QED BY <1>3, <3>1, QueuesTyped
  <2> QED BY <1>3, <2>1 DEF QueueTypes
<1>4. ASSUME NEW kind \in FrameKind, NEW w, Ask(kind, w) PROVE QueueTypes'
  <2>1. UNCHANGED <<down, ses, refused>> /\ (up' = up \/ up' = Append(up, Msg(kind, reqId', 0)))
    BY <1>4 DEF Ask, Send, gatewayVars
  <2> QED BY <1>1, <1>2, <1>3, <2>1
<1>5. ASSUME NEW kind \in FrameKind, NEW ready, Input(kind, ready) PROVE QueueTypes'
  <2>1. UNCHANGED <<down, ses, refused>> /\ (up' = up \/ up' = Append(up, Msg(kind, 0, session)))
    BY <1>5 DEF Input, Send, gatewayVars
  <2> QED BY <1>1, <1>2, <1>3, <2>1
<1>6. CASE Discover \/ ListVoices
  BY <1>4, <1>6 DEF Discover, ListVoices, FrameKind
<1>7. ASSUME NEW d \in Domain, Start(d) PROVE QueueTypes'
  <2>1. CASE Ask(StartOf(d), "start")
    BY <1>4, <2>1 DEF StartOf, FrameKind
  <2>2. CASE UNCHANGED <<up, down, ses, refused>>
    BY <1>2, <2>2
  <2> QED BY <1>7, <2>1, <2>2 DEF Start, gatewayVars
<1>8. CASE SendAudio \/ AppendTts \/ Commit \/ Stop
  BY <1>5, <1>8 DEF SendAudio, AppendTts, Commit, Stop, FrameKind
<1>9. CASE Read \/ ControlAsk \/ ControlReply \/ CloseCall \/ ReceiveEnd \/ GiveUp \/ Hangup
  BY <1>2, <1>9 DEF Read, ControlAsk, ControlReply, CloseCall, ReceiveEnd, GiveUp, Hangup, gatewayVars
<1>10. CASE Receive
  <2>1. down' = Tail(down) /\ down # <<>> /\ UNCHANGED <<up, ses, refused>>
    BY <1>10 DEF Receive, gatewayVars
  <2>2. Msg("hello", 0, 0) \in FrameType /\ <<>> \in Seq(ReplyType)
    BY <1>1, MessageTypes DEF FrameKind
  <2>3. down' \in Seq(ReplyType)
    BY <2>1, <2>2, QueuesTyped
  <2> QED BY <2>1, <2>3 DEF QueueTypes
<1>11. CASE Connect
  <2>1. up' \in Seq(FrameType)
    <3>1. Msg("hello", 0, 0) \in FrameType
      BY <1>1, MessageTypes DEF FrameKind
    <3>2. up' = <<>> \/ up' = <<Msg("hello", 0, 0)>>
      BY <1>11 DEF Connect
    <3>3. <<Msg("hello", 0, 0)>> \in Seq(FrameType) /\ <<>> \in Seq(FrameType)
      BY <3>1
    <3> QED BY <3>2, <3>3
  <2>2. ses' \in Seq(SessionType) /\ Len(ses') = Len(ses)
    <3>1. Len(ses) \in Nat /\ DOMAIN ses = 1..Len(ses) /\ \A s \in DOMAIN ses : ses[s] \in SessionType
      BY SessionsBounded
    <3>2. ses' = [s \in 1..Len(ses) |-> [ses[s] EXCEPT !.state = "over"]]
      BY <1>11, <3>1 DEF Connect
    <3>3. \A s \in 1..Len(ses) : [ses[s] EXCEPT !.state = "over"] \in SessionType
      BY <3>1 DEF SessionType
    <3> QED BY <3>1, <3>2, <3>3
  <2>3. down' = <<>> /\ refused' = refused
    BY <1>11 DEF Connect
  <2> QED BY <2>1, <2>2, <2>3 DEF QueueTypes
<1> QED BY <1>6, <1>7, <1>8, <1>9, <1>10, <1>11 DEF ClientStep

\* One session of those there are changes, or none.
LEMMA OneTyped ==
  ASSUME SdkInv, QueueTypes, NEW s \in DOMAIN ses, NEW e \in SessionType, ses' = [ses EXCEPT ![s] = e]
  PROVE  ses' \in Seq(SessionType) /\ Len(ses') = Len(ses)
<1>1. ses \in Seq(SessionType) /\ s \in 1..Len(ses)
  BY SessionsBounded DEF QueueTypes
<1> QED BY <1>1, ExceptSeq

\* A frame is taken, or none; messages are added, or none.
LEMMA AnsweredTyped ==
  ASSUME QueueTypes, TookOrNot, NEW ms \in Seq(ReplyType), down' = down \/ Say(ms),
         ses' \in Seq(SessionType), Len(ses') <= MaxSessions, refused' \subseteq Nat \X Nat
  PROVE  QueueTypes'
<1>1. Msg("hello", 0, 0) \in FrameType
  BY MessageTypes DEF FrameKind, SomeSession
<1>2. up \in Seq(FrameType) /\ down \in Seq(ReplyType)
  BY DEF QueueTypes
<1>3. up' \in Seq(FrameType)
  BY <1>1, <1>2, QueuesTyped DEF TookOrNot
<1>4. down' \in Seq(ReplyType)
  BY <1>1, <1>2, QueuesTyped DEF Say
<1> QED BY <1>3, <1>4 DEF QueueTypes

LEMMA GatewayQueues ==
  ASSUME SdkInv, QueueTypes, GatewayStep
  PROVE  QueueTypes'
<1> DEFINE f == Head(up)
<1>1. TookOrNot /\ up # <<>>
  BY DEF GatewayStep, HandleQuery, HandleStart, HandleInput, HandleStop, TakeFrame, TookOrNot
<1>2. f.req \in Nat /\ f.kind \in FrameKind
  <2>1. f \in FrameType
    BY <1>1, TailFacts DEF QueueTypes
  <2> QED BY <2>1 DEF FrameType
<1> HIDE DEF f
<1>3. /\ active \in SomeSession /\ 0 \in SomeSession /\ 0 \in Nat /\ conn \in Nat
      /\ Len(ses) \in Nat /\ DOMAIN ses = 1..Len(ses) /\ \A s \in DOMAIN ses : ses[s] \in SessionType
      /\ active # 0 => active \in DOMAIN ses
  <2>1. active \in {0, Len(ses)} /\ conn \in Nat
    BY DEF SdkInv, Numbered, Typed
  <2>2. /\ active \in SomeSession /\ Len(ses) \in Nat /\ DOMAIN ses = 1..Len(ses)
        /\ \A s \in DOMAIN ses : ses[s] \in SessionType
    BY SessionsBounded
  <2>3. active # 0 => active \in DOMAIN ses
    <3>1. Len(ses) \in Nat /\ DOMAIN ses = 1..Len(ses)
      BY <2>2
    <3>2. \A n \in Nat : n # 0 => n \in 1..n
      OBVIOUS
    <3>3. active # 0 => active = Len(ses)
      BY <2>1
    <3> QED BY <3>1, <3>2, <3>3
  <2> QED BY <2>1, <2>2, <2>3 DEF SomeSession
<1>4. ses \in Seq(SessionType) /\ Len(ses) <= MaxSessions /\ refused \subseteq Nat \X Nat
  BY DEF QueueTypes
<1>5. ASSUME NEW kind \in ReplyKind, NEW req \in Nat, NEW s \in SomeSession
      PROVE  <<Msg(kind, req, s)>> \in Seq(ReplyType)
  <2>1. Msg(kind, req, s) \in ReplyType
    BY MessageTypes
  <2> QED BY <2>1
<1>6. ASSUME Deny(f), ses' = ses PROVE QueueTypes'
  <2>1. <<Msg("error", 0, active)>> \in Seq(ReplyType) /\ Say(<<Msg("error", 0, active)>>)
    BY <1>3, <1>5, <1>6 DEF Deny, ReplyKind
  <2>2. refused' \subseteq Nat \X Nat
    BY <1>2, <1>3, <1>4, <1>6 DEF Deny
  <2> QED BY <1>1, <1>4, <1>6, <2>1, <2>2, AnsweredTyped
<1>7. CASE HandleQuery
  <2>1. ses' = ses
    BY <1>7 DEF HandleQuery
  <2>2. CASE Deny(f)
    BY <1>6, <2>1, <2>2
  <2>3. ASSUME NEW kind \in ReplyKind, NEW req \in Nat, Say(<<Msg(kind, req, 0)>>), refused' = refused
        PROVE  QueueTypes'
    BY <1>1, <1>3, <1>4, <1>5, <2>1, <2>3, AnsweredTyped
  <2>4. \/ Deny(f)
        \/ refused' = refused /\ \/ Say(<<Msg("hello_ok", 0, 0)>>)
                                 \/ Say(<<Msg("discover_result", f.req, 0)>>)
                                 \/ Say(<<Msg("voices_result", f.req, 0)>>)
    BY <1>7 DEF HandleQuery, f
  <2> QED BY <1>2, <1>3, <2>2, <2>3, <2>4 DEF ReplyKind
<1>8. CASE HandleInput \/ HandleStop
  <2>1. CASE Deny(f) /\ ses' = ses
    BY <1>6, <2>1
  <2>2. CASE UNCHANGED <<ses, down, refused>>
    BY <1>1, <1>4, <2>2, AnsweredTyped, EmptySeq
  <2>3. CASE /\ active # 0 /\ ses' = [ses EXCEPT ![active].state = "asked"]
             /\ UNCHANGED <<down, refused>>
    <3> DEFINE e == [ses[active] EXCEPT !.state = "asked"]
    <3>1. e \in SessionType /\ ses' = [ses EXCEPT ![active] = e]
      BY <1>3, <2>3 DEF SessionType
    <3> HIDE DEF e
    <3>2. ses' \in Seq(SessionType) /\ Len(ses') = Len(ses)
      BY <1>3, <2>3, <3>1, OneTyped
    <3> QED BY <1>1, <1>4, <2>3, <3>2, AnsweredTyped, EmptySeq
  <2> QED BY <1>8, <2>1, <2>2, <2>3 DEF HandleInput, HandleStop, f
<1>9. CASE HandleStart
  <2> DEFINE d == IF f.kind = "start_asr" THEN "asr" ELSE "tts"
             s == Len(ses) + 1
             new(state) == [domain |-> d, state |-> state, conn |-> conn, req |-> f.req, events |-> 0]
  <2>1. CASE Deny(f) /\ ses' = ses
    BY <1>6, <2>1
  <2>2. ASSUME s <= MaxSessions, NEW state \in {"open", "over"}, refused' = refused,
               ses' = Append(ses, new(state)),
               NEW ms, Say(ms), ms = <<Msg("started", f.req, s)>> \/ ms = EndOf(s, d) \o <<Msg("started", f.req, s)>>
        PROVE  QueueTypes'
    <3>1. s \in SomeSession
      BY <1>3, <2>2 DEF SomeSession, Session
    <3>2. new(state) \in SessionType
      BY <1>2, <1>3, <2>2 DEF SessionType, Domain
    <3> HIDE DEF new
    <3>3. ses' \in Seq(SessionType) /\ Len(ses') = s
      BY <1>4, <2>2, <3>2, AppendFacts
    <3> HIDE DEF s
    <3>4. <<Msg("started", f.req, s)>> \in Seq(ReplyType)
      BY <1>2, <1>5, <3>1 DEF ReplyKind
    <3>5. EndOf(s, d) \in Seq(ReplyType)
      <4>1. Msg("done", 0, s) \in ReplyType /\ Msg("ended", 0, s) \in ReplyType
        BY <3>1, MessageTypes DEF ReplyKind
      <4> QED BY <4>1 DEF EndOf
    <3>6. ms \in Seq(ReplyType)
      BY <2>2, <3>4, <3>5, ConcatProperties
    <3> QED BY <1>1, <1>4, <2>2, <3>3, <3>6, AnsweredTyped
  <2>3. \/ Deny(f) /\ ses' = ses
        \/ /\ s <= MaxSessions /\ refused' = refused
           /\ \/ Say(<<Msg("started", f.req, s)>>) /\ ses' = Append(ses, new("open"))
              \/ /\ Say(EndOf(s, d) \o <<Msg("started", f.req, s)>>)
                 /\ ses' = Append(ses, new("over"))
    BY <1>9 DEF HandleStart, f
  <2> HIDE DEF d, s, new
  <2> QED BY <2>1, <2>2, <2>3
<1> QED BY <1>7, <1>8, <1>9 DEF GatewayStep

LEMMA PumpQueues ==
  ASSUME SdkInv, QueueTypes, NEW s \in DOMAIN ses, PumpEvent(s) \/ PumpEnd(s)
  PROVE  QueueTypes'
<1>1. ses[s] \in SessionType /\ s \in SomeSession
  BY SessionsBounded
<1>2. TookOrNot /\ refused' = refused
  <2>1. up' = up /\ refused' = refused
    BY DEF PumpEvent, PumpEnd
  <2> QED BY <2>1 DEF TookOrNot
<1>3. Len(ses) <= MaxSessions /\ refused \subseteq Nat \X Nat
  BY DEF QueueTypes
<1>4. \A kind \in ReplyKind : Msg(kind, 0, s) \in ReplyType
  BY <1>1, MessageTypes
<1>5. CASE PumpEvent(s)
  <2> DEFINE e == [ses[s] EXCEPT !.events = @ + 1]
  <2>1. e \in SessionType
    BY <1>1, <1>5 DEF PumpEvent, SessionType
  <2>2. ses' = [ses EXCEPT ![s] = e]
    BY <1>5 DEF PumpEvent
  <2> HIDE DEF e
  <2>3. ses' \in Seq(SessionType) /\ Len(ses') = Len(ses)
    BY <2>1, <2>2, OneTyped
  <2>4. PICK kind \in ReplyKind : Say(<<Msg(kind, 0, s)>>)
    BY <1>5 DEF PumpEvent, ReplyKind
  <2>5. <<Msg(kind, 0, s)>> \in Seq(ReplyType)
    BY <1>4
  <2> QED BY <1>2, <1>3, <2>3, <2>4, <2>5, AnsweredTyped
<1>6. CASE PumpEnd(s)
  <2> DEFINE e == [ses[s] EXCEPT !.state = "over"]
  <2>1. e \in SessionType
    BY <1>1 DEF SessionType
  <2>2. ses' = [ses EXCEPT ![s] = e]
    BY <1>6 DEF PumpEnd
  <2> HIDE DEF e
  <2>3. ses' \in Seq(SessionType) /\ Len(ses') = Len(ses)
    BY <2>1, <2>2, OneTyped
  <2>4. /\ EndOf(s, ses[s].domain) \in Seq(ReplyType)
        /\ <<Msg("error", 0, s)>> \in Seq(ReplyType)
    <3>1. /\ Msg("done", 0, s) \in ReplyType /\ Msg("ended", 0, s) \in ReplyType
          /\ Msg("error", 0, s) \in ReplyType
      BY <1>4 DEF ReplyKind
    <3> QED BY <3>1 DEF EndOf
  <2>5. Say(EndOf(s, ses[s].domain)) \/ Say(<<Msg("error", 0, s)>>)
    BY <1>6 DEF PumpEnd
  <2> QED BY <1>2, <1>3, <2>3, <2>4, <2>5, AnsweredTyped
<1> QED BY <1>5, <1>6

LEMMA QueueStep ==
  ASSUME SdkInv, SdkInv', QueueTypes, [Next]_vars
  PROVE  QueueTypes'
<1>1. CASE UNCHANGED vars
  BY <1>1 DEF vars, gatewayVars, QueueTypes
<1> QED BY <1>1, ClientQueues, GatewayQueues, PumpQueues DEF Next

\* The SDK's client, its program and its gateway keep their variables' types: every id that
\* either side takes for a session is that of one, and an error leaves the program at one of
\* its calls or at its end.
THEOREM SdkTypes == Spec => []TypeOK
<1>1. Init => CallTypes /\ QueueTypes
  <2> SUFFICES ASSUME Init PROVE CallTypes /\ QueueTypes
    OBVIOUS
  <2>1. prog \in Program /\ Len(prog.calls) \in Nat
    BY LenProperties DEF Init
  <2>2. at \in 1..(Len(prog.calls) + 1)
    BY <2>1 DEF Init
  <2>3. CallTypes
    BY <2>1, <2>2 DEF Init, CallTypes, Waits
  <2>4. QueueTypes
    BY DEF Init, QueueTypes
  <2> QED BY <2>3, <2>4
<1>2. SdkInv /\ SdkInv' /\ CallTypes /\ QueueTypes /\ [Next]_vars => CallTypes' /\ QueueTypes'
  BY CallStep, QueueStep
<1>3. SdkInv /\ CallTypes /\ QueueTypes => TypeOK
  <2> SUFFICES ASSUME SdkInv, CallTypes, QueueTypes PROVE TypeOK
    OBVIOUS
  <2>1. session \in SomeSession /\ active \in SomeSession /\ got.session \in SomeSession
    BY SessionsBounded
  <2>2. /\ conn \in Nat /\ reqId \in Nat /\ domain \in Domain \cup {NoDomain}
        /\ got \in [conn : Nat, req : Nat, session : Nat]
    BY DEF SdkInv, Typed
  <2> QED BY <2>1, <2>2
          DEF CallTypes, QueueTypes, TypeOK, SomeSession, Waits, FrameType, ReplyType, SessionType
<1> QED BY <1>1, <1>2, <1>3, SdkInductive, PTL DEF Spec
=============================================================================
