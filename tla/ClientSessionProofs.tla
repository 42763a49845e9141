------------------------ MODULE ClientSessionProofs ------------------------
(* Proofs about the sessions of one client connection, for any number of    *)
(* sessions, of frames and of pushed events, any bridges and any capacities. *)
EXTENDS ClientSession, SequenceTheorems, TLAPS

USE ClientSessionAssumption

-----------------------------------------------------------------------------
(* Queues.                                                                 *)

LEMMA TailFacts ==
  ASSUME NEW S, NEW q \in Seq(S), q # <<>>
  PROVE  /\ Tail(q) \in Seq(S) /\ Head(q) = q[1] /\ q[1] \in S
         /\ DOMAIN q = 1..Len(q) /\ DOMAIN Tail(q) = 1..Len(Tail(q))
         /\ Len(q) \in Nat \ {0} /\ Len(Tail(q)) = Len(q) - 1
         /\ \A i \in 1..Len(Tail(q)) : Tail(q)[i] = q[i + 1]
<1>1. Len(q) \in Nat \ {0} /\ DOMAIN q = 1..Len(q)
  BY EmptySeq, LenProperties
<1>2. /\ Tail(q) \in Seq(S) /\ Len(Tail(q)) = Len(q) - 1
      /\ \A i \in 1..Len(Tail(q)) : Tail(q)[i] = q[i + 1]
  BY HeadTailProperties
<1>3. Head(q) = q[1] /\ q[1] \in S
  BY <1>1, ElementOfSeq
<1> QED BY <1>1, <1>2, <1>3, LenProperties

LEMMA AppendFacts ==
  ASSUME NEW S, NEW q \in Seq(S), NEW e \in S
  PROVE  /\ Append(q, e) \in Seq(S) /\ Len(q) \in Nat /\ Len(Append(q, e)) = Len(q) + 1
         /\ DOMAIN q = 1..Len(q) /\ DOMAIN Append(q, e) = 1..(Len(q) + 1)
         /\ \A i \in 1..Len(q) : Append(q, e)[i] = q[i]
         /\ Append(q, e)[Len(q) + 1] = e
<1> QED BY AppendProperties, LenProperties

\* One queue of a family gets an element at its end, loses its first one, or is emptied.
LEMMA PutTyped ==
  ASSUME NEW S, NEW f \in [Session -> Seq(S)], NEW s \in Session, NEW e \in S
  PROVE  /\ [f EXCEPT ![s] = Append(@, e)] \in [Session -> Seq(S)]
         /\ \A q \in Session : [f EXCEPT ![s] = Append(@, e)][q] = IF q = s THEN Append(f[s], e) ELSE f[q]
<1>1. Append(f[s], e) \in Seq(S)
  BY AppendFacts
<1> QED BY <1>1

LEMMA TakeTyped ==
  ASSUME NEW S, NEW f \in [Session -> Seq(S)], NEW s \in Session, f[s] # <<>>
  PROVE  /\ [f EXCEPT ![s] = Tail(@)] \in [Session -> Seq(S)]
         /\ \A q \in Session : [f EXCEPT ![s] = Tail(@)][q] = IF q = s THEN Tail(f[s]) ELSE f[q]
<1>1. Tail(f[s]) \in Seq(S)
  BY TailFacts
<1> QED BY <1>1

LEMMA EmptyTyped ==
  ASSUME NEW S, NEW f \in [Session -> Seq(S)], NEW s \in Session
  PROVE  /\ [f EXCEPT ![s] = <<>>] \in [Session -> Seq(S)]
         /\ \A q \in Session : [f EXCEPT ![s] = <<>>][q] = IF q = s THEN <<>> ELSE f[q]
<1>1. <<>> \in Seq(S)
  BY EmptySeq
<1> QED BY <1>1

-----------------------------------------------------------------------------
(* What bridges decide.                                                    *)

EventOf(s) ==
  IF s \in TtsSession THEN {"audio", "error", "ended"} ELSE {"partial", "final", "error", "ended"}

\* "ended" is the last event of what is sent, and the bridge returns after it.
EndsLast(q, returns) == \A i \in DOMAIN q : q[i] = "ended" => i = Len(q) /\ returns

\* A decision that the bridge of s may take.
Decided(s, d) ==
  /\ d[1] \in Seq(EventOf(s)) /\ d[2] \in BOOLEAN
  /\ Provider[s] \notin Pipe => EndsLast(d[1], d[2])

LEMMA ShortConcat ==
  ASSUME NEW a, NEW b, NEW c
  PROVE  <<a>> \o <<b>> = <<a, b>> /\ <<a, b>> \o <<c>> = <<a, b, c>>
<1> DEFINE S == {a, b, c}
<1>1. /\ <<a>> \in Seq(S) /\ <<b>> \in Seq(S) /\ <<c>> \in Seq(S)
      /\ <<a, b>> \in Seq(S) /\ <<a, b, c>> \in Seq(S)
  OBVIOUS
<1> HIDE DEF S
<1>2. <<a>> \o <<b>> = <<a, b>>
  <2>1. /\ <<a>> \o <<b>> \in Seq(S) /\ Len(<<a>> \o <<b>>) = 2
        /\ \A i \in 1..2 : (<<a>> \o <<b>>)[i] = <<a, b>>[i]
    BY <1>1, ConcatProperties
  <2> QED BY <1>1, <2>1, SeqEqual
<1>3. <<a, b>> \o <<c>> = <<a, b, c>>
  <2>1. /\ <<a, b>> \o <<c>> \in Seq(S) /\ Len(<<a, b>> \o <<c>>) = 3
        /\ \A i \in 1..3 : (<<a, b>> \o <<c>>)[i] = <<a, b, c>>[i]
    BY <1>1, ConcatProperties
  <2> QED BY <1>1, <2>1, SeqEqual
<1> QED BY <1>2, <1>3

LEMMA Literals ==
  ASSUME NEW S
  PROVE  /\ <<>> \in Seq(S) /\ \A b : EndsLast(<<>>, b)
         /\ \A a \in S : <<a>> \in Seq(S) /\ EndsLast(<<a>>, TRUE)
                         /\ (a # "ended" => EndsLast(<<a>>, FALSE))
         /\ \A a, b \in S : <<a, b>> \in Seq(S) /\ (a # "ended" => EndsLast(<<a, b>>, TRUE))
         /\ \A a, b, c \in S : <<a, b, c>> \in Seq(S) /\ (a # "ended" /\ b # "ended" => EndsLast(<<a, b, c>>, TRUE))
<1>1. <<>> \in Seq(S) /\ \A b : EndsLast(<<>>, b)
  BY DEF EndsLast
<1>2. \A a \in S : <<a>> \in Seq(S) /\ DOMAIN <<a>> = {1} /\ Len(<<a>>) = 1 /\ <<a>>[1] = a
  OBVIOUS
<1>3. \A a, b \in S : /\ <<a, b>> \in Seq(S) /\ DOMAIN <<a, b>> = {1, 2} /\ Len(<<a, b>>) = 2
                      /\ <<a, b>>[1] = a /\ <<a, b>>[2] = b
  OBVIOUS
<1>4. \A a, b, c \in S : /\ <<a, b, c>> \in Seq(S) /\ DOMAIN <<a, b, c>> = {1, 2, 3} /\ Len(<<a, b, c>>) = 3
                         /\ <<a, b, c>>[1] = a /\ <<a, b, c>>[2] = b /\ <<a, b, c>>[3] = c
  OBVIOUS
<1> QED BY <1>1, <1>2, <1>3, <1>4 DEF EndsLast

LEMMA Decisions ==
  ASSUME NEW s \in Session
  PROVE  /\ \A b \in BOOLEAN : Decided(s, <<<<>>, b>>)
         /\ \A a \in EventOf(s) :
              /\ Decided(s, <<<<a>>, TRUE>>)
              /\ a # "ended" \/ Provider[s] \in Pipe => Decided(s, <<<<a>>, FALSE>>)
         /\ \A a, b \in EventOf(s) : a # "ended" => Decided(s, <<<<a, b>>, TRUE>>)
         /\ \A a, b, c \in EventOf(s) : a # "ended" /\ b # "ended" => Decided(s, <<<<a, b, c>>, TRUE>>)
<1> DEFINE E == EventOf(s)
<1>1. ASSUME NEW q \in Seq(E), NEW b \in BOOLEAN, Provider[s] \notin Pipe => EndsLast(q, b)
      PROVE  Decided(s, <<q, b>>)
  BY <1>1 DEF Decided
<1> HIDE DEF E
<1>2. \A b \in BOOLEAN : Decided(s, <<<<>>, b>>)
  BY <1>1, Literals
<1>3. \A a \in E : /\ Decided(s, <<<<a>>, TRUE>>)
                   /\ a # "ended" \/ Provider[s] \in Pipe => Decided(s, <<<<a>>, FALSE>>)
  BY <1>1, Literals
<1>4. \A a, b \in E : a # "ended" => Decided(s, <<<<a, b>>, TRUE>>)
  BY <1>1, Literals
<1>5. \A a, b, c \in E : a # "ended" /\ b # "ended" => Decided(s, <<<<a, b, c>>, TRUE>>)
  BY <1>1, Literals
<1> QED BY <1>2, <1>3, <1>4, <1>5 DEF E

LEMMA ReactionFacts ==
  ASSUME NEW s \in Session, Provider[s] \notin Pipe, NEW c \in Command,
         NEW d \in Reactions(Provider[s], c)
  PROVE  Decided(s, d)
<1> DEFINE E == EventOf(s)
<1>1. s \in TtsSession <=> Provider[s] \in {"http_tts", "ws_tts"}
  BY DEF TtsSession, Tts
<1>2. Provider[s] \in {"mock_asr", "http_asr", "http_tts", "ws_tts"}
  BY DEF Asr, Tts, Pipe
<1> HIDE DEF E
<1>3. CASE Provider[s] \in {"mock_asr", "http_asr"}
  <2>1. /\ "partial" \in E /\ "final" \in E /\ "error" \in E /\ "ended" \in E
    BY <1>1, <1>3 DEF EventOf, E
  <2>2. d \in {<<<<>>, FALSE>>, <<<<"partial">>, FALSE>>, <<<<"error">>, TRUE>>, <<<<"ended">>, TRUE>>,
               <<<<"final", "ended">>, TRUE>>}
    <3>1. CASE Provider[s] = "mock_asr"
      BY <3>1 DEF Reactions, MockAsrDecisions, Command
    <3>2. CASE Provider[s] = "http_asr"
      BY <3>2 DEF Reactions, HttpAsrDecisions, Command
    <3> QED BY <1>3, <3>1, <3>2
  <2> QED BY <2>1, <2>2, Decisions DEF E
<1>4. CASE Provider[s] = "http_tts"
  <2>1. "audio" \in E /\ "error" \in E /\ "ended" \in E
    BY <1>1, <1>4 DEF EventOf, E
  <2>2. d \in {<<<<>>, FALSE>>, <<<<"ended">>, TRUE>>, <<<<"error", "ended">>, TRUE>>,
               <<<<"audio", "ended">>, TRUE>>, <<<<"audio", "audio", "ended">>, TRUE>>}
    <3>1. d \in HttpTtsDecisions(c)
      BY <1>4 DEF Reactions
    <3>2. CASE c # "commit"
      BY <3>1, <3>2 DEF HttpTtsDecisions, Command
    <3>3. CASE c = "commit"
      <4>1. d \in {<<a \o <<"ended">>, TRUE>> : a \in {<<"audio">>, <<"audio", "audio">>, <<"error">>}}
        BY <3>1, <3>3 DEF HttpTtsDecisions, AudioChunks
      <4>2. PICK a \in {<<"audio">>, <<"audio", "audio">>, <<"error">>} : d = <<a \o <<"ended">>, TRUE>>
        BY <4>1
      <4>3. a \o <<"ended">> \in {<<"audio", "ended">>, <<"audio", "audio", "ended">>, <<"error", "ended">>}
        <5>1. <<"audio", "audio">> \o <<"ended">> = <<"audio", "audio", "ended">>
          BY ShortConcat
        <5>2. \A x \in {"audio", "error"} : <<x>> \o <<"ended">> = <<x, "ended">>
          BY ShortConcat
        <5> QED BY <4>2, <5>1, <5>2
      <4> QED BY <4>2, <4>3
    <3> QED BY <3>2, <3>3
  <2>3. /\ \A b \in BOOLEAN : Decided(s, <<<<>>, b>>)
        /\ \A a \in E : Decided(s, <<<<a>>, TRUE>>)
        /\ \A a, b \in E : a # "ended" => Decided(s, <<<<a, b>>, TRUE>>)
        /\ \A a, b, e \in E : a # "ended" /\ b # "ended" => Decided(s, <<<<a, b, e>>, TRUE>>)
    BY Decisions DEF E
  <2> QED BY <2>1, <2>2, <2>3
<1>5. CASE Provider[s] = "ws_tts"
  <2>1. "error" \in E /\ "ended" \in E
    BY <1>1, <1>5 DEF EventOf, E
  <2>2. d \in {<<<<>>, FALSE>>, <<<<"ended">>, TRUE>>, <<<<"error", "ended">>, TRUE>>}
    BY <1>5 DEF Reactions, WsTtsDecisions
  <2> QED BY <2>1, <2>2, Decisions DEF E
<1> QED BY <1>2, <1>3, <1>4, <1>5

LEMMA PushFacts ==
  ASSUME NEW s \in Session, NEW d \in Pushes(Provider[s])
  PROVE  Decided(s, d) /\ Provider[s] \in {"ws_tts"} \cup Pipe
<1> DEFINE E == EventOf(s)
<1>1. s \in TtsSession <=> Provider[s] \in {"http_tts", "ws_tts"}
  BY DEF TtsSession, Tts
<1> HIDE DEF E
<1>2. CASE Provider[s] = "ws_tts"
  <2>1. "audio" \in E /\ "error" \in E /\ "ended" \in E
    BY <1>1, <1>2 DEF EventOf, E
  <2>2. d \in {<<<<"audio">>, FALSE>>, <<<<"ended">>, TRUE>>, <<<<"error", "ended">>, TRUE>>}
    BY <1>2 DEF Pushes, Pipe, WsTtsPushes
  <2> QED BY <1>2, <2>1, <2>2, Decisions DEF E
<1>3. CASE Provider[s] \in Pipe
  <2>1. PICK e \in {"partial", "final", "error", "ended"} : d = <<<<e>>, FALSE>>
    BY <1>3 DEF Pushes, Pipe, BridgeLines
  <2>2. e \in E
    BY <1>1, <1>3 DEF EventOf, E, Pipe
  <2> QED BY <1>3, <2>1, <2>2, Decisions DEF E
<1> QED BY <1>2, <1>3 DEF Pushes

LEMMA HangupFacts ==
  ASSUME NEW s \in Session, NEW d,
         d = <<IF Provider[s] = "ws_tts" THEN <<"ended">> ELSE <<>>, TRUE>>
  PROVE  Decided(s, d) /\ (Provider[s] # "ws_tts" => d[1] = <<>>)
<1>1. "ended" \in EventOf(s)
  BY DEF EventOf
<1> QED BY <1>1, Decisions

-----------------------------------------------------------------------------
(* Types.                                                                  *)

\* A session is being announced or served whenever the loop's place needs one.
LoopInv ==
  /\ pc = "announce" <=> starting # NoSession
  /\ pc \in {"send", "stopping"} => active # NoSession

\* Each session has events of its own domain only.
EventsInv == \A s \in Session : events[s] \in Seq(EventOf(s)) /\ emit[s] \in Seq(EventOf(s))

TypedInv == TypeOK /\ LoopInv /\ EventsInv

LEMMA WiderEvents == \A s \in Session : \A q \in Seq(EventOf(s)) : q \in Seq(Event)
<1>1. \A s \in Session : EventOf(s) \subseteq Event
  BY DEF EventOf, Event
<1> QED BY <1>1

LEMMA OutFacts ==
  ASSUME TypedInv, NEW s \in Session, NEW m \in Event \cup {"started", "done"}, Out(s, m)
  PROVE  /\ sent' \in [Session -> Seq(Event \cup {"started", "done"})] /\ replies' = replies
         /\ \A q \in Session :
              sent'[q] = IF q = s /\ link = "up" THEN Append(sent[s], m) ELSE sent[q]
<1>1. sent \in [Session -> Seq(Event \cup {"started", "done"})]
  BY DEF TypedInv, TypeOK
<1>2. CASE link = "up"
  BY <1>1, <1>2, PutTyped DEF Out
<1>3. CASE link # "up"
  BY <1>1, <1>3 DEF Out
<1> QED BY <1>2, <1>3

LEMMA RefuseFacts ==
  ASSUME TypedInv, NEW m \in {"refused", "busy"}, Refuse(m)
  PROVE  replies' \in [Session -> Seq({"refused", "busy"})] /\ sent' = sent
<1>1. replies \in [Session -> Seq({"refused", "busy"})] /\ active \in Session \cup {NoSession}
  BY DEF TypedInv, TypeOK
<1>2. CASE link = "up" /\ active # NoSession
  BY <1>1, <1>2, PutTyped DEF Refuse
<1>3. CASE ~(link = "up" /\ active # NoSession)
  BY <1>1, <1>3 DEF Refuse
<1> QED BY <1>2, <1>3

\* A command is queued for s.
LEMMA QueueFacts ==
  ASSUME TypedInv, NEW s \in Session, NEW c \in Command, Len(commands[s]) < CommandCap,
         commands' = [commands EXCEPT ![s] = Append(@, c)]
  PROVE  /\ commands' \in [Session -> Seq(Command)]
         /\ \A q \in Session : Len(commands'[q]) <= CommandCap
         /\ \A q \in Session \ {s} : commands'[q] = commands[q]
<1>1. commands \in [Session -> Seq(Command)] /\ \A q \in Session : Len(commands[q]) <= CommandCap
  BY DEF TypedInv, TypeOK
<1>2. /\ commands' \in [Session -> Seq(Command)]
      /\ \A q \in Session : commands'[q] = IF q = s THEN Append(commands[s], c) ELSE commands[q]
  BY <1>1, PutTyped
<1>3. Len(Append(commands[s], c)) = Len(commands[s]) + 1 /\ Len(commands[s]) \in Nat
  BY <1>1, AppendFacts
<1> QED BY <1>1, <1>2, <1>3

\* A command is taken from the queue of s, or the queue is dropped.
LEMMA DequeueFacts ==
  ASSUME TypedInv, NEW s \in Session,
         \/ commands[s] # <<>> /\ commands' = [commands EXCEPT ![s] = Tail(@)]
         \/ commands' = [commands EXCEPT ![s] = <<>>]
  PROVE  /\ commands' \in [Session -> Seq(Command)]
         /\ \A q \in Session : Len(commands'[q]) <= CommandCap
         /\ \A q \in Session \ {s} : commands'[q] = commands[q]
<1>1. commands \in [Session -> Seq(Command)] /\ \A q \in Session : Len(commands[q]) <= CommandCap
  BY DEF TypedInv, TypeOK
<1>2. CASE commands[s] # <<>> /\ commands' = [commands EXCEPT ![s] = Tail(@)]
  <2>1. /\ commands' \in [Session -> Seq(Command)]
        /\ \A q \in Session : commands'[q] = IF q = s THEN Tail(commands[s]) ELSE commands[q]
    BY <1>1, <1>2, TakeTyped
  <2>2. Len(Tail(commands[s])) = Len(commands[s]) - 1 /\ Len(commands[s]) \in Nat
    BY <1>1, <1>2, TailFacts
  <2> QED BY <1>1, <2>1, <2>2
<1>3. CASE commands' = [commands EXCEPT ![s] = <<>>]
  <2>1. /\ commands' \in [Session -> Seq(Command)]
        /\ \A q \in Session : commands'[q] = IF q = s THEN <<>> ELSE commands[q]
    BY <1>1, <1>3, EmptyTyped
  <2>2. Len(<<>>) = 0
    OBVIOUS
  <2> QED BY <1>1, <2>1, <2>2
<1> QED BY <1>2, <1>3

LEMMA SessionsTyped ==
  ASSUME TypedInv
  PROVE  /\ commands \in [Session -> Seq(Command)] /\ emit \in [Session -> Seq(Event)]
         /\ events \in [Session -> Seq(Event)] /\ active \in Session \cup {NoSession}
         /\ pending \in Command /\ starting \in Session \cup {NoSession}
<1> QED BY DEF TypedInv, TypeOK

LEMMA ClientTyped ==
  ASSUME TypedInv, ClientStep
  PROVE  TypedInv'
<1>1. TypeOK /\ LoopInv /\ EventsInv
  BY DEF TypedInv
<1>2. CASE RefuseFrame \/ RefuseStart
  <2>1. replies' \in [Session -> Seq({"refused", "busy"})] /\ sent' = sent
    BY <1>2, RefuseFacts DEF RefuseFrame, RefuseStart
  <2>2. TypeOK'
    <3>1. frames' \in 0..MaxFrames
      <4>1. frames \in 0..MaxFrames
        BY <1>1 DEF TypeOK
      <4>2. frames < MaxFrames /\ frames' = frames + 1
        BY <1>2 DEF RefuseFrame, RefuseStart, Frame
      <4> QED BY <4>1, <4>2
    <3>2. UNCHANGED <<pc, starting, active, pending, bridgeVars, pumpVars, asked, link>>
      BY <1>2 DEF RefuseFrame, RefuseStart
    <3> QED BY <1>1, <2>1, <3>1, <3>2 DEF TypeOK, bridgeVars, pumpVars
  <2>3. LoopInv' /\ EventsInv'
    BY <1>1, <1>2 DEF RefuseFrame, RefuseStart, LoopInv, EventsInv, bridgeVars, pumpVars
  <2> QED BY <2>2, <2>3 DEF TypedInv
<1>3. CASE CloseFrame \/ ReadError \/ WriterFails
  <2>1. UNCHANGED <<starting, pending, frames, bridgeVars, pumpVars, outVars, asked>>
    BY <1>3 DEF CloseFrame, ReadError, WriterFails, loopVars
  <2>2. /\ pc' \in {"read", "announce", "send", "stopping", "draining", "closed"}
        /\ active' \in Session \cup {NoSession} /\ link' \in {"up", "down"}
    BY <1>1, <1>3 DEF CloseFrame, ReadError, WriterFails, TypeOK, loopVars
  <2>3. TypeOK'
    BY <1>1, <2>1, <2>2 DEF TypeOK, bridgeVars, pumpVars, outVars
  <2>4. LoopInv'
    BY <1>1, <1>3 DEF CloseFrame, ReadError, WriterFails, LoopInv, loopVars
  <2>5. EventsInv'
    BY <1>1, <2>1 DEF EventsInv, bridgeVars, pumpVars
  <2> QED BY <2>3, <2>4, <2>5 DEF TypedInv
<1>4. ASSUME NEW s \in Session, StartStream(s) PROVE TypedInv'
  <2>1. TypeOK'
    <3>1. frames' \in 0..MaxFrames
      <4>1. frames \in 0..MaxFrames
        BY <1>1 DEF TypeOK
      <4>2. frames < MaxFrames /\ frames' = frames + 1
        BY <1>4 DEF StartStream, Frame
      <4> QED BY <4>1, <4>2
    <3>2. /\ cmdOpen' \in [Session -> BOOLEAN] /\ evOpen' \in [Session -> BOOLEAN]
          /\ pump' \in [Session -> {"none", "run", "end", "done"}]
      BY <1>1, <1>4 DEF StartStream, TypeOK
    <3>3. /\ UNCHANGED <<active, pending, commands, emit, fin, pushed, events, sent, replies, asked, link>>
          /\ pc' = "announce" /\ starting' = s
      BY <1>4 DEF StartStream, outVars
    <3> QED BY <1>1, <3>1, <3>2, <3>3 DEF TypeOK
  <2>2. LoopInv' /\ EventsInv'
    BY <1>1, <1>4 DEF StartStream, LoopInv, EventsInv
  <2> QED BY <2>1, <2>2 DEF TypedInv
<1>5. ASSUME NEW c \in Command, Forward(c) PROVE TypedInv'
  <2>1. frames' \in 0..MaxFrames
    <3>1. frames \in 0..MaxFrames
      BY <1>1 DEF TypeOK
    <3>2. frames < MaxFrames /\ frames' = frames + 1
      BY <1>5 DEF Forward, Frame
    <3> QED BY <3>1, <3>2
  <2>2. /\ UNCHANGED <<starting, active, bridgeVars, pumpVars, outVars, asked, link>>
        /\ pc = "read" /\ pc' = "send" /\ pending' = c /\ active # NoSession
    BY <1>5 DEF Forward
  <2>3. TypeOK'
    BY <1>1, <2>1, <2>2 DEF TypeOK, bridgeVars, pumpVars, outVars
  <2>4. LoopInv' /\ EventsInv'
    BY <1>1, <2>2 DEF LoopInv, EventsInv, bridgeVars, pumpVars
  <2> QED BY <2>3, <2>4 DEF TypedInv
<1> QED BY <1>2, <1>3, <1>4, <1>5 DEF ClientStep

LEMMA LoopTyped ==
  ASSUME TypedInv, LoopStep
  PROVE  TypedInv'
<1>1. TypeOK /\ LoopInv /\ EventsInv
  BY DEF TypedInv
<1>2. CASE Announce
  <2>1. starting \in Session
    BY <1>1, <1>2 DEF Announce, LoopInv, TypeOK
  <2>2. sent' \in [Session -> Seq(Event \cup {"started", "done"})] /\ replies' = replies
    BY <1>2, <2>1, OutFacts DEF Announce
  <2> QED BY <1>1, <1>2, <2>2
          DEF Announce, TypedInv, TypeOK, LoopInv, EventsInv, bridgeVars, pumpVars
<1>3. CASE Accepted
  <2>1. active \in Session /\ pending \in Command
    BY <1>1, <1>3 DEF Accepted, LoopInv, TypeOK
  <2>2. commands' \in [Session -> Seq(Command)] /\ \A q \in Session : Len(commands'[q]) <= CommandCap
    BY <1>3, <2>1, QueueFacts DEF Accepted
  <2>3. asked' \in [Session -> BOOLEAN]
    BY <1>1, <1>3, <2>1 DEF Accepted, TypeOK
  <2> QED BY <1>1, <1>3, <2>2, <2>3
          DEF Accepted, TypedInv, TypeOK, LoopInv, EventsInv, pumpVars, outVars
<1>4. CASE Rejected
  <2>1. replies' \in [Session -> Seq({"refused", "busy"})] /\ sent' = sent
    BY <1>4, RefuseFacts DEF Rejected
  <2> QED BY <1>1, <1>4, <2>1 DEF Rejected, TypedInv, TypeOK, LoopInv, EventsInv, bridgeVars, pumpVars
<1>5. CASE StopOnClose
  <2>1. active \in Session /\ "stop" \in Command
    BY <1>1, <1>5 DEF StopOnClose, LoopInv, TypeOK, Command
  <2>2. /\ commands' \in [Session -> Seq(Command)] /\ \A q \in Session : Len(commands'[q]) <= CommandCap
        /\ asked' \in [Session -> BOOLEAN]
    <3>1. CASE UNCHANGED <<commands, asked>>
      BY <1>1, <3>1 DEF TypeOK
    <3>2. CASE /\ Len(commands[active]) < CommandCap
               /\ commands' = [commands EXCEPT ![active] = Append(@, "stop")]
               /\ asked' = [asked EXCEPT ![active] = TRUE]
      BY <1>1, <2>1, <3>2, QueueFacts DEF TypeOK
    <3> QED BY <1>5, <3>1, <3>2 DEF StopOnClose
  <2> QED BY <1>1, <1>5, <2>2
          DEF StopOnClose, TypedInv, TypeOK, LoopInv, EventsInv, pumpVars, outVars
<1>6. CASE Drained
  BY <1>1, <1>6 DEF Drained, TypedInv, TypeOK, LoopInv, EventsInv, bridgeVars, pumpVars, outVars
<1> QED BY <1>2, <1>3, <1>4, <1>5, <1>6 DEF LoopStep

\* The first event of s is taken, or all are dropped.
LEMMA TakeEvent ==
  ASSUME TypedInv, NEW s \in Session, events[s] # <<>>,
         events' = [events EXCEPT ![s] = IF link = "up" THEN Tail(@) ELSE <<>>]
  PROVE  /\ events' \in [Session -> Seq(Event)]
         /\ \A q \in Session : /\ events'[q] \in Seq(EventOf(q))
                               /\ Len(events'[q]) <= EventCap
                               /\ q # s => events'[q] = events[q]
         /\ link = "up" => events'[s] = Tail(events[s])
         /\ Head(events[s]) \in EventOf(s)
<1>1. /\ events \in [Session -> Seq(Event)]
      /\ \A q \in Session : events[q] \in Seq(EventOf(q)) /\ Len(events[q]) <= EventCap
  BY DEF TypedInv, TypeOK, EventsInv
<1>2. /\ Tail(events[s]) \in Seq(EventOf(s)) /\ Head(events[s]) \in EventOf(s)
      /\ Len(Tail(events[s])) = Len(events[s]) - 1 /\ Len(events[s]) \in Nat
  <2> DEFINE E == EventOf(s)
  <2> HIDE DEF E
  <2>1. events[s] \in Seq(E)
    BY <1>1 DEF E
  <2> QED BY <2>1, TailFacts DEF E
<1>3. <<>> \in Seq(EventOf(s)) /\ Len(<<>>) = 0
  OBVIOUS
<1> DEFINE new == IF link = "up" THEN Tail(events[s]) ELSE <<>>
<1>4. new \in Seq(EventOf(s)) /\ new \in Seq(Event) /\ Len(new) <= EventCap
  BY <1>1, <1>2, <1>3, WiderEvents
<1>5. events' = [events EXCEPT ![s] = new]
  OBVIOUS
<1>6. link = "up" => new = Tail(events[s])
  OBVIOUS
<1> HIDE DEF new
<1> QED BY <1>1, <1>2, <1>4, <1>5, <1>6

LEMMA PumpTyped ==
  ASSUME TypedInv, NEW s \in Session, PumpStep(s)
  PROVE  TypedInv'
<1>1. TypeOK /\ LoopInv /\ EventsInv
  BY DEF TypedInv
<1>2. CASE PumpEvent(s)
  <2>1. /\ events' \in [Session -> Seq(Event)] /\ Head(events[s]) \in Event
        /\ \A q \in Session : events'[q] \in Seq(EventOf(q)) /\ Len(events'[q]) <= EventCap
    BY <1>2, TakeEvent DEF PumpEvent, EventOf, Event
  <2>2. PumpMessage(s, Head(events[s])) \in Event \cup {"started", "done"}
    BY <2>1 DEF PumpMessage
  <2>3. sent' \in [Session -> Seq(Event \cup {"started", "done"})] /\ replies' = replies
    BY <1>2, <2>2, OutFacts DEF PumpEvent
  <2>4. pump' \in [Session -> {"none", "run", "end", "done"}]
    BY <1>1, <1>2 DEF PumpEvent, PumpNext, TypeOK
  <2>5. TypeOK'
    BY <1>1, <1>2, <2>1, <2>3, <2>4 DEF PumpEvent, TypeOK, loopVars, bridgeVars
  <2>6. LoopInv' /\ EventsInv'
    BY <1>1, <1>2, <2>1 DEF PumpEvent, LoopInv, EventsInv, loopVars, bridgeVars
  <2> QED BY <2>5, <2>6 DEF TypedInv
<1>3. CASE PumpEnded(s)
  <2>1. sent' \in [Session -> Seq(Event \cup {"started", "done"})] /\ replies' = replies
    BY <1>3, OutFacts DEF PumpEnded, Event
  <2>2. TypeOK'
    BY <1>1, <1>3, <2>1 DEF PumpEnded, TypeOK, loopVars, bridgeVars
  <2>3. LoopInv' /\ EventsInv'
    BY <1>1, <1>3 DEF PumpEnded, LoopInv, EventsInv, loopVars, bridgeVars
  <2> QED BY <2>2, <2>3 DEF TypedInv
<1>4. CASE PumpReturns(s)
  <2>1. TypeOK'
    BY <1>1, <1>4 DEF PumpReturns, TypeOK, loopVars, bridgeVars, outVars
  <2>2. LoopInv' /\ EventsInv'
    BY <1>1, <1>4 DEF PumpReturns, LoopInv, EventsInv, loopVars, bridgeVars
  <2> QED BY <2>1, <2>2 DEF TypedInv
<1> QED BY <1>2, <1>3, <1>4 DEF PumpStep

LEMMA DecideFacts ==
  ASSUME TypedInv, NEW s \in Session, NEW d, Decided(s, d), Decide(s, d)
  PROVE  /\ emit' \in [Session -> Seq(Event)] /\ fin' \in [Session -> BOOLEAN]
         /\ \A q \in Session : emit'[q] \in Seq(EventOf(q))
         /\ emit'[s] = d[1] /\ fin'[s] = d[2]
         /\ \A q \in Session \ {s} : emit'[q] = emit[q] /\ fin'[q] = fin[q]
<1>1. /\ emit \in [Session -> Seq(Event)] /\ fin \in [Session -> BOOLEAN]
      /\ \A q \in Session : emit[q] \in Seq(EventOf(q))
  BY DEF TypedInv, TypeOK, EventsInv
<1>2. d[1] \in Seq(EventOf(s)) /\ d[2] \in BOOLEAN /\ d[1] \in Seq(Event)
  BY WiderEvents DEF Decided
<1>3. emit' = [emit EXCEPT ![s] = d[1]] /\ fin' = [fin EXCEPT ![s] = d[2]]
  BY DEF Decide
<1> QED BY <1>1, <1>2, <1>3

\* What the bridge of s decides next, and what stays as it is.
LEMMA Deciding ==
  ASSUME NEW s \in Session, BridgeReceive(s) \/ BridgeHangup(s) \/ BridgePush(s), TypedInv
  PROVE  \E d : /\ Decided(s, d) /\ Decide(s, d)
                /\ BridgeHangup(s) /\ Provider[s] # "ws_tts" => d[1] = <<>>
<1>1. CASE BridgeReceive(s)
  <2>1. Head(commands[s]) \in Command
    BY <1>1, TailFacts, SessionsTyped DEF BridgeReceive
  <2>2. PICK d \in Reactions(Provider[s], Head(commands[s])) : Decide(s, d)
    BY <1>1 DEF BridgeReceive
  <2>3. Decided(s, d)
    BY <1>1, <2>1, ReactionFacts DEF BridgeReceive, Idle
  <2>4. ~BridgeHangup(s)
    BY <1>1 DEF BridgeReceive, BridgeHangup
  <2> QED BY <2>2, <2>3, <2>4
<1>2. CASE BridgeHangup(s)
  BY <1>2, HangupFacts DEF BridgeHangup
<1>3. CASE BridgePush(s) /\ ~BridgeHangup(s)
  BY <1>3, PushFacts DEF BridgePush
<1> QED BY <1>1, <1>2, <1>3

LEMMA BridgeTyped ==
  ASSUME TypedInv, NEW s \in Session, BridgeStep(s) \/ ProviderStep(s)
  PROVE  TypedInv'
<1>1. TypeOK /\ LoopInv /\ EventsInv
  BY DEF TypedInv
<1>2. CASE BridgeReceive(s) \/ BridgeHangup(s) \/ BridgePush(s)
  <2>1. /\ emit' \in [Session -> Seq(Event)] /\ fin' \in [Session -> BOOLEAN]
        /\ \A q \in Session : emit'[q] \in Seq(EventOf(q))
    BY <1>2, Deciding, DecideFacts
  <2>2. commands' \in [Session -> Seq(Command)] /\ \A q \in Session : Len(commands'[q]) <= CommandCap
    BY <1>1, <1>2, DequeueFacts DEF BridgeReceive, BridgeHangup, BridgePush, TypeOK
  <2>3. pushed' \in [Session -> 0..MaxPushed]
    <3>1. pushed' = pushed \/ (pushed[s] < MaxPushed /\ pushed' = [pushed EXCEPT ![s] = @ + 1])
      BY <1>2 DEF BridgeReceive, BridgeHangup, BridgePush
    <3>2. pushed \in [Session -> 0..MaxPushed]
      BY <1>1 DEF TypeOK
    <3>3. pushed[s] < MaxPushed => pushed[s] + 1 \in 0..MaxPushed
      BY <3>2
    <3> QED BY <3>1, <3>2, <3>3
  <2>4. TypeOK'
    BY <1>1, <1>2, <2>1, <2>2, <2>3
       DEF BridgeReceive, BridgeHangup, BridgePush, TypeOK, loopVars, pumpVars, outVars
  <2>5. LoopInv' /\ EventsInv'
    BY <1>1, <1>2, <2>1
       DEF BridgeReceive, BridgeHangup, BridgePush, LoopInv, EventsInv, loopVars, pumpVars
  <2> QED BY <2>4, <2>5 DEF TypedInv
<1>3. CASE BridgeEmit(s)
  <2>1. /\ emit \in [Session -> Seq(Event)] /\ events \in [Session -> Seq(Event)]
        /\ \A q \in Session : /\ emit[q] \in Seq(EventOf(q)) /\ events[q] \in Seq(EventOf(q))
                              /\ Len(events[q]) <= EventCap
    BY <1>1 DEF TypeOK, EventsInv
  <2>2. emit[s] # <<>>
    BY <1>3 DEF BridgeEmit
  <2> DEFINE E == EventOf(s)
             e == Head(emit[s])
  <2> HIDE DEF E
  <2>3. /\ e \in E /\ Tail(emit[s]) \in Seq(E) /\ <<>> \in Seq(E)
        /\ Append(events[s], e) \in Seq(E) /\ Len(Append(events[s], e)) = Len(events[s]) + 1
        /\ Len(events[s]) \in Nat
    <3>1. emit[s] \in Seq(E) /\ events[s] \in Seq(E)
      BY <2>1 DEF E
    <3>2. e \in E /\ Tail(emit[s]) \in Seq(E)
      BY <2>2, <3>1, TailFacts
    <3> HIDE DEF e
    <3> QED BY <3>1, <3>2, AppendFacts, EmptySeq
  <2>4. /\ Tail(emit[s]) \in Seq(Event) /\ <<>> \in Seq(Event) /\ Append(events[s], e) \in Seq(Event)
    BY <2>3, WiderEvents DEF E
  <2>5. PICK em \in {Tail(emit[s]), <<>>}, ev \in {Append(events[s], e), events[s]} :
          /\ emit' = [emit EXCEPT ![s] = em] /\ events' = [events EXCEPT ![s] = ev]
          /\ Len(ev) <= EventCap
    <3>1. CASE /\ Len(events[s]) < EventCap
               /\ events' = [events EXCEPT ![s] = Append(@, e)] /\ emit' = [emit EXCEPT ![s] = Tail(@)]
      BY <2>3, <3>1
    <3>2. CASE emit' = [emit EXCEPT ![s] = <<>>] /\ events' = events
      <4>1. events' = [events EXCEPT ![s] = events[s]]
        BY <2>1, <3>2
      <4> QED BY <2>1, <3>2, <4>1
    <3> QED BY <1>3, <3>1, <3>2 DEF BridgeEmit
  <2>6. fin' \in [Session -> BOOLEAN]
    BY <1>1, <1>3 DEF BridgeEmit, TypeOK
  <2>7. /\ em \in Seq(Event) /\ ev \in Seq(Event) /\ em \in Seq(EventOf(s)) /\ ev \in Seq(EventOf(s))
    <3>1. events[s] \in Seq(Event) /\ events[s] \in Seq(E)
      BY <2>1 DEF E
    <3>2. em \in Seq(Event) /\ em \in Seq(E)
      BY <2>3, <2>4, <2>5
    <3>3. ev \in Seq(Event) /\ ev \in Seq(E)
      BY <2>3, <2>4, <2>5, <3>1
    <3> QED BY <3>2, <3>3 DEF E
  <2>8. /\ emit' \in [Session -> Seq(Event)] /\ events' \in [Session -> Seq(Event)]
        /\ \A q \in Session : /\ emit'[q] \in Seq(EventOf(q)) /\ events'[q] \in Seq(EventOf(q))
                              /\ Len(events'[q]) <= EventCap
    BY <2>1, <2>5, <2>7
  <2>9. TypeOK'
    BY <1>1, <1>3, <2>6, <2>8 DEF BridgeEmit, TypeOK, loopVars, outVars
  <2>10. LoopInv' /\ EventsInv'
    BY <1>1, <1>3, <2>8 DEF BridgeEmit, LoopInv, EventsInv, loopVars
  <2> QED BY <2>9, <2>10 DEF TypedInv
<1>4. CASE BridgeReturn(s) \/ PipeEof(s) \/ PipeWrite(s) \/ PipeWriterReturns(s) \/ PipeBreaks(s)
  <2>1. commands' \in [Session -> Seq(Command)] /\ \A q \in Session : Len(commands'[q]) <= CommandCap
    <3>1. CASE commands' = commands
      BY <1>1, <3>1 DEF TypeOK
    <3>2. CASE \/ commands[s] # <<>> /\ commands' = [commands EXCEPT ![s] = Tail(@)]
               \/ commands' = [commands EXCEPT ![s] = <<>>]
      BY <3>2, DequeueFacts
    <3> QED BY <1>4, <3>1, <3>2 DEF BridgeReturn, PipeEof, PipeWrite, PipeWriterReturns, PipeBreaks
  <2>2. TypeOK'
    BY <1>1, <1>4, <2>1
       DEF BridgeReturn, PipeEof, PipeWrite, PipeWriterReturns, PipeBreaks, TypeOK, loopVars, pumpVars, outVars
  <2>3. LoopInv' /\ EventsInv'
    BY <1>1, <1>4
       DEF BridgeReturn, PipeEof, PipeWrite, PipeWriterReturns, PipeBreaks, LoopInv, EventsInv, loopVars, pumpVars
  <2> QED BY <2>2, <2>3 DEF TypedInv
<1> QED BY <1>2, <1>3, <1>4 DEF BridgeStep, ProviderStep

LEMMA SessionsStart == Init => TypedInv
<1> SUFFICES ASSUME Init PROVE TypedInv
  OBVIOUS
<1>1. \A S : <<>> \in Seq(S) /\ Len(<<>>) = 0
  OBVIOUS
<1>2. TypeOK
  BY <1>1 DEF Init, TypeOK, Command
<1>3. LoopInv /\ EventsInv
  BY <1>1 DEF Init, LoopInv, EventsInv
<1> QED BY <1>2, <1>3 DEF TypedInv

LEMMA TypedStep == TypedInv /\ [Next]_vars => TypedInv'
<1> SUFFICES ASSUME TypedInv, [Next]_vars PROVE TypedInv'
  OBVIOUS
<1>1. CASE UNCHANGED vars
  BY <1>1 DEF vars, loopVars, bridgeVars, pumpVars, outVars, TypedInv, TypeOK, LoopInv, EventsInv
<1> QED BY <1>1, ClientTyped, LoopTyped, PumpTyped, BridgeTyped DEF Next

\* One connection's loop, pumps and bridge tasks keep their variables' types, and
\* no channel exceeds its capacity (COMMAND_CHANNEL_CAPACITY and the like).
THEOREM ConnectionTypes == Spec => []TypeOK
<1>1. TypedInv => TypeOK
  BY DEF TypedInv
<1> QED BY <1>1, SessionsStart, TypedStep, PTL DEF Spec

-----------------------------------------------------------------------------
(* What TTS clients are sent.                                              *)

\* A pump that still reads events has sent neither tts.audio.done nor session.ended; one
\* that owes session.ended has sent tts.audio.done.
Totals(s) ==
  /\ \A i \in DOMAIN sent[s] :
       /\ pump[s] \in {"none", "run"} => sent[s][i] \notin {"done", "ended"}
       /\ pump[s] = "end" => sent[s][i] # "ended"
  /\ pump[s] = "end" => \E k \in DOMAIN sent[s] : sent[s][k] = "done"

Completion(s) ==
  \A i, j \in DOMAIN sent[s] :
    /\ sent[s][i] = "ended" =>
         /\ \E k \in 1..(i - 1) : sent[s][k] = "done"
         /\ i < j => sent[s][j] = "started"
    /\ sent[s][i] = "done" /\ i < j => sent[s][j] \in {"started", "ended"}

TtsInv == \A s \in TtsSession : Totals(s) /\ Completion(s)

\* A message more for a session of any kind.
LEMMA SentMore ==
  ASSUME TypedInv, NEW s \in Session, NEW m \in Event \cup {"started", "done"}, link = "up",
         sent'[s] = Append(sent[s], m)
  PROVE  /\ Len(sent[s]) \in Nat /\ DOMAIN sent[s] = 1..Len(sent[s])
         /\ DOMAIN sent'[s] = 1..(Len(sent[s]) + 1)
         /\ sent'[s] # <<>> /\ Len(sent'[s]) = Len(sent[s]) + 1
         /\ \A i \in 1..Len(sent[s]) : sent'[s][i] = sent[s][i]
         /\ sent'[s][Len(sent[s]) + 1] = m
<1> DEFINE M == Event \cup {"started", "done"}
<1>1. sent[s] \in Seq(M) /\ m \in M
  BY DEF TypedInv, TypeOK
<1> HIDE DEF M
<1>2. Len(sent'[s]) = Len(sent[s]) + 1 /\ Len(sent[s]) \in Nat
  BY <1>1, AppendFacts
<1>3. sent'[s] # <<>>
  <2>1. Append(sent[s], m) # <<>>
    BY <1>1, AppendProperties
  <2> QED BY <2>1
<1> QED BY <1>1, <1>2, <1>3, AppendFacts

\* Only a pump's ending and its messages matter.
LEMMA TtsUntouched ==
  ASSUME NEW s \in TtsSession, Totals(s), Completion(s), sent'[s] = sent[s],
         pump'[s] = pump[s] \/ pump'[s] = "done" \/ (pump[s] = "none" /\ pump'[s] = "run")
  PROVE  Totals(s)' /\ Completion(s)'
<1>1. Completion(s)'
  BY DEF Completion
<1>2. Totals(s)'
  BY DEF Totals
<1> QED BY <1>1, <1>2

LEMMA TtsStep == TypedInv /\ TtsInv /\ [Next]_vars => TtsInv'
<1> SUFFICES ASSUME TypedInv, TtsInv, [Next]_vars, NEW s \in TtsSession
             PROVE  Totals(s)' /\ Completion(s)'
  BY DEF TtsInv
<1>1. s \in Session /\ Totals(s) /\ Completion(s)
  BY DEF TtsInv, TtsSession
<1>2. pump \in [Session -> {"none", "run", "end", "done"}]
  BY DEF TypedInv, TypeOK
<1>3. ASSUME sent' = sent, pump' = pump PROVE Totals(s)' /\ Completion(s)'
  BY <1>1, <1>3, TtsUntouched
<1>4. ASSUME NEW m \in Event \cup {"started", "done"}, link = "up", sent'[s] = Append(sent[s], m),
             \/ pump'[s] = pump[s] /\ m = "started"
             \/ pump[s] = "run" /\ pump'[s] = "run" /\ m \notin {"done", "ended"}
             \/ pump[s] = "run" /\ pump'[s] = "end" /\ m = "done"
             \/ pump[s] = "end" /\ pump'[s] = "done" /\ m = "ended"
      PROVE  Totals(s)' /\ Completion(s)'
  <2> DEFINE n == Len(sent[s])
  <2>1. /\ n \in Nat /\ DOMAIN sent[s] = 1..n /\ DOMAIN sent'[s] = 1..(n + 1)
        /\ \A i \in 1..n : sent'[s][i] = sent[s][i]
        /\ sent'[s][n + 1] = m
    BY <1>1, <1>4, SentMore
  <2> HIDE DEF n
  <2>2. /\ \A i \in 1..n : /\ pump[s] \in {"none", "run"} => sent[s][i] \notin {"done", "ended"}
                           /\ pump[s] = "end" => sent[s][i] # "ended"
        /\ pump[s] = "end" => \E k \in 1..n : sent[s][k] = "done"
    BY <1>1, <2>1 DEF Totals
  <2>3. Totals(s)'
    <3>1. \A i \in 1..(n + 1) : /\ pump'[s] \in {"none", "run"} => sent'[s][i] \notin {"done", "ended"}
                                /\ pump'[s] = "end" => sent'[s][i] # "ended"
      BY <1>4, <2>1, <2>2
    <3>2. pump'[s] = "end" => \E k \in 1..(n + 1) : sent'[s][k] = "done"
      BY <1>4, <2>1, <2>2
    <3> QED BY <2>1, <3>1, <3>2 DEF Totals
  <2>4. Completion(s)'
    <3> SUFFICES ASSUME NEW i \in 1..(n + 1), NEW j \in 1..(n + 1)
                 PROVE  /\ sent'[s][i] = "ended" =>
                             /\ \E k \in 1..(i - 1) : sent'[s][k] = "done"
                             /\ i < j => sent'[s][j] = "started"
                        /\ sent'[s][i] = "done" /\ i < j => sent'[s][j] \in {"started", "ended"}
      BY <2>1 DEF Completion
    <3>1. CASE i = n + 1
      <4>1. ~(i < j)
        BY <2>1, <3>1
      <4>2. sent'[s][i] = "ended" => \E k \in 1..n : sent[s][k] = "done"
        BY <1>4, <2>1, <2>2, <3>1
      <4> QED BY <2>1, <3>1, <4>1, <4>2
    <3>2. CASE i \in 1..n
      <4>1. sent[s][i] = "ended" => \E k \in 1..(i - 1) : sent[s][k] = "done"
        BY <1>1, <2>1, <3>2 DEF Completion
      <4>2. \A k \in 1..(i - 1) : sent'[s][k] = sent[s][k]
        BY <2>1, <3>2
      <4>3. CASE j \in 1..n
        BY <1>1, <2>1, <3>2, <4>1, <4>2, <4>3 DEF Completion
      <4>4. CASE j = n + 1
        BY <1>4, <2>1, <2>2, <3>2, <4>1, <4>2, <4>4
      <4> QED BY <2>1, <4>3, <4>4
    <3> QED BY <2>1, <3>1, <3>2
  <2> QED BY <2>3, <2>4
<1>5. CASE ClientStep
  <2>1. CASE RefuseFrame \/ RefuseStart
    BY <1>3, <2>1 DEF RefuseFrame, RefuseStart, Refuse, pumpVars
  <2>2. CASE CloseFrame \/ ReadError \/ WriterFails \/ \E c \in Command : Forward(c)
    BY <1>3, <2>2 DEF CloseFrame, ReadError, WriterFails, Forward, pumpVars, outVars
  <2>3. ASSUME NEW q \in Session, StartStream(q) PROVE Totals(s)' /\ Completion(s)'
    <3>1. sent' = sent /\ pump' = [pump EXCEPT ![q] = "run"] /\ pump[q] = "none"
      BY <2>3 DEF StartStream, outVars
    <3> QED BY <1>1, <1>2, <3>1, TtsUntouched
  <2> QED BY <1>5, <2>1, <2>2, <2>3 DEF ClientStep
<1>6. CASE Announce
  <2>1. starting \in Session /\ Out(starting, "started") /\ pump' = pump
    BY <1>6 DEF Announce, TypedInv, TypeOK, LoopInv, pumpVars
  <2>2. sent'[s] = IF s = starting /\ link = "up" THEN Append(sent[s], "started") ELSE sent[s]
    BY <1>1, <2>1, OutFacts
  <2>3. CASE s = starting /\ link = "up"
    BY <1>4, <2>1, <2>2, <2>3
  <2>4. CASE ~(s = starting /\ link = "up")
    BY <1>1, <2>1, <2>2, <2>4, TtsUntouched
  <2> QED BY <2>3, <2>4
<1>7. CASE Accepted \/ Rejected \/ StopOnClose \/ Drained
  BY <1>3, <1>7 DEF Accepted, Rejected, StopOnClose, Drained, Refuse, pumpVars, outVars
<1>8. ASSUME NEW q \in Session, PumpEvent(q) PROVE Totals(s)' /\ Completion(s)'
  <2> DEFINE e == Head(events[q])
             m == PumpMessage(q, e)
  <2>1. e \in EventOf(q)
    BY <1>8, TakeEvent DEF PumpEvent
  <2>2. m \in Event \cup {"done"}
    BY <2>1 DEF PumpMessage, EventOf, Event
  <2>3. /\ sent'[s] = IF s = q /\ link = "up" THEN Append(sent[s], m) ELSE sent[s]
        /\ pump' = [pump EXCEPT ![q] = IF link = "up" THEN PumpNext(q, e) ELSE "done"]
        /\ pump[q] = "run"
    BY <1>1, <1>8, <2>2, OutFacts DEF PumpEvent
  <2>4. CASE s = q /\ link = "up"
    <3>1. pump'[s] = PumpNext(s, e) /\ m = PumpMessage(s, e) /\ e # "done"
      BY <1>1, <1>2, <2>1, <2>3, <2>4 DEF EventOf
    <3>2. \/ m = "done" /\ pump'[s] = "end"
          \/ m \notin {"done", "ended"} /\ pump'[s] = "run"
      BY <3>1 DEF PumpMessage, PumpNext
    <3> HIDE DEF m
    <3> QED BY <1>4, <2>2, <2>3, <2>4, <3>2
  <2>5. CASE ~(s = q /\ link = "up")
    BY <1>1, <1>2, <2>3, <2>5, TtsUntouched
  <2> QED BY <2>4, <2>5
<1>9. ASSUME NEW q \in Session, PumpEnded(q) PROVE Totals(s)' /\ Completion(s)'
  <2>1. /\ sent'[s] = IF s = q /\ link = "up" THEN Append(sent[s], "ended") ELSE sent[s]
        /\ pump' = [pump EXCEPT ![q] = "done"] /\ pump[q] = "end"
    BY <1>1, <1>9, OutFacts DEF PumpEnded, Event
  <2>2. CASE s = q /\ link = "up"
    BY <1>1, <1>2, <1>4, <2>1, <2>2 DEF Event
  <2>3. CASE ~(s = q /\ link = "up")
    BY <1>1, <1>2, <2>1, <2>3, TtsUntouched
  <2> QED BY <2>2, <2>3
<1>10. ASSUME NEW q \in Session, PumpReturns(q) PROVE Totals(s)' /\ Completion(s)'
  <2>1. sent' = sent /\ pump' = [pump EXCEPT ![q] = "done"]
    BY <1>10 DEF PumpReturns, outVars
  <2> QED BY <1>1, <1>2, <2>1, TtsUntouched
<1>11. ASSUME NEW q \in Session, BridgeStep(q) \/ ProviderStep(q) PROVE Totals(s)' /\ Completion(s)'
  <2>1. sent' = sent /\ pump' = pump
    BY <1>11 DEF BridgeStep, ProviderStep, BridgeReceive, BridgeHangup, BridgePush, BridgeEmit, BridgeReturn,
                 PipeEof, PipeWrite, PipeWriterReturns, PipeBreaks, pumpVars, outVars
  <2> QED BY <1>3, <2>1
<1>12. CASE UNCHANGED vars
  BY <1>3, <1>12 DEF vars, pumpVars, outVars
<1> QED BY <1>5, <1>6, <1>7, <1>8, <1>9, <1>10, <1>11, <1>12 DEF Next, LoopStep, PumpStep

\* TTS clients get tts.audio.done before session.ended, which comes once and last but for
\* session.started: "`tts.audio.done` arrives before `session.ended`" (docs/testing.md:108).
THEOREM CompletionOrder == Spec => []TtsCompletion
<1>1. Init => TtsInv
  <2> SUFFICES ASSUME Init, NEW s \in TtsSession PROVE Totals(s) /\ Completion(s)
    BY DEF TtsInv
  <2>1. sent[s] = <<>> /\ pump[s] = "none"
    BY DEF Init, TtsSession
  <2>2. DOMAIN sent[s] = {}
    BY <2>1
  <2> QED BY <2>1, <2>2 DEF Totals, Completion
<1>2. TtsInv => TtsCompletion
  BY DEF TtsInv, Completion, TtsCompletion
<1> QED BY <1>1, <1>2, SessionsStart, TypedStep, TtsStep, PTL DEF Spec

-----------------------------------------------------------------------------
(* The documented order, for bridges that only answer.                     *)

Fresh(s) ==
  /\ sent[s] = <<>> /\ commands[s] = <<>> /\ events[s] = <<>>
  /\ emit[s] = <<>> /\ ~fin[s]

\* The bridge will send nothing more.
Finished(s) == emit[s] = <<>> /\ (fin[s] \/ ~evOpen[s])

\* Nothing happens in a session before session.started is sent.
Opened(s) ==
  /\ pump[s] = "none" => Fresh(s) /\ ~cmdOpen[s] /\ ~evOpen[s] /\ starting # s
  /\ starting = s => Fresh(s) /\ pump[s] = "run" /\ evOpen[s]
  /\ link = "up" /\ pump[s] # "none" /\ starting # s => sent[s] # <<>>
  /\ cmdOpen[s] => evOpen[s]

\* Ended is the bridge's last event, and what the client is sent for it comes last.
Ending(s) ==
  /\ EndsLast(emit[s], fin[s])
  /\ \A i \in DOMAIN events[s] : events[s][i] = "ended" => i = Len(events[s]) /\ Finished(s)
  /\ s \notin TtsSession =>
       \A i \in DOMAIN sent[s] : /\ sent[s][i] # "done"
                                 /\ sent[s][i] = "ended" => events[s] = <<>> /\ Finished(s)
  /\ pump[s] = "end" =>
       s \in TtsSession /\ sent[s] # <<>> /\ sent[s][Len(sent[s])] = "done"

Orderly(s) == Opened(s) /\ Ending(s)

OrderInv == \A s \in Answering : Orderly(s)

LEMMA AnsweringFacts ==
  ASSUME NEW s \in Answering
  PROVE  s \in Session /\ Provider[s] # "ws_tts" /\ Provider[s] \notin Pipe /\ ~ProviderStep(s)
<1>1. s \in Session /\ Pushes(Provider[s]) = {}
  BY DEF Answering
<1>2. Provider[s] # "ws_tts"
  BY <1>1 DEF Pushes, Pipe, WsTtsPushes
<1>3. Provider[s] \notin Pipe
  BY <1>1 DEF Pushes, Pipe, BridgeLines
<1>4. ~ProviderStep(s)
  BY <1>1, <1>3 DEF ProviderStep, BridgePush, PipeWrite, PipeEof, PipeBreaks
<1> QED BY <1>1, <1>2, <1>3, <1>4

LEMMA Untouched ==
  ASSUME NEW s \in Answering, Orderly(s),
         sent'[s] = sent[s], commands'[s] = commands[s], events'[s] = events[s], emit'[s] = emit[s],
         fin'[s] = fin[s], cmdOpen'[s] = cmdOpen[s], evOpen'[s] = evOpen[s], pump'[s] = pump[s],
         starting' = s <=> starting = s, link' = "up" => link = "up"
  PROVE  Orderly(s)'
<1>1. Opened(s)'
  BY DEF Orderly, Opened, Fresh
<1>2. Ending(s)'
  BY DEF Orderly, Ending, Finished, EndsLast
<1> QED BY <1>1, <1>2 DEF Orderly

\* A command more or less for a session that has been started.
LEMMA CommandsOnly ==
  ASSUME NEW s \in Answering, Orderly(s), cmdOpen[s], starting # s,
         sent'[s] = sent[s], events'[s] = events[s], emit'[s] = emit[s], fin'[s] = fin[s],
         cmdOpen'[s] = cmdOpen[s], evOpen'[s] = evOpen[s], pump'[s] = pump[s],
         starting' = starting, link' = link
  PROVE  Orderly(s)'
<1>1. Opened(s)'
  BY DEF Orderly, Opened
<1>2. Ending(s)'
  BY DEF Orderly, Ending, Finished, EndsLast
<1> QED BY <1>1, <1>2 DEF Orderly

LEMMA OrderlyClient ==
  ASSUME TypedInv, NEW s \in Answering, Orderly(s), ClientStep
  PROVE  Orderly(s)'
<1>1. CASE RefuseFrame \/ RefuseStart
  BY <1>1, Untouched DEF RefuseFrame, RefuseStart, Refuse, bridgeVars, pumpVars
<1>2. CASE CloseFrame \/ ReadError \/ WriterFails \/ \E c \in Command : Forward(c)
  BY <1>2, Untouched DEF CloseFrame, ReadError, WriterFails, Forward, bridgeVars, pumpVars, outVars, loopVars
<1>3. ASSUME NEW q \in Session, StartStream(q) PROVE Orderly(s)'
  <2>1. starting = NoSession /\ s # NoSession /\ s \in Session
    BY <1>3, AnsweringFacts DEF StartStream, TypedInv, LoopInv
  <2>2. /\ cmdOpen \in [Session -> BOOLEAN] /\ evOpen \in [Session -> BOOLEAN]
        /\ pump \in [Session -> {"none", "run", "end", "done"}]
    BY DEF TypedInv, TypeOK
  <2>3. CASE q # s
    BY <1>3, <2>1, <2>2, <2>3, Untouched DEF StartStream, outVars
  <2>4. CASE q = s
    <3>1. Fresh(s)
      BY <1>3, <2>4 DEF StartStream, Orderly, Opened
    <3>2. /\ Fresh(s)' /\ pump'[s] = "run" /\ cmdOpen'[s] /\ evOpen'[s] /\ starting' = s
          /\ DOMAIN sent'[s] = {} /\ DOMAIN events'[s] = {} /\ DOMAIN emit'[s] = {}
      BY <1>3, <2>1, <2>2, <2>4, <3>1 DEF StartStream, Fresh, outVars
    <3> QED BY <3>2 DEF Orderly, Opened, Ending, EndsLast
  <2> QED BY <2>3, <2>4
<1> QED BY <1>1, <1>2, <1>3 DEF ClientStep

LEMMA OrderlyLoop ==
  ASSUME TypedInv, NEW s \in Answering, Orderly(s), LoopStep
  PROVE  Orderly(s)'
<1>1. s \in Session /\ s # NoSession
  BY AnsweringFacts
<1>2. CASE Announce
  <2>1. starting \in Session /\ Out(starting, "started") /\ starting' = NoSession
    BY <1>2 DEF Announce, TypedInv, TypeOK, LoopInv
  <2>2. sent'[s] = IF s = starting /\ link = "up" THEN Append(sent[s], "started") ELSE sent[s]
    BY <1>1, <2>1, OutFacts
  <2>3. CASE s # starting
    BY <1>1, <1>2, <2>1, <2>2, <2>3, Untouched DEF Announce, bridgeVars, pumpVars
  <2>4. CASE s = starting
    <3>1. Fresh(s) /\ pump[s] = "run" /\ evOpen[s]
      BY <2>4 DEF Orderly, Opened
    <3>2. /\ commands' = commands /\ events' = events /\ emit' = emit /\ fin' = fin
          /\ cmdOpen' = cmdOpen /\ evOpen' = evOpen /\ pump' = pump /\ link' = link
      BY <1>2 DEF Announce, bridgeVars, pumpVars
    <3>3. \A i \in DOMAIN sent'[s] : sent'[s][i] = "started"
      <4>1. CASE link = "up"
        <5>1. sent'[s] = <<"started">>
          BY <2>2, <2>4, <3>1, <4>1 DEF Fresh
        <5> QED BY <5>1
      <4>2. CASE link # "up"
        <5>1. sent'[s] = <<>>
          BY <2>2, <3>1, <4>2 DEF Fresh
        <5> QED BY <5>1
      <4> QED BY <4>1, <4>2
    <3>4. link = "up" => sent'[s] # <<>>
      BY <1>1, <2>2, <2>4, SentMore
    <3>5. Opened(s)'
      BY <1>1, <2>1, <3>1, <3>2, <3>4 DEF Opened
    <3>6. DOMAIN events[s] = {} /\ DOMAIN emit[s] = {}
      BY <3>1 DEF Fresh
    <3>7. Ending(s)'
      BY <3>1, <3>2, <3>3, <3>6 DEF Ending, EndsLast
    <3> QED BY <3>5, <3>7 DEF Orderly
  <2> QED BY <2>3, <2>4
<1>3. CASE Accepted \/ StopOnClose
  <2>1. starting = NoSession /\ active \in Session /\ pending \in Command /\ "stop" \in Command
    BY <1>3 DEF Accepted, StopOnClose, TypedInv, LoopInv, TypeOK, Command
  <2>2. /\ sent' = sent /\ events' = events /\ emit' = emit /\ fin' = fin /\ starting' = starting
        /\ cmdOpen' = cmdOpen /\ evOpen' = evOpen /\ pump' = pump /\ link' = link
    BY <1>3 DEF Accepted, StopOnClose, pumpVars, outVars
  <2>3. commands' = commands \/ (cmdOpen[active] /\ \A q \in Session \ {active} : commands'[q] = commands[q])
    BY <1>3, <2>1, QueueFacts DEF Accepted, StopOnClose
  <2>4. CASE commands'[s] = commands[s]
    BY <2>2, <2>4, Untouched
  <2>5. CASE s = active /\ cmdOpen[active]
    BY <1>1, <2>1, <2>2, <2>5, CommandsOnly
  <2> QED BY <1>1, <2>3, <2>4, <2>5
<1>4. CASE Rejected \/ Drained
  BY <1>4, Untouched DEF Rejected, Drained, Refuse, bridgeVars, pumpVars, outVars
<1> QED BY <1>2, <1>3, <1>4 DEF LoopStep

LEMMA OrderlyPump ==
  ASSUME TypedInv, NEW s \in Answering, Orderly(s), PumpStep(s)
  PROVE  Orderly(s)'
<1>1. s \in Session /\ pump \in [Session -> {"none", "run", "end", "done"}]
  BY AnsweringFacts DEF TypedInv, TypeOK
<1>2. UNCHANGED <<starting, commands, cmdOpen, emit, fin, evOpen, link>>
  BY DEF PumpStep, PumpEvent, PumpEnded, PumpReturns, loopVars, bridgeVars
<1>3. starting # s /\ pump[s] # "none"
  BY DEF PumpStep, PumpEvent, PumpEnded, PumpReturns, Orderly, Opened, Fresh
<1>4. CASE PumpEvent(s)
  <2> DEFINE e == Head(events[s])
             m == PumpMessage(s, e)
  <2>1. events[s] # <<>> /\ pump[s] = "run"
    BY <1>4 DEF PumpEvent
  <2>2. e \in EventOf(s) /\ events'[s] = IF link = "up" THEN Tail(events[s]) ELSE <<>>
    BY <1>1, <1>4, TakeEvent DEF PumpEvent, TypedInv, TypeOK
  <2>3. m \in Event \cup {"done"} /\ (m = "done" <=> e = "ended" /\ s \in TtsSession)
        /\ (m = "ended" <=> e = "ended" /\ s \notin TtsSession)
    BY <2>2 DEF PumpMessage, EventOf, Event
  <2>4. sent'[s] = IF link = "up" THEN Append(sent[s], m) ELSE sent[s]
    BY <1>1, <1>4, <2>3, OutFacts DEF PumpEvent
  <2>5. pump'[s] = IF link = "up" THEN PumpNext(s, e) ELSE "done"
    BY <1>1, <1>4 DEF PumpEvent
  <2> HIDE DEF e, m
  <2>6. CASE link = "up"
    <3>1. Opened(s)'
      <4>1. sent'[s] # <<>>
        BY <1>1, <2>3, <2>4, <2>6, SentMore
      <4>2. pump'[s] # "none"
        BY <2>5, <2>6 DEF PumpNext
      <4> QED BY <1>2, <1>3, <4>1, <4>2 DEF Orderly, Opened
    <3>2. events[s] \in Seq(Event) /\ \A i \in DOMAIN events[s] : events[s][i] = "ended" => i = Len(events[s]) /\ Finished(s)
      BY <1>1 DEF TypedInv, TypeOK, Orderly, Ending
    <3>3. /\ e = events[s][1] /\ Len(events[s]) \in Nat \ {0} /\ DOMAIN events[s] = 1..Len(events[s])
          /\ events'[s] \in Seq(Event) /\ Len(events'[s]) = Len(events[s]) - 1
          /\ DOMAIN events'[s] = 1..Len(events'[s])
          /\ \A i \in 1..Len(events'[s]) : events'[s][i] = events[s][i + 1]
      BY <2>1, <2>2, <2>6, <3>2, TailFacts DEF e
    <3>4. \A i \in DOMAIN events'[s] : events'[s][i] = "ended" => i = Len(events'[s]) /\ Finished(s)
      <4> SUFFICES ASSUME NEW i \in 1..Len(events'[s]), events'[s][i] = "ended"
                   PROVE  i = Len(events'[s]) /\ Finished(s)
        BY <3>3
      <4>1. i + 1 \in 1..Len(events[s]) /\ events[s][i + 1] = "ended"
        BY <3>3
      <4>2. i + 1 = Len(events[s]) /\ Finished(s)
        BY <3>2, <3>3, <4>1
      <4> QED BY <3>3, <4>2
    <3>5. e = "ended" => events'[s] = <<>> /\ Finished(s)
      <4>1. e = "ended" => Len(events'[s]) = 0 /\ Finished(s)
        <5>1. 1 \in 1..Len(events[s])
          BY <3>3
        <5>2. e = "ended" => 1 = Len(events[s]) /\ Finished(s)
          BY <3>2, <3>3, <5>1
        <5> QED BY <3>3, <5>2
      <4> QED BY <3>3, <4>1, EmptySeq
    <3>6. /\ DOMAIN sent'[s] = 1..(Len(sent[s]) + 1) /\ Len(sent[s]) \in Nat /\ DOMAIN sent[s] = 1..Len(sent[s])
          /\ \A i \in 1..Len(sent[s]) : sent'[s][i] = sent[s][i]
          /\ sent'[s] # <<>> /\ sent'[s][Len(sent'[s])] = m /\ sent'[s][Len(sent[s]) + 1] = m
      BY <1>1, <2>3, <2>4, <2>6, SentMore
    <3>7. s \notin TtsSession =>
            \A i \in DOMAIN sent'[s] : /\ sent'[s][i] # "done"
                                       /\ sent'[s][i] = "ended" => events'[s] = <<>> /\ Finished(s)
      <4> SUFFICES ASSUME s \notin TtsSession, NEW i \in DOMAIN sent'[s]
                   PROVE  sent'[s][i] # "done" /\ (sent'[s][i] = "ended" => events'[s] = <<>> /\ Finished(s))
        OBVIOUS
      <4>1. CASE i \in 1..Len(sent[s])
        BY <2>1, <3>6, <4>1 DEF Orderly, Ending
      <4>2. CASE i = Len(sent[s]) + 1
        BY <2>3, <3>5, <3>6, <4>2
      <4> QED BY <3>6, <4>1, <4>2
    <3>8. pump'[s] = "end" => s \in TtsSession /\ sent'[s] # <<>> /\ sent'[s][Len(sent'[s])] = "done"
      BY <2>3, <2>5, <2>6, <3>6 DEF PumpNext
    <3>9. Finished(s)' <=> Finished(s)
      BY <1>2 DEF Finished
    <3>10. EndsLast(emit[s], fin[s])'
      BY <1>2 DEF Orderly, Ending, EndsLast
    <3> QED BY <3>1, <3>4, <3>7, <3>8, <3>9, <3>10 DEF Orderly, Ending
  <2>7. CASE link # "up"
    <3>1. Opened(s)'
      BY <1>2, <1>3, <2>5, <2>7 DEF Orderly, Opened
    <3>2. DOMAIN events'[s] = {} /\ sent'[s] = sent[s] /\ events'[s] = <<>> /\ pump'[s] = "done"
      BY <2>2, <2>4, <2>5, <2>7
    <3>3. Finished(s)' <=> Finished(s)
      BY <1>2 DEF Finished
    <3> QED BY <1>2, <3>1, <3>2, <3>3 DEF Orderly, Ending, EndsLast
  <2> QED BY <2>6, <2>7
<1>5. CASE PumpEnded(s)
  <2>1. s \in TtsSession /\ sent[s] # <<>> /\ pump'[s] = "done" /\ events' = events
    BY <1>1, <1>5 DEF PumpEnded, Orderly, Ending
  <2>2. sent'[s] # <<>>
    <3>1. sent'[s] = IF link = "up" THEN Append(sent[s], "ended") ELSE sent[s]
      BY <1>1, <1>5, OutFacts DEF PumpEnded, Event
    <3> QED BY <1>1, <2>1, <3>1, SentMore DEF Event
  <2>3. Opened(s)'
    BY <1>2, <1>3, <2>1, <2>2 DEF Orderly, Opened
  <2>4. Ending(s)'
    BY <1>2, <2>1 DEF Orderly, Ending, EndsLast, Finished
  <2> QED BY <2>3, <2>4 DEF Orderly
<1>6. CASE PumpReturns(s)
  <2>1. pump'[s] = "done" /\ events' = events /\ sent' = sent
    BY <1>1, <1>6 DEF PumpReturns, outVars
  <2>2. Opened(s)'
    BY <1>2, <1>3, <2>1 DEF Orderly, Opened
  <2>3. Ending(s)'
    BY <1>2, <2>1 DEF Orderly, Ending, EndsLast, Finished
  <2> QED BY <2>2, <2>3 DEF Orderly
<1> QED BY <1>4, <1>5, <1>6 DEF PumpStep

\* The bridge of s decides: nothing it sent before was its last event.
LEMMA OrderlyDecision ==
  ASSUME TypedInv, NEW s \in Answering, Orderly(s), BridgeReceive(s) \/ BridgeHangup(s)
  PROVE  Orderly(s)'
<1>1. s \in Session /\ Provider[s] # "ws_tts" /\ Provider[s] \notin Pipe
  BY AnsweringFacts
<1>2. PICK d : Decided(s, d) /\ Decide(s, d) /\ (BridgeHangup(s) => d[1] = <<>>)
  BY <1>1, Deciding
<1>3. emit'[s] = d[1] /\ fin'[s] = d[2] /\ EndsLast(d[1], d[2])
  BY <1>1, <1>2, DecideFacts DEF Decided
<1>4. /\ UNCHANGED <<starting, cmdOpen, events, evOpen, pump, sent, link>>
      /\ Idle(s)
  BY DEF BridgeReceive, BridgeHangup, loopVars, pumpVars, outVars
<1>5. starting # s
  BY DEF BridgeReceive, BridgeHangup, Held, Orderly, Opened, Fresh
<1>6. pump[s] # "none" /\ evOpen[s] /\ ~Finished(s)
  BY <1>4 DEF Idle, Orderly, Opened, Finished
<1>7. Opened(s)'
  BY <1>4, <1>5, <1>6 DEF Orderly, Opened
<1>8. Ending(s)'
  BY <1>3, <1>4, <1>6 DEF Orderly, Ending
<1> QED BY <1>7, <1>8 DEF Orderly

LEMMA OrderlyEmit ==
  ASSUME TypedInv, NEW s \in Answering, Orderly(s), BridgeEmit(s)
  PROVE  Orderly(s)'
<1>1. /\ s \in Session /\ emit[s] \in Seq(Event) /\ events[s] \in Seq(Event) /\ fin \in [Session -> BOOLEAN]
      /\ emit \in [Session -> Seq(Event)] /\ events \in [Session -> Seq(Event)]
  BY AnsweringFacts DEF TypedInv, TypeOK
<1>2. UNCHANGED <<starting, cmdOpen, commands, evOpen, pump, sent, link>> /\ evOpen[s] /\ emit[s] # <<>>
  BY DEF BridgeEmit, loopVars, outVars
<1>3. starting # s /\ pump[s] # "none" /\ ~Finished(s)
  BY <1>2 DEF Orderly, Opened, Fresh, Finished
<1>4. Opened(s)'
  BY <1>2, <1>3 DEF Orderly, Opened
<1>5. /\ \A i \in DOMAIN events[s] : events[s][i] # "ended"
      /\ s \notin TtsSession => \A i \in DOMAIN sent[s] : sent[s][i] \notin {"done", "ended"}
  BY <1>3 DEF Orderly, Ending
<1>6. CASE /\ events' = [events EXCEPT ![s] = Append(@, Head(emit[s]))]
           /\ emit' = [emit EXCEPT ![s] = Tail(@)] /\ fin' = fin
  <2>1. events'[s] = Append(events[s], Head(emit[s])) /\ emit'[s] = Tail(emit[s])
    BY <1>1, <1>6
  <2> DEFINE e == Head(emit[s])
  <2>2. /\ e \in Event /\ e = emit[s][1] /\ Len(emit[s]) \in Nat \ {0} /\ DOMAIN emit[s] = 1..Len(emit[s])
        /\ emit'[s] \in Seq(Event) /\ Len(emit'[s]) = Len(emit[s]) - 1 /\ DOMAIN emit'[s] = 1..Len(emit'[s])
        /\ \A i \in 1..Len(emit'[s]) : emit'[s][i] = emit[s][i + 1]
    BY <1>1, <1>2, <2>1, TailFacts
  <2>3. \A i \in 1..Len(emit[s]) : emit[s][i] = "ended" => i = Len(emit[s]) /\ fin[s]
    BY <2>2 DEF Orderly, Ending, EndsLast
  <2>4. EndsLast(emit'[s], fin'[s])
    BY <1>6, <2>2, <2>3 DEF EndsLast
  <2>5. e = "ended" => Finished(s)'
    <3>1. e = "ended" => Len(emit'[s]) = 0 /\ fin[s]
      <4>1. 1 \in 1..Len(emit[s])
        BY <2>2
      <4>2. e = "ended" => 1 = Len(emit[s]) /\ fin[s]
        BY <2>2, <2>3, <4>1
      <4> QED BY <2>2, <4>2
    <3>2. e = "ended" => emit'[s] = <<>> /\ fin'[s]
      BY <1>6, <2>2, <3>1, EmptySeq
    <3> QED BY <3>2 DEF Finished
  <2>6. /\ Len(events[s]) \in Nat /\ DOMAIN events[s] = 1..Len(events[s])
        /\ DOMAIN events'[s] = 1..(Len(events[s]) + 1) /\ Len(events'[s]) = Len(events[s]) + 1
        /\ \A i \in 1..Len(events[s]) : events'[s][i] = events[s][i]
        /\ events'[s][Len(events[s]) + 1] = e
    BY <1>1, <2>1, <2>2, AppendFacts
  <2> HIDE DEF e
  <2>7. \A i \in DOMAIN events'[s] : events'[s][i] = "ended" => i = Len(events'[s]) /\ Finished(s)'
    BY <1>5, <2>5, <2>6
  <2>8. Ending(s)'
    BY <1>2, <1>5, <2>4, <2>7 DEF Orderly, Ending
  <2> QED BY <1>4, <2>8 DEF Orderly
<1>7. CASE /\ emit' = [emit EXCEPT ![s] = <<>>] /\ fin' = [fin EXCEPT ![s] = TRUE] /\ events' = events
  <2>1. emit'[s] = <<>> /\ fin'[s] /\ DOMAIN emit'[s] = {}
    BY <1>1, <1>7
  <2>2. Ending(s)'
    BY <1>2, <1>5, <1>7, <2>1 DEF Orderly, Ending, EndsLast
  <2> QED BY <1>4, <2>2 DEF Orderly
<1> QED BY <1>6, <1>7 DEF BridgeEmit

LEMMA OrderlyReturn ==
  ASSUME TypedInv, NEW s \in Answering, Orderly(s), BridgeReturn(s)
  PROVE  Orderly(s)'
<1>1. /\ s \in Session /\ evOpen \in [Session -> BOOLEAN] /\ fin \in [Session -> BOOLEAN]
      /\ cmdOpen \in [Session -> BOOLEAN] /\ Provider[s] \notin Pipe
  BY AnsweringFacts DEF TypedInv, TypeOK
<1>2. UNCHANGED <<starting, emit, events, pump, sent, link>> /\ emit[s] = <<>> /\ fin[s] /\ evOpen[s]
  BY DEF BridgeReturn, loopVars, outVars
<1>3. ~evOpen'[s] /\ ~fin'[s] /\ ~cmdOpen'[s]
  BY <1>1 DEF BridgeReturn
<1>4. starting # s /\ pump[s] # "none" /\ Finished(s) /\ Finished(s)'
  BY <1>2, <1>3 DEF Orderly, Opened, Fresh, Finished
<1>5. Opened(s)'
  BY <1>2, <1>3, <1>4 DEF Orderly, Opened
<1>6. DOMAIN emit'[s] = {}
  BY <1>2
<1>7. Ending(s)'
  BY <1>2, <1>4, <1>6 DEF Orderly, Ending, EndsLast
<1> QED BY <1>5, <1>7 DEF Orderly

\* What the tasks of one session do leaves the others alone.
LEMMA OthersUntouched ==
  ASSUME TypedInv, NEW q \in Session, PumpStep(q) \/ BridgeStep(q) \/ ProviderStep(q),
         NEW s \in Session \ {q}
  PROVE  /\ sent'[s] = sent[s] /\ commands'[s] = commands[s] /\ events'[s] = events[s]
         /\ emit'[s] = emit[s] /\ fin'[s] = fin[s] /\ cmdOpen'[s] = cmdOpen[s]
         /\ evOpen'[s] = evOpen[s] /\ pump'[s] = pump[s] /\ starting' = starting /\ link' = link
<1>1. /\ commands \in [Session -> Seq(Command)] /\ cmdOpen \in [Session -> BOOLEAN]
      /\ emit \in [Session -> Seq(Event)] /\ fin \in [Session -> BOOLEAN]
      /\ events \in [Session -> Seq(Event)] /\ evOpen \in [Session -> BOOLEAN]
      /\ pump \in [Session -> {"none", "run", "end", "done"}]
      /\ sent \in [Session -> Seq(Event \cup {"started", "done"})]
  BY DEF TypedInv, TypeOK
<1>2. CASE PumpEvent(q)
  BY <1>1, <1>2 DEF PumpEvent, Out, loopVars, bridgeVars
<1>3. CASE PumpEnded(q) \/ PumpReturns(q)
  BY <1>1, <1>3 DEF PumpEnded, PumpReturns, Out, loopVars, bridgeVars, outVars
<1>4. CASE BridgeReceive(q) \/ BridgeHangup(q) \/ BridgePush(q)
  BY <1>1, <1>4 DEF BridgeReceive, BridgeHangup, BridgePush, Decide, loopVars, pumpVars, outVars
<1>5. CASE BridgeEmit(q)
  BY <1>1, <1>5 DEF BridgeEmit, loopVars, outVars
<1>6. CASE BridgeReturn(q)
  BY <1>1, <1>6 DEF BridgeReturn, loopVars, outVars
<1>7. CASE PipeEof(q) \/ PipeWrite(q) \/ PipeWriterReturns(q) \/ PipeBreaks(q)
  BY <1>1, <1>7 DEF PipeEof, PipeWrite, PipeWriterReturns, PipeBreaks, loopVars, pumpVars, outVars
<1> QED BY <1>2, <1>3, <1>4, <1>5, <1>6, <1>7 DEF PumpStep, BridgeStep, ProviderStep

LEMMA OrderStep == TypedInv /\ OrderInv /\ [Next]_vars => OrderInv'
<1> SUFFICES ASSUME TypedInv, OrderInv, [Next]_vars, NEW s \in Answering PROVE Orderly(s)'
  BY DEF OrderInv
<1>1. Orderly(s) /\ s \in Session /\ ~ProviderStep(s) /\ Provider[s] \notin Pipe
  BY AnsweringFacts DEF OrderInv
<1>2. CASE ClientStep \/ LoopStep
  BY <1>1, <1>2, OrderlyClient, OrderlyLoop
<1>3. CASE PumpStep(s) \/ BridgeStep(s)
  BY <1>1, <1>3, OrderlyPump, OrderlyDecision, OrderlyEmit, OrderlyReturn
     DEF BridgeStep, PipeWriterReturns
<1>4. ASSUME NEW q \in Session \ {s}, PumpStep(q) \/ BridgeStep(q) \/ ProviderStep(q) PROVE Orderly(s)'
  BY <1>1, <1>4, OthersUntouched, Untouched
<1>5. CASE UNCHANGED vars
  BY <1>1, <1>5, Untouched DEF vars, loopVars, bridgeVars, pumpVars, outVars
<1> QED BY <1>1, <1>2, <1>3, <1>4, <1>5 DEF Next

\* Every step sends the client of an answering bridge what the protocol allows next, or
\* nothing.
LEMMA ProtocolStep ==
  ASSUME TypedInv, OrderInv, TtsInv, [Next]_vars
  PROVE  [Protocol!Next]_([s \in Answering |-> sent[s]])
<1> DEFINE log == [s \in Answering |-> sent[s]]
<1>1. CASE \A s \in Answering : sent'[s] = sent[s]
  BY <1>1
<1>2. ASSUME NEW q \in Session, NEW m \in Event \cup {"started", "done"}, Out(q, m)
      PROVE  /\ q \notin Answering \/ link # "up" => \A s \in Answering : sent'[s] = sent[s]
             /\ q \in Answering /\ link = "up" => log' = [log EXCEPT ![q] = Append(@, m)]
  <2>1. \A s \in Session : sent'[s] = IF s = q /\ link = "up" THEN Append(sent[q], m) ELSE sent[s]
    BY <1>2, OutFacts
  <2> QED BY <2>1 DEF Answering
<1>3. CASE Announce
  <2>1. PICK q \in Session : q = starting
    BY <1>3 DEF Announce, TypedInv, TypeOK, LoopInv
  <2>2. Out(q, "started")
    BY <1>3, <2>1 DEF Announce, Out
  <2>3. CASE q \in Answering /\ link = "up"
    <3>1. log[q] = <<>>
      BY <2>1, <2>3 DEF OrderInv, Orderly, Opened, Fresh
    <3>2. log' = [log EXCEPT ![q] = Append(@, "started")]
      BY <1>2, <2>2, <2>3
    <3>3. Protocol!Started(q)
      BY <3>1, <3>2 DEF Protocol!Started, Protocol!Send
    <3> QED BY <2>3, <3>3 DEF Protocol!Next
  <2> QED BY <1>1, <1>2, <2>2, <2>3
<1>4. ASSUME NEW q \in Session, PumpEvent(q) PROVE [Protocol!Next]_log
  <2> DEFINE e == Head(events[q])
             m == PumpMessage(q, e)
  <2>1. e \in EventOf(q) /\ events[q] # <<>> /\ pump[q] = "run"
    BY <1>4, TakeEvent DEF PumpEvent
  <2>2. m \in Event \cup {"done"} /\ Out(q, m)
    BY <1>4, <2>1 DEF PumpEvent, PumpMessage, EventOf, Event
  <2>3. CASE q \in Answering /\ link = "up"
    <3>1. log' = [log EXCEPT ![q] = Append(@, m)]
      BY <1>2, <2>2, <2>3
    <3>2. Orderly(q)
      BY <2>3 DEF OrderInv
    <3>3. sent[q] # <<>>
      BY <2>1, <2>3, <3>2 DEF Orderly, Opened, Fresh
    <3>4. sent[q][Len(sent[q])] \notin {"done", "ended"}
      <4>1. Len(sent[q]) \in DOMAIN sent[q]
        <5>1. sent[q] \in Seq(Event \cup {"started", "done"})
          BY DEF TypedInv, TypeOK
        <5> QED BY <3>3, <5>1, EmptySeq, LenProperties
      <4>2. CASE q \in TtsSession
        BY <2>1, <4>1, <4>2 DEF TtsInv, Totals
      <4>3. CASE q \notin TtsSession
        BY <2>1, <3>2, <4>1, <4>3 DEF Orderly, Ending
      <4> QED BY <4>2, <4>3
    <3>5. Protocol!Live(q)
      BY <2>3, <3>3, <3>4 DEF Protocol!Live
    <3> HIDE DEF log, m
    <3>6. Protocol!Send(q, m)
      BY <3>1 DEF Protocol!Send, log
    <3>7. CASE m = "done"
      <4>1. q \in TtsSession
        BY <2>1, <3>7 DEF m, PumpMessage, EventOf
      <4>2. Protocol!Send(q, "done")
        BY <3>1, <3>7 DEF Protocol!Send, log
      <4>3. Protocol!Done(q)
        BY <3>5, <4>1, <4>2 DEF Protocol!Done
      <4> QED BY <2>3, <4>3 DEF Protocol!Next
    <3>8. CASE m = "ended"
      <4>1. q \notin TtsSession
        BY <3>8 DEF m, PumpMessage
      <4>2. Protocol!Send(q, "ended")
        BY <3>1, <3>8 DEF Protocol!Send, log
      <4>3. Protocol!Ended(q)
        BY <3>5, <4>1, <4>2 DEF Protocol!Ended
      <4> QED BY <2>3, <4>3 DEF Protocol!Next
    <3>9. CASE m \in {"partial", "final", "audio", "error"}
      <4>1. (m = "audio" => q \in TtsSession) /\ (m \in {"partial", "final"} => q \notin TtsSession)
        BY <2>1, <3>9 DEF m, PumpMessage, EventOf
      <4>2. Protocol!Deliver(q, m)
        BY <3>5, <3>6, <4>1 DEF Protocol!Deliver
      <4> QED BY <2>3, <3>9, <4>2 DEF Protocol!Next
    <3> QED BY <2>2, <3>7, <3>8, <3>9 DEF Event
  <2> HIDE DEF m
  <2> QED BY <1>1, <1>2, <2>2, <2>3
<1>5. ASSUME NEW q \in Session, PumpEnded(q) PROVE [Protocol!Next]_log
  <2>1. Out(q, "ended") /\ pump[q] = "end" /\ "ended" \in Event
    BY <1>5 DEF PumpEnded, Event
  <2>2. CASE q \in Answering /\ link = "up"
    <3>1. log' = [log EXCEPT ![q] = Append(@, "ended")]
      BY <1>2, <2>1, <2>2
    <3>2. q \in TtsSession /\ log[q] # <<>> /\ log[q][Len(log[q])] = "done"
      BY <2>1, <2>2 DEF OrderInv, Orderly, Ending
    <3>3. Protocol!Ended(q)
      BY <3>1, <3>2 DEF Protocol!Ended, Protocol!Send
    <3> QED BY <2>2, <3>3 DEF Protocol!Next
  <2> QED BY <1>1, <1>2, <2>1, <2>2
<1>6. CASE ClientStep \/ (LoopStep /\ ~Announce)
  <2>1. sent' = sent
    BY <1>6 DEF ClientStep, LoopStep, RefuseFrame, RefuseStart, CloseFrame, ReadError, WriterFails, StartStream,
                Forward, Accepted, Rejected, StopOnClose, Drained, Refuse, outVars
  <2> QED BY <1>1, <2>1
<1>7. ASSUME NEW q \in Session, PumpReturns(q) \/ BridgeStep(q) \/ ProviderStep(q) PROVE [Protocol!Next]_log
  <2>1. sent' = sent
    BY <1>7 DEF PumpReturns, BridgeStep, ProviderStep, BridgeReceive, BridgeHangup, BridgePush, BridgeEmit,
                BridgeReturn, PipeEof, PipeWrite, PipeWriterReturns, PipeBreaks, outVars
  <2> QED BY <1>1, <2>1
<1>8. CASE UNCHANGED vars
  BY <1>1, <1>8 DEF vars, outVars
<1> QED BY <1>3, <1>4, <1>5, <1>6, <1>7, <1>8 DEF Next, PumpStep

\* A client whose session is served by a bridge that answers commands is sent what the
\* documented protocol allows, in its order, however many sessions the connection has.
THEOREM SessionsFollowProtocol == Spec => FollowsProtocol
<1>1. Init => OrderInv /\ TtsInv /\ Protocol!Init
  <2> SUFFICES ASSUME Init PROVE OrderInv /\ TtsInv /\ Protocol!Init
    OBVIOUS
  <2>1. \A s \in Session : /\ sent[s] = <<>> /\ events[s] = <<>> /\ emit[s] = <<>> /\ commands[s] = <<>>
                           /\ ~fin[s] /\ ~cmdOpen[s] /\ ~evOpen[s] /\ pump[s] = "none" /\ starting # s
    BY DEF Init
  <2>2. DOMAIN <<>> = {}
    OBVIOUS
  <2>3. OrderInv
    BY <2>1, <2>2 DEF OrderInv, Orderly, Opened, Ending, Fresh, EndsLast, Answering
  <2>4. TtsInv
    BY <2>1, <2>2 DEF TtsInv, Totals, Completion, TtsSession
  <2>5. Protocol!Init
    BY <2>1 DEF Protocol!Init, Answering
  <2> QED BY <2>3, <2>4, <2>5
<1> QED BY <1>1, SessionsStart, TypedStep, TtsStep, OrderStep, ProtocolStep, PTL
        DEF Spec, FollowsProtocol, Protocol!Spec
=============================================================================
