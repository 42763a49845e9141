-------------------------- MODULE LocalAgentProofs --------------------------
(* Proofs about the local agent and its Apple helper, for any sessions,      *)
(* connections and bounds of the helper.                                     *)
EXTENDS AppleLocalAgent, TLAPS

USE LocalAssumption

(* With TypeOK the inductive invariant: a pump that has something to forward
   runs, and a session that was never started has none. *)
PumpInv ==
  /\ MappedIsPumped
  /\ pc # "down" => conns # 0
  /\ \A s \in Session :
       /\ hand[s] # "none" => pump[s] = "run"
       /\ home[s] = 0 => pump[s] = "none"

AgentInv == TypeOK /\ PumpInv

LEMMA AgentStarts == Init => AgentInv
<1> SUFFICES ASSUME Init PROVE AgentInv
  OBVIOUS
<1> QED BY DEF Init, AgentInv, TypeOK, PumpInv, MappedIsPumped, Conn, Event

\* The loop of the agent and its handlers.
LEMMA LoopKeeps ==
  ASSUME AgentInv,
         \/ Connect \/ LoopStep \/ LeaveLoop \/ ReadError \/ AnswerOnly
         \/ \E n \in Conn : GatewayCloses(n)
         \/ \E s \in Session : StartSession(s) \/ PushCommand(s)
  PROVE  AgentInv'
<1> USE DEF AgentInv, TypeOK, PumpInv, MappedIsPumped, Conn, Event, connVars
<1>1. CASE Connect \/ HelloOk \/ Drained \/ LeaveLoop \/ ReadError
  BY <1>1 DEF Connect, HelloOk, Drained, LeaveLoop, ReadError
<1>2. CASE Pushed
  BY <1>2 DEF Pushed, Write
<1>3. CASE AnswerOnly
  BY <1>3 DEF AnswerOnly, Write
<1>4. ASSUME NEW n \in Conn, GatewayCloses(n) PROVE AgentInv'
  BY <1>4 DEF GatewayCloses
<1>5. ASSUME NEW s \in Session, StartSession(s) PROVE AgentInv'
  <2>1. home' \in [Session -> 0..MaxConns] /\ writer' \in [Conn -> {"up", "down"}]
    BY <1>5 DEF StartSession, Write
  <2>2. /\ hand' = hand /\ \A r \in Session : r # s => home'[r] = home[r] /\ pump'[r] = pump[r]
        /\ home'[s] # 0 /\ pc' = "loop" /\ conns' # 0
        /\ hand[s] = "none"
    BY <1>5 DEF StartSession
  <2>3. /\ helper' \in [Session -> {"none", "run", "refused", "eof", "exited"}]
        /\ pump' \in [Session -> {"none", "run", "done"}] /\ map' \subseteq Session
        /\ \A r \in map' : r = s \/ r \in map
        /\ s \in map' => pump'[s] = "run"
    BY <1>5 DEF StartSession
  <2>4. TypeOK'
    BY <1>5, <2>1, <2>3 DEF StartSession
  <2>5. PumpInv'
    BY <1>5, <2>2, <2>3 DEF StartSession
  <2> QED BY <2>4, <2>5
<1>6. ASSUME NEW s \in Session, PushCommand(s) PROVE AgentInv'
  BY <1>6 DEF PushCommand
<1> QED BY <1>1, <1>2, <1>3, <1>4, <1>5, <1>6 DEF LoopStep

\* The pump of a session and its helper.
LEMMA PumpKeeps ==
  ASSUME AgentInv, NEW s \in Session,
         \/ PumpStep(s) \/ CloseStdin(s) \/ HelperRefuses(s) \/ HelperExits(s)
         \/ \E e \in Event : PumpReceives(s, e)
  PROVE  AgentInv'
<1> USE DEF AgentInv, TypeOK, PumpInv, MappedIsPumped, Conn, Event, connVars
<1>1. CASE PumpSends(s)
  <2>1. writer' \in [Conn -> {"up", "down"}]
    BY <1>1 DEF PumpSends, Write
  <2>2. CASE UNCHANGED <<pump, map>>
    BY <1>1, <2>1, <2>2 DEF PumpSends
  <2>3. CASE pump' = [pump EXCEPT ![s] = "done"] /\ map' = map \ {s}
    BY <1>1, <2>1, <2>3 DEF PumpSends
  <2> QED BY <1>1, <2>2, <2>3 DEF PumpSends
<1>2. CASE PumpReturns(s)
  BY <1>2 DEF PumpReturns
<1>3. CASE CloseStdin(s) \/ HelperRefuses(s) \/ HelperExits(s)
  BY <1>3 DEF CloseStdin, HelperRefuses, HelperExits
<1>4. ASSUME NEW e \in Event, PumpReceives(s, e) PROVE AgentInv'
  BY <1>4 DEF PumpReceives
<1> QED BY <1>1, <1>2, <1>3, <1>4 DEF PumpStep

LEMMA AgentStep == AgentInv /\ [Next]_vars => AgentInv'
<1> SUFFICES ASSUME AgentInv, [Next]_vars PROVE AgentInv'
  OBVIOUS
<1>1. CASE UNCHANGED vars
  BY <1>1 DEF vars, AgentInv, TypeOK, PumpInv, MappedIsPumped
<1> QED BY <1>1, LoopKeeps, PumpKeeps DEF Next

LEMMA AgentInductive == Spec => []AgentInv
<1> QED BY AgentStep, AgentStarts, PTL DEF Spec

\* The agent's state is of the declared types (run_local_agent_once).
THEOREM AgentTypes == Spec => []TypeOK
<1> QED BY AgentInductive, PTL DEF AgentInv

\* A controller in the sessions map is one that a running pump will take out
\* (handle_gateway_message: the map is left before SessionEnded is sent).
THEOREM MappedPumped == Spec => []MappedIsPumped
<1> QED BY AgentInductive, PTL DEF AgentInv, PumpInv

-----------------------------------------------------------------------------
(* The agent with an Apple helper.                                         *)

\* What a step of the helper or its pipes is to the agent.
LEMMA HelperStep ==
  ASSUME NEW s \in Session, Helper(s)
  PROVE  \/ UNCHANGED vars \/ CloseStdin(s) \/ HelperRefuses(s) \/ HelperExits(s)
         \/ \E e \in Event : PumpReceives(s, e)
<1>1. CASE Reader(s)
  BY <1>1 DEF Reader, Reads, Skips, PipeBreaks, Gone, With, Alone
<1>2. CASE Main(s)
  BY <1>2 DEF Main, Refused, With
<1> QED BY <1>1, <1>2 DEF Helper, With

LEMMA AppleStep == [AppleNext]_allVars => [Next]_vars
<1> SUFFICES ASSUME [AppleNext]_allVars PROVE [Next]_vars
  OBVIOUS
<1>1. CASE UNCHANGED allVars
  BY <1>1 DEF allVars
<1>2. CASE AgentLoop
  BY <1>2 DEF AgentLoop, Push, Alone, With, Next, LoopStep
<1>3. CASE \/ Alone((conns = 0 \/ served = {}) /\ Connect)
           \/ Alone(LeaveLoop \/ ReadError \/ AnswerOnly)
           \/ \E n \in Conn : Alone(GatewayCloses(n))
  BY <1>3 DEF Alone, Next
<1>4. ASSUME NEW s \in Session, Start(s) \/ Alone(PushCommand(s) \/ PumpStep(s))
      PROVE  Next
  BY <1>4 DEF Start, Alone, Next
<1>5. ASSUME NEW s \in Session, Helper(s) PROVE [Next]_vars
  BY <1>5, HelperStep DEF Next
<1>6. ASSUME NEW s \in Session, Alone(OtherHelper(s)) PROVE Next
  BY <1>6 DEF Alone, OtherHelper, Next
<1> QED BY <1>1, <1>2, <1>3, <1>4, <1>5, <1>6 DEF AppleNext

\* An Apple helper with its pipes is one of the helpers that the agent was
\* modelled with, whatever its tasks and its recognition do.
THEOREM AppleIsAHelper == AppleSpec => Spec
<1>1. AppleInit => Init
  BY DEF AppleInit
<1> QED BY <1>1, AppleStep, PTL DEF AppleSpec, Spec

-----------------------------------------------------------------------------
(* The types of the helper's state.                                        *)

USE AppleAssumption

HelperAction ==
  \/ Apple!Launch \/ Apple!Close \/ Apple!ReadLine \/ Apple!Die
  \/ \E command \in Apple!Command : Apple!Give(command)
  \/ Apple!Refuse \/ Apple!Accept \/ Apple!LoopStep
  \/ \E t \in Apple!Task : Apple!TaskStep(t)
  \/ \E t \in Apple!Call, report \in Apple!Report : Apple!Callback(t, report)

\* A step of the agent with its helper is an action of the helper or none.
LEMMA ActionOrNone ==
  ASSUME [AppleNext]_allVars
  PROVE  HelperAction \/ UNCHANGED helperVars
<1>1. CASE UNCHANGED allVars
  BY <1>1 DEF allVars
<1>2. CASE AgentLoop
  BY <1>2 DEF AgentLoop, Push, Alone, With, HelperAction
<1>3. ASSUME NEW s \in Session, Start(s) PROVE HelperAction \/ UNCHANGED helperVars
  BY <1>3 DEF Start, HelperAction
<1>4. ASSUME NEW s \in Session, Helper(s) PROVE HelperAction \/ UNCHANGED helperVars
  <2>1. CASE Reader(s)
    BY <2>1 DEF Reader, Reads, Skips, PipeBreaks, Gone, With, Alone, HelperAction
  <2>2. CASE Main(s)
    BY <2>2 DEF Main, Refused, With, HelperAction, Apple!Task
  <2> QED BY <1>4, <2>1, <2>2 DEF Helper, With, HelperAction, Apple!Task
<1> QED BY <1>1, <1>2, <1>3, <1>4 DEF AppleNext, Alone

Typed(f) == f \in [Apple!Task -> Apple!TaskState]

\* A task that is given a line, or none, keeps the types.
LEMMA TaskTyped ==
  ASSUME Typed(task), NEW t \in Apple!Task
  PROVE  /\ \A line \in Apple!Line : Apple!Sending(t, line) => Typed(task')
         /\ Apple!Done(t) => Typed(task')
         /\ task[t].at = "sending" /\ task' = [task EXCEPT ![t].at = "sent"] => Typed(task')
         /\ task' = [task EXCEPT ![t] = Apple!Asking] => Typed(task')
<1> USE DEF Typed
<1>1. Apple!Idle \in Apple!TaskState /\ Apple!Asking \in Apple!TaskState
  BY DEF Apple!TaskState
<1>2. ASSUME NEW line \in Apple!Line, Apple!Sending(t, line) PROVE Typed(task')
  <2>1. [at |-> "sending", line |-> line] \in Apple!TaskState
    BY DEF Apple!TaskState
  <2> QED BY <1>2, <2>1 DEF Apple!Sending
<1>3. Apple!Done(t) => Typed(task')
  BY <1>1 DEF Apple!Done
<1>4. task[t].at = "sending" /\ task' = [task EXCEPT ![t].at = "sent"] => Typed(task')
  <2>1. task[t].at = "sending" => [task[t] EXCEPT !.at = "sent"] \in Apple!TaskState
    BY DEF Apple!TaskState, Apple!Idle, Apple!Asking
  <2> QED BY <2>1
<1>5. task' = [task EXCEPT ![t] = Apple!Asking] => Typed(task')
  BY <1>1
<1> QED BY <1>2, <1>3, <1>4, <1>5

TakesInput ==
  /\ Apple!TakeAudio \/ Apple!TakeCommit
  /\ UNCHANGED <<known, ended, recognizer>>

LEMMA TypesKept ==
  ASSUME Apple!TypeOK, HelperAction
  PROVE  Apple!TypeOK'
<1> USE DEF Apple!TypeOK
<1>0. /\ Typed(task) /\ Apple!Loop \in Apple!Task
      /\ Apple!Report \subseteq Apple!Line
      /\ {"bridge.ready", "asr.started", "asr.committed", "asr.ended", "error"} \subseteq Apple!Line
  BY DEF Typed, Apple!Task, Apple!Line, Apple!Report
<1>1. CASE Apple!Launch
  BY <1>0, <1>1, TaskTyped DEF Apple!Launch, Typed
<1>2. CASE Apple!Close
  BY <1>2 DEF Apple!Close
<1>3. CASE Apple!ReadLine
  BY <1>3 DEF Apple!ReadLine
<1>4. ASSUME NEW command \in Apple!Command, Apple!Give(command) PROVE Apple!TypeOK'
  BY <1>4 DEF Apple!Give
<1>5. ASSUME Apple!Vanish PROVE Apple!TypeOK'
  <2>1. Apple!Idle \in Apple!TaskState
    BY DEF Apple!TaskState
  <2>2. <<>> \in Seq(Apple!Command) /\ Len(<<>>) = 0
    OBVIOUS
  <2>3. stdin' \in Seq(Apple!Command) /\ Len(stdin') <= MaxIn
    BY <1>5, <2>2 DEF Apple!Vanish
  <2> QED BY <1>5, <2>1, <2>3 DEF Apple!Vanish
<1>6. CASE Apple!Refuse \/ Apple!Accept
  BY <1>0, <1>6, TaskTyped DEF Apple!Refuse, Apple!Accept, Typed
<1>7. ASSUME NEW t \in Apple!Task, Apple!End(t)
      PROVE  /\ Typed(task') /\ ended' \in BOOLEAN
             /\ recognizer' \in {"none", "live", "cancelled", "over"}
  BY <1>0, <1>7, TaskTyped DEF Apple!End, Apple!Cancel
<1>8. CASE Apple!LoopStep
  <2>1. CASE Apple!Exit
    BY <1>5, <2>1 DEF Apple!Exit
  <2>2. CASE Apple!TakeCommand
    <3>1. stdin' \in Seq(Apple!Command) /\ Len(stdin') <= MaxIn
      BY <2>2 DEF Apple!TakeCommand
    <3>2. /\ Typed(task') /\ known' \in BOOLEAN /\ ended' \in BOOLEAN
          /\ recognizer' \in {"none", "live", "cancelled", "over"}
      <4>1. CASE TakesInput
        <5>1. Apple!TakeAudio \/ Apple!TakeCommit => Typed(task')
          BY <1>0, TaskTyped DEF Apple!TakeAudio, Apple!TakeCommit
        <5> QED BY <4>1, <5>1 DEF TakesInput
      <4>2. CASE Apple!TakeStop
        <5>1. CASE known' = ~ended /\ Apple!End(Apple!Loop)
          BY <1>0, <1>7, <5>1
        <5>2. CASE Apple!Sending(Apple!Loop, "error") /\ UNCHANGED <<known, ended, recognizer>>
          BY <1>0, <5>2, TaskTyped
        <5> QED BY <4>2, <5>1, <5>2 DEF Apple!TakeStop
      <4> QED BY <2>2, <4>1, <4>2 DEF Apple!TakeCommand, TakesInput
    <3> QED BY <2>2, <3>1, <3>2 DEF Apple!TakeCommand, Typed
  <2> QED BY <1>8, <2>1, <2>2 DEF Apple!LoopStep
<1>9. ASSUME NEW t \in Apple!Task, Apple!WriteLine(t) PROVE Apple!TypeOK'
  <2>1. Typed(task')
    BY <1>0, <1>9, TaskTyped DEF Apple!WriteLine
  <2>2. task[t].line \in Apple!Line
    BY <1>9 DEF Apple!WriteLine, Apple!TaskState, Apple!Idle, Apple!Asking
  <2> QED BY <1>9, <2>1, <2>2 DEF Apple!WriteLine, Typed
<1>10. ASSUME NEW t \in Apple!Task, Apple!Resume(t) PROVE Apple!TypeOK'
  BY <1>0, <1>7, <1>10, TaskTyped DEF Apple!Resume, Typed
<1>11. ASSUME NEW t \in Apple!Call, NEW report \in Apple!Report, Apple!Callback(t, report)
       PROVE  Apple!TypeOK'
  <2>1. t \in Apple!Task
    BY DEF Apple!Task
  <2> QED BY <1>0, <1>11, <2>1, TaskTyped DEF Apple!Callback, Typed
<1> QED BY <1>1, <1>2, <1>3, <1>4, <1>5, <1>6, <1>8, <1>9, <1>10, <1>11
        DEF HelperAction, Apple!TaskStep, Apple!Die

LEMMA HelperTyped == AppleSpec => []Apple!TypeOK
<1>1. AppleInit => Apple!TypeOK
  <2> SUFFICES ASSUME Apple!Init PROVE Apple!TypeOK
    BY DEF AppleInit
  <2>1. <<>> \in Seq(Apple!Command) /\ <<>> \in Seq(Apple!Line) /\ Len(<<>>) = 0
    OBVIOUS
  <2>2. task \in [Apple!Task -> Apple!TaskState]
    BY DEF Apple!Init, Apple!TaskState
  <2>3. Len(stdin) <= MaxIn /\ Len(stdout) <= MaxOut
    BY <2>1 DEF Apple!Init
  <2> QED BY <2>1, <2>2, <2>3 DEF Apple!Init, Apple!TypeOK
<1>2. Apple!TypeOK /\ [AppleNext]_allVars => Apple!TypeOK'
  <2> SUFFICES ASSUME Apple!TypeOK, [AppleNext]_allVars PROVE Apple!TypeOK'
    OBVIOUS
  <2>1. CASE UNCHANGED helperVars
    BY <2>1 DEF helperVars, Apple!TypeOK
  <2> QED BY <2>1, ActionOrNone, TypesKept
<1> QED BY <1>1, <1>2, PTL DEF AppleSpec

-----------------------------------------------------------------------------
(* The end of a session is told once.                                      *)

Ending(t) == t \in Apple!Task /\ task[t].at = "sending" /\ task[t].line = "asr.ended"

Piped(i) == i \in DOMAIN stdout /\ stdout[i] = "asr.ended"

Told == pump[WithApple] = "run" /\ WithApple \notin map

NotTold == ~Told /\ (\A i : ~Piped(i)) /\ (\A t : ~Ending(t))

(* The end is with one task, or in one place of the pipe, or told; it is nowhere
   before it was decided. *)
EndInOnePlace ==
  /\ process = "off" => pump[WithApple] = "none" /\ stdout = <<>>
  /\ process # "gone" /\ ~ended => NotTold
  /\ \A t, u : Ending(t) /\ Ending(u) => t = u
  /\ \A i, j : Piped(i) /\ Piped(j) => i = j
  /\ \A t, i : ~(Ending(t) /\ Piped(i))
  /\ \A t : Ending(t) => ~Told
  /\ \A i : Piped(i) => ~Told

OnceInv == served \in {{}, {WithApple}} /\ (served # {} => EndInOnePlace)

(* Steps of the agent that tell nothing, and of the helper that end nothing. *)
AgentQuiet ==
  /\ Told' => Told
  /\ pump[WithApple] = "none" => pump'[WithApple] = "none"

HelperQuiet ==
  /\ \A t : Ending(t)' => Ending(t)
  /\ \A i : Piped(i)' => Piped(i)
  /\ process' # "gone" /\ ~ended' => process # "gone" /\ ~ended
  /\ process' = "off" => process = "off" /\ stdout' = stdout

LEMMA QuietKeeps ==
  ASSUME EndInOnePlace, AgentQuiet, HelperQuiet
  PROVE  EndInOnePlace'
BY DEF EndInOnePlace, NotTold, AgentQuiet, HelperQuiet

\* Agent steps.
LEMMA AgentIsQuiet ==
  ASSUME AgentInv,
         \/ UNCHANGED vars
         \/ Connect \/ LoopStep \/ LeaveLoop \/ ReadError \/ AnswerOnly
         \/ \E n \in Conn : GatewayCloses(n)
         \/ \E s \in Session :
              \/ PushCommand(s) \/ PumpStep(s)
              \/ CloseStdin(s) \/ HelperRefuses(s) \/ HelperExits(s)
              \/ PumpReceives(s, "result")
              \/ s # WithApple /\ PumpReceives(s, "ended")
         \/ StartSession(WithApple) /\ helper'[WithApple] # "run"
  PROVE  AgentQuiet
<1> USE DEF AgentInv, TypeOK, PumpInv, AgentQuiet, Told, connVars
<1>1. CASE \/ UNCHANGED vars \/ Connect \/ LoopStep \/ LeaveLoop \/ ReadError \/ AnswerOnly
           \/ \E n \in Conn : GatewayCloses(n)
  BY <1>1 DEF vars, Connect, LoopStep, HelloOk, Pushed, Drained, LeaveLoop, ReadError, AnswerOnly,
              GatewayCloses
<1>2. ASSUME NEW s \in Session,
             PushCommand(s) \/ CloseStdin(s) \/ HelperRefuses(s) \/ HelperExits(s)
      PROVE  AgentQuiet
  BY <1>2 DEF PushCommand, CloseStdin, HelperRefuses, HelperExits
<1>3. ASSUME NEW s \in Session, PumpStep(s) PROVE AgentQuiet
  BY <1>3 DEF PumpStep, PumpSends, PumpReturns
<1>4. ASSUME NEW s \in Session,
             PumpReceives(s, "result") \/ (s # WithApple /\ PumpReceives(s, "ended"))
      PROVE  AgentQuiet
  BY <1>4 DEF PumpReceives
<1>5. CASE StartSession(WithApple) /\ helper'[WithApple] # "run"
  BY <1>5 DEF StartSession
<1> QED BY <1>1, <1>2, <1>3, <1>4, <1>5

\* Helper steps.
LEMMA UnchangedIsQuiet == UNCHANGED helperVars => HelperQuiet
BY DEF helperVars, HelperQuiet, Ending, Piped

LEMMA LineIsQuiet ==
  ASSUME Apple!TypeOK, NEW t \in Apple!Task,
         \/ \E line : line # "asr.ended" /\ Apple!Sending(t, line)
         \/ Apple!Done(t)
         \/ task' = [task EXCEPT ![t] = Apple!Asking]
         \/ UNCHANGED task,
         UNCHANGED <<process, ended, stdout>>
  PROVE  HelperQuiet
<1>1. ASSUME NEW f, f.at # "sending" \/ f.line # "asr.ended", task' = [task EXCEPT ![t] = f]
      PROVE  \A u : Ending(u)' => Ending(u)
  BY <1>1 DEF Ending, Apple!TypeOK
<1>2. ASSUME NEW line, line # "asr.ended", Apple!Sending(t, line)
      PROVE  \A u : Ending(u)' => Ending(u)
  BY <1>2, <1>1 DEF Apple!Sending
<1>3. \A u : Ending(u)' => Ending(u)
  <2>1. CASE UNCHANGED task
    BY <2>1 DEF Ending
  <2>2. CASE Apple!Done(t)
    BY <1>1, <2>2 DEF Apple!Done, Apple!Idle
  <2>3. CASE task' = [task EXCEPT ![t] = Apple!Asking]
    BY <1>1, <2>3 DEF Apple!Asking
  <2> QED BY <1>2, <2>1, <2>2, <2>3
<1> QED BY <1>3 DEF HelperQuiet, Piped

LEMMA VanishIsQuiet == Apple!Vanish => HelperQuiet
<1> SUFFICES ASSUME Apple!Vanish PROVE HelperQuiet
  OBVIOUS
<1>1. \A u : ~Ending(u)'
  BY DEF Ending, Apple!Vanish, Apple!Idle
<1> QED BY <1>1 DEF HelperQuiet, Piped, Apple!Vanish

\* Steps that decide the end, write a line or read one.
LEMMA EndKeeps ==
  ASSUME Apple!TypeOK, EndInOnePlace, AgentQuiet, process = "run",
         NEW t \in Apple!Task, Apple!End(t), UNCHANGED <<process, stdout>>
  PROVE  EndInOnePlace'
<1>1. CASE ended
  BY <1>1, LineIsQuiet, QuietKeeps DEF Apple!End
<1>2. CASE ~ended
  <2>1. NotTold /\ ended' = TRUE /\ Apple!Sending(t, "asr.ended")
    BY <1>2 DEF EndInOnePlace, Apple!End
  <2>2. \A u : Ending(u)' => u = t
    BY <2>1 DEF Apple!Sending, Ending, NotTold, Apple!TypeOK
  <2>3. (\A i : ~Piped(i)') /\ ~Told'
    BY <2>1 DEF NotTold, Piped, AgentQuiet
  <2> QED BY <2>1, <2>2, <2>3 DEF EndInOnePlace
<1> QED BY <1>1, <1>2

LEMMA WriteKeeps ==
  ASSUME Apple!TypeOK, EndInOnePlace, AgentQuiet,
         NEW t \in Apple!Task, Apple!WriteLine(t)
  PROVE  EndInOnePlace'
<1>1. \A u : Ending(u)' => Ending(u) /\ u # t
  <2>1. task' = [task EXCEPT ![t].at = "sent"] \/ task' = [task EXCEPT ![t] = Apple!Idle]
    BY DEF Apple!WriteLine, Apple!Done
  <2>2. \A u \in Apple!Task : u # t => task'[u] = task[u]
    BY <2>1 DEF Apple!TypeOK
  <2>3. task'[t].at # "sending"
    <3>1. task[t] \in [at : {"sending", "sent"}, line : Apple!Line]
      BY DEF Apple!TypeOK, Apple!WriteLine, Apple!TaskState, Apple!Idle, Apple!Asking
    <3>2. CASE task' = [task EXCEPT ![t].at = "sent"]
      <4>1. task'[t] = [task[t] EXCEPT !.at = "sent"]
        BY <3>2 DEF Apple!TypeOK
      <4>2. [task[t] EXCEPT !.at = "sent"].at = "sent"
        BY <3>1
      <4> QED BY <4>1, <4>2
    <3>3. CASE task' = [task EXCEPT ![t] = Apple!Idle]
      <4>1. task'[t] = Apple!Idle
        BY <3>3 DEF Apple!TypeOK
      <4> QED BY <4>1 DEF Apple!Idle
    <3> QED BY <2>1, <3>2, <3>3
  <2> QED BY <2>2, <2>3 DEF Ending
<1>2. /\ DOMAIN stdout = 1..Len(stdout) /\ DOMAIN stdout' = 1..(Len(stdout) + 1)
      /\ Len(stdout) \in Nat
      /\ \A i \in DOMAIN stdout : stdout'[i] = stdout[i]
      /\ stdout'[Len(stdout) + 1] = task[t].line
  BY DEF Apple!WriteLine, Apple!TypeOK
<1>3. \A i : Piped(i)' => Piped(i) \/ (i = Len(stdout) + 1 /\ Ending(t))
  BY <1>2 DEF Piped, Ending, Apple!WriteLine
<1>4. process = "run" /\ UNCHANGED <<process, ended>>
  BY DEF Apple!WriteLine
<1> QED BY <1>1, <1>3, <1>4 DEF EndInOnePlace, NotTold, AgentQuiet

LEMMA ReadKeeps ==
  ASSUME Apple!TypeOK, EndInOnePlace, Apple!ReadLine,
         AgentQuiet \/ (Head(stdout) = "asr.ended" /\ pump[WithApple] = "run")
  PROVE  EndInOnePlace'
<1>1. /\ stdout # <<>> /\ DOMAIN stdout = 1..Len(stdout) /\ Len(stdout) \in Nat \ {0}
      /\ DOMAIN stdout' = 1..(Len(stdout) - 1)
      /\ \A i \in DOMAIN stdout' : stdout'[i] = stdout[i + 1]
      /\ Head(stdout) = stdout[1]
  BY DEF Apple!ReadLine, Apple!TypeOK
<1>2. \A i : Piped(i)' => i \in Nat \ {0} /\ Piped(i + 1)
  BY <1>1 DEF Piped
<1>3. \A u : Ending(u)' = Ending(u)
  BY DEF Ending, Apple!ReadLine
<1>4. UNCHANGED <<process, ended>>
  BY DEF Apple!ReadLine
<1>5. process # "off"
  BY <1>1 DEF EndInOnePlace
<1>6. CASE AgentQuiet
  BY <1>2, <1>3, <1>4, <1>5, <1>6 DEF EndInOnePlace, NotTold, AgentQuiet
<1>7. CASE Head(stdout) = "asr.ended"
  <2>1. Piped(1)
    BY <1>1, <1>7 DEF Piped
  <2>2. (\A i : ~Piped(i)') /\ (\A u : ~Ending(u)') /\ (process = "gone" \/ ended)
    BY <1>2, <1>3, <2>1 DEF EndInOnePlace, NotTold
  <2> QED BY <1>4, <1>5, <2>2 DEF EndInOnePlace, NotTold
<1> QED BY <1>6, <1>7

LEMMA LaunchKeeps ==
  ASSUME AgentInv, Apple!TypeOK, EndInOnePlace,
         StartSession(WithApple), helper'[WithApple] = "run", Apple!Launch
  PROVE  EndInOnePlace'
<1>1. ~Told'
  BY DEF StartSession, Told, AgentInv, PumpInv, TypeOK
<1>2. \A u : Ending(u)' => Ending(u)
  BY DEF Apple!Launch, Apple!Sending, Ending, Apple!TypeOK
<1>3. \A i : Piped(i)' = Piped(i)
  BY DEF Apple!Launch, Piped
<1> QED BY <1>1, <1>2, <1>3 DEF Apple!Launch, EndInOnePlace, NotTold

\* Everything that the helper does by itself.
LEMMA HelperKeeps ==
  ASSUME Apple!TypeOK, EndInOnePlace, AgentQuiet,
         \/ Apple!Close \/ Apple!Die \/ Apple!Refuse \/ Apple!Accept \/ Apple!LoopStep
         \/ \E command \in Apple!Command : Apple!Give(command)
         \/ \E t \in Apple!Task : Apple!TaskStep(t)
         \/ \E t \in Apple!Call, report \in Apple!Report : Apple!Callback(t, report)
  PROVE  EndInOnePlace'
<1>0. Apple!Loop \in Apple!Task /\ Apple!Call \subseteq Apple!Task
  BY DEF Apple!Task
<1>1. CASE Apple!Close \/ \E command \in Apple!Command : Apple!Give(command)
  <2>1. UNCHANGED <<process, ended, task, stdout>>
    BY <1>1 DEF Apple!Close, Apple!Give
  <2> QED BY <1>0, <2>1, LineIsQuiet, QuietKeeps
<1>2. CASE Apple!Die \/ Apple!Exit
  BY <1>2, VanishIsQuiet, QuietKeeps DEF Apple!Die, Apple!Exit
<1>3. CASE Apple!Refuse \/ Apple!Accept
  <2>1. \E line : line # "asr.ended" /\ Apple!Sending(Apple!Loop, line)
    BY <1>3 DEF Apple!Refuse, Apple!Accept
  <2>2. UNCHANGED <<process, ended, stdout>>
    BY <1>3 DEF Apple!Refuse, Apple!Accept
  <2> QED BY <1>0, <2>1, <2>2, LineIsQuiet, QuietKeeps
<1>4. CASE Apple!TakeCommand
  <2>1. process = "run" /\ UNCHANGED <<process, stdout>>
    BY <1>4 DEF Apple!TakeCommand
  <2>2. CASE Apple!End(Apple!Loop)
    BY <1>0, <2>1, <2>2, EndKeeps
  <2>3. CASE (\E line : line # "asr.ended" /\ Apple!Sending(Apple!Loop, line)) /\ UNCHANGED ended
    BY <1>0, <2>1, <2>3, LineIsQuiet, QuietKeeps
  <2>4. CASE Apple!Done(Apple!Loop) /\ UNCHANGED ended
    BY <1>0, <2>1, <2>4, LineIsQuiet, QuietKeeps
  <2> QED BY <1>4, <2>2, <2>3, <2>4
          DEF Apple!TakeCommand, Apple!TakeAudio, Apple!TakeCommit, Apple!TakeStop
<1>5. ASSUME NEW t \in Apple!Task, Apple!Resume(t) PROVE EndInOnePlace'
  <2>1. process = "run" /\ UNCHANGED <<process, stdout>>
    BY <1>5 DEF Apple!Resume
  <2>2. CASE Apple!End(t)
    BY <2>1, <2>2, EndKeeps
  <2>3. CASE /\ Apple!Done(t) \/ task' = [task EXCEPT ![t] = Apple!Asking]
             /\ UNCHANGED ended
    BY <2>1, <2>3, LineIsQuiet, QuietKeeps
  <2> QED BY <1>5, <2>2, <2>3 DEF Apple!Resume
<1>6. ASSUME NEW t \in Apple!Call, NEW report \in Apple!Report, Apple!Callback(t, report)
      PROVE  EndInOnePlace'
  <2>1. report # "asr.ended" /\ Apple!Sending(t, report) /\ UNCHANGED <<process, ended, stdout>>
    BY <1>6 DEF Apple!Callback, Apple!Report
  <2> QED BY <1>0, <2>1, LineIsQuiet, QuietKeeps
<1> QED BY <1>1, <1>2, <1>3, <1>4, <1>5, <1>6, WriteKeeps DEF Apple!LoopStep, Apple!TaskStep

LEMMA OnceStep ==
  ASSUME AgentInv, Apple!TypeOK, OnceInv, [AppleNext]_allVars
  PROVE  OnceInv'
<1>1. served' = served
  <2>1. ASSUME NEW s \in Session, Helper(s) PROVE served' = served
    BY <2>1 DEF Helper, Reader, Reads, Skips, PipeBreaks, Gone, Main, Refused, With, Alone
  <2> QED BY <2>1 DEF allVars, AppleNext, AgentLoop, Push, Start, With, Alone
<1> SUFFICES ASSUME served = {WithApple}, EndInOnePlace PROVE EndInOnePlace'
  BY <1>1 DEF OnceInv
<1>2. CASE UNCHANGED allVars
  BY <1>2, UnchangedIsQuiet, AgentIsQuiet, QuietKeeps DEF allVars
<1>3. CASE AgentLoop
  <2>1. CASE Alone(HelloOk \/ Drained) \/ Alone(Pushed)
    BY <2>1, UnchangedIsQuiet, AgentIsQuiet, QuietKeeps DEF Alone, LoopStep
  <2>2. ASSUME NEW command \in Apple!Command, With(Pushed, Apple!Give(command))
        PROVE  EndInOnePlace'
    BY <2>2, AgentIsQuiet, HelperKeeps DEF With, LoopStep
  <2> QED BY <1>3, <2>1, <2>2 DEF AgentLoop, Push
<1>4. CASE \/ Alone((conns = 0 \/ served = {}) /\ Connect)
           \/ Alone(LeaveLoop \/ ReadError \/ AnswerOnly)
           \/ \E n \in Conn : Alone(GatewayCloses(n))
  BY <1>4, UnchangedIsQuiet, AgentIsQuiet, QuietKeeps DEF Alone
<1>5. ASSUME NEW s \in Session, Start(s) PROVE EndInOnePlace'
  <2>1. s = WithApple
    BY <1>5 DEF Start
  <2>2. CASE helper'[s] = "run"
    BY <1>5, <2>1, <2>2, LaunchKeeps DEF Start
  <2>3. CASE helper'[s] # "run"
    BY <1>5, <2>1, <2>3, AgentIsQuiet, UnchangedIsQuiet, QuietKeeps DEF Start
  <2> QED BY <2>2, <2>3
<1>6. ASSUME NEW s \in Session, Alone(PushCommand(s) \/ PumpStep(s)) PROVE EndInOnePlace'
  BY <1>6, UnchangedIsQuiet, AgentIsQuiet, QuietKeeps DEF Alone
<1>7. ASSUME NEW s \in Session, s \notin served, Alone(OtherHelper(s)) PROVE EndInOnePlace'
  <2>1. AgentQuiet
    BY <1>7, AgentIsQuiet DEF Alone, OtherHelper, Event
  <2> QED BY <1>7, <2>1, UnchangedIsQuiet, QuietKeeps DEF Alone
<1>8. CASE Helper(WithApple)
  <2>1. CASE With(CloseStdin(WithApple), Apple!Close)
    BY <2>1, AgentIsQuiet, HelperKeeps DEF With
  <2>2. CASE Reader(WithApple)
    <3>1. ASSUME NEW e \in Event, Reads(WithApple, e) PROVE EndInOnePlace'
      <4>1. pump[WithApple] = "run" /\ Apple!ReadLine
        BY <3>1 DEF Reads, With, PumpReceives
      <4>2. CASE Head(stdout) = "asr.ended"
        BY <4>1, <4>2, ReadKeeps
      <4>3. CASE Head(stdout) # "asr.ended"
        <5>1. PumpReceives(WithApple, "result")
          BY <3>1, <4>3 DEF Reads, With
        <5> QED BY <4>1, <5>1, AgentIsQuiet, ReadKeeps
      <4> QED BY <4>2, <4>3
    <3>2. CASE Skips(WithApple)
      BY <3>2, AgentIsQuiet, ReadKeeps DEF Skips, With
    <3>3. CASE PipeBreaks(WithApple)
      BY <3>3, AgentIsQuiet, HelperKeeps DEF PipeBreaks, With
    <3>4. CASE Gone(WithApple)
      BY <3>4, AgentIsQuiet, UnchangedIsQuiet, QuietKeeps DEF Gone, Alone
    <3> QED BY <2>2, <3>1, <3>2, <3>3, <3>4 DEF Reader
  <2>3. CASE Main(WithApple)
    <3>1. Apple!Loop \in Apple!Task
      BY DEF Apple!Task
    <3>2. CASE Refused(WithApple)
      BY <3>2, AgentIsQuiet, HelperKeeps DEF Refused, With
    <3> QED BY <2>3, <3>1, <3>2, AgentIsQuiet, HelperKeeps DEF Main, With
  <2>4. CASE UNCHANGED vars
    <3>1. AgentQuiet
      BY <2>4, AgentIsQuiet
    <3>2. Apple!Call \subseteq Apple!Task
      BY DEF Apple!Task
    <3> QED BY <1>8, <2>1, <2>2, <2>3, <3>1, <3>2, HelperKeeps DEF Helper, With
  <2> QED BY <1>8, <2>1, <2>2, <2>3, <2>4 DEF Helper, With
<1> QED BY <1>2, <1>3, <1>4, <1>5, <1>6, <1>7, <1>8 DEF AppleNext

\* Only the reader of the helper's pipe gives the pump something to forward.
LEMMA HandFilled ==
  ASSUME AgentInv, AppleNext, served = {WithApple},
         hand'[WithApple] = "ended", hand[WithApple] # "ended"
  PROVE  \E e \in Event : Reads(WithApple, e)
<1> USE DEF Alone, With, connVars, vars
<1>1. ~AgentLoop
  BY DEF AgentLoop, Push, HelloOk, Drained, Pushed
<1>2. /\ ~Alone((conns = 0 \/ served = {}) /\ Connect)
      /\ ~Alone(LeaveLoop \/ ReadError \/ AnswerOnly)
      /\ \A n \in Conn : ~Alone(GatewayCloses(n))
  BY DEF Connect, LeaveLoop, ReadError, AnswerOnly, GatewayCloses
<1>3. ASSUME NEW s \in Session PROVE ~Start(s) /\ ~Alone(PushCommand(s) \/ PumpStep(s))
  BY DEF Start, StartSession, PushCommand, PumpStep, PumpSends, PumpReturns, AgentInv, TypeOK
<1>4. ASSUME NEW s \in Session, s \notin served PROVE ~Alone(OtherHelper(s))
  BY <1>4 DEF OtherHelper, CloseStdin, HelperExits, PumpReceives, AgentInv, TypeOK
<1>5. Helper(WithApple)
  BY <1>1, <1>2, <1>3, <1>4 DEF AppleNext
<1>6. ~Skips(WithApple) /\ ~PipeBreaks(WithApple) /\ ~Gone(WithApple) /\ ~Main(WithApple)
  BY DEF Skips, PipeBreaks, Gone, HelperExits, Main, Refused, HelperRefuses
<1>7. ~With(CloseStdin(WithApple), Apple!Close)
  BY DEF CloseStdin
<1> QED BY <1>5, <1>6, <1>7 DEF Helper, Reader

\* The gateway is told once that a session has ended, however the stop, a final
\* result and an error of the recognition interleave at their awaits, for any
\* number of callbacks and room in the pipes (RecognitionSession.end marks the
\* session before it awaits the writer).
THEOREM ToldOnce == AppleSpec => EndIsToldOnce
<1>1. AppleInit => AgentInv /\ OnceInv
  <2> SUFFICES ASSUME AppleInit PROVE OnceInv
    BY AgentStarts DEF AppleInit
  <2>1. (\A t : ~Ending(t)) /\ (\A i : ~Piped(i)) /\ pump[WithApple] = "none" /\ stdout = <<>>
    BY DEF AppleInit, Init, Apple!Init, Ending, Piped, Apple!Idle
  <2> QED BY <2>1 DEF AppleInit, OnceInv, EndInOnePlace, NotTold, Told
<1>2. AgentInv /\ Apple!TypeOK /\ OnceInv /\ [AppleNext]_allVars => AgentInv' /\ OnceInv'
  BY AppleStep, AgentStep, OnceStep
<1>3. ASSUME AgentInv, Apple!TypeOK, OnceInv, [AppleNext]_allVars
      PROVE  [\A s \in served : hand'[s] = "ended" /\ hand[s] # "ended" => s \in map]_allVars
  <2> SUFFICES ASSUME served = {WithApple}, hand'[WithApple] = "ended", hand[WithApple] # "ended",
                      EndInOnePlace, AppleNext
               PROVE  WithApple \in map
    BY <1>3 DEF OnceInv, allVars, vars
  <2>1. PICK e \in Event : Reads(WithApple, e)
    BY <1>3, HandFilled
  <2>2. pump[WithApple] = "run" /\ e = "ended" /\ stdout # <<>> /\ Head(stdout) = "asr.ended"
    BY <1>3, <2>1 DEF Reads, With, PumpReceives, AgentInv, TypeOK
  <2>3. Piped(1)
    BY <1>3, <2>2 DEF Piped, Apple!TypeOK
  <2> QED BY <2>2, <2>3 DEF EndInOnePlace, Told
<1> QED BY <1>1, <1>2, <1>3, HelperTyped, PTL DEF AppleSpec, EndIsToldOnce
=============================================================================
