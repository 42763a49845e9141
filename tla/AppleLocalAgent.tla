--------------------------- MODULE AppleLocalAgent ---------------------------
(***************************************************************************)
(* The local agent with its helpers.  Those of the sessions in `served`, at *)
(* most one, are Apple helpers in every detail; of the others the fairness  *)
(* assumes what an Apple helper is shown to do.                             *)
(*                                                                         *)
(* To the agent a helper is "exited" when its process is gone and its       *)
(* output read.                                                            *)
(***************************************************************************)
EXTENDS LocalAgent, Sequences

CONSTANTS
  WithApple, \* the session that may have an Apple helper
  MaxCalls, MaxIn, MaxOut

ASSUME AppleAssumption ==
  /\ WithApple \in Session
  /\ MaxCalls \in Nat /\ MaxIn \in Nat \ {0} /\ MaxOut \in Nat \ {0}

VARIABLES
  served, \* the session that has an Apple helper, as a set
  process, stdin, closed, known, ended, recognizer, task, stdout

Apple == INSTANCE AppleAsrBridge

helperVars == <<process, stdin, closed, known, ended, recognizer, task, stdout>>

allVars == <<vars, served, helperVars>>

AppleInit == Init /\ Apple!Init /\ served \in {{}, {WithApple}}

-----------------------------------------------------------------------------
(* Steps of the agent with what they are to the Apple helper.              *)

Alone(A) == A /\ UNCHANGED <<served, helperVars>>

With(A, B) == A /\ B /\ UNCHANGED served

\* With an Apple helper only its session is started.
Start(s) ==
  /\ served \in {{}, {s}}
  /\ StartSession(s)
  /\ IF s \in served /\ helper'[s] = "run" THEN Apple!Launch ELSE UNCHANGED helperVars
  /\ UNCHANGED served

\* run_bridge_writer writes what the loop has handed over.
Push ==
  IF pushing \cap served = {} THEN Alone(Pushed)
  ELSE \E command \in Apple!Command :
         /\ With(Pushed, Apple!Give(command))
         /\ stopped' # stopped => command = "asr.stop"

\* run_bridge_reader: the lines that are events to the pump, and the others.
IsEvent(line) == line \in Apple!Report \cup {"asr.ended"}

Reads(s, e) ==
  /\ stdout # <<>> /\ IsEvent(Head(stdout))
  /\ e = IF Head(stdout) = "asr.ended" THEN "ended" ELSE "result"
  /\ With(PumpReceives(s, e), Apple!ReadLine)

Skips(s) ==
  /\ stdout # <<>> /\ ~IsEvent(Head(stdout))
  /\ With(Apple!ReadLine, UNCHANGED vars)

\* With no pump to receive an event the reader returns and closes the pipe, which
\* kills a helper that writes.
PipeBreaks(s) ==
  /\ pump[s] = "done"
  /\ stdout # <<>> /\ IsEvent(Head(stdout))
  /\ \E t \in Apple!Task : task[t].at = "sending"
  /\ With(Apple!Die, UNCHANGED vars)

Refused(s) ==
  IF helper[s] = "run" THEN With(HelperRefuses(s), Apple!Refuse)
  ELSE With(Apple!Refuse, UNCHANGED vars)

Gone(s) ==
  /\ process = "gone"
  /\ stdout = <<>> \/ pump[s] = "done"
  /\ Alone(HelperExits(s))

\* The helper's main loop, and the tasks of callbacks.
Main(s) ==
  \/ With(Apple!LoopStep \/ Apple!Accept \/ Apple!TaskStep(Apple!Loop), UNCHANGED vars)
  \/ Refused(s)

Reader(s) ==
  \/ \E e \in Event : Reads(s, e)
  \/ Skips(s) \/ PipeBreaks(s) \/ Gone(s)

Helper(s) ==
  \/ With(CloseStdin(s), Apple!Close)
  \/ Reader(s) \/ Main(s)
  \/ \E t \in Apple!Call : With(Apple!TaskStep(t), UNCHANGED vars)
  \/ \E t \in Apple!Call, report \in Apple!Report : With(Apple!Callback(t, report), UNCHANGED vars)
  \/ With(Apple!Die, UNCHANGED vars)

\* A helper that is not modelled, once it has taken its session.
OtherHelper(s) ==
  \/ CloseStdin(s) \/ HelperExits(s)
  \/ \E e \in Event : PumpReceives(s, e)

AgentLoop == Alone(HelloOk \/ Drained) \/ Push

AppleNext ==
  \/ AgentLoop
  \/ Alone((conns = 0 \/ served = {}) /\ Connect)
  \/ Alone(LeaveLoop \/ ReadError \/ AnswerOnly)
  \/ \E n \in Conn : Alone(GatewayCloses(n))
  \/ \E s \in Session :
       \/ Start(s)
       \/ Alone(PushCommand(s) \/ PumpStep(s))
       \/ s \in served /\ Helper(s)
       \/ s \notin served /\ Alone(OtherHelper(s))

AppleSpec == AppleInit /\ [][AppleNext]_allVars

-----------------------------------------------------------------------------
\* The agent's tasks are polled while they can move.
AgentFairness ==
  /\ WF_allVars(AgentLoop)
  /\ \A s \in Session : WF_allVars(Alone(PumpStep(s)))

\* The helper's tasks run, its pipes are read, the LineWriter serves all who await
\* it, and the user answers when asked for the authorization.  Nothing is assumed
\* of the recognition.
AppleFairness(s) ==
  /\ WF_allVars(s \in served /\ With(CloseStdin(s), Apple!Close))
  /\ WF_allVars(s \in served /\ Reader(s))
  /\ SF_allVars(s \in served /\ Main(s))
  /\ \A t \in Apple!Call : SF_allVars(s \in served /\ With(Apple!TaskStep(t), UNCHANGED vars))

\* Of another helper: it answers asr.stop with asr.ended and exits at the end of
\* its input, as an Apple helper does that took its session.
OtherFairness(s) ==
  /\ WF_allVars(s \notin served /\ Alone(CloseStdin(s) \/ (helper[s] = "eof" /\ HelperExits(s))))
  /\ SF_allVars(s \notin served /\ s \in stopped \cap map /\ Alone(PumpReceives(s, "ended")))

FairSpec ==
  /\ AppleSpec
  /\ AgentFairness
  /\ AppleFairness(WithApple)
  /\ \A s \in Session : OtherFairness(s)

\* The helper is Apple's, and only finitely many frames follow a close.
LeavingSpec == FairSpec /\ served = {WithApple} /\ SF_allVars(Alone(LeaveLoop))

-----------------------------------------------------------------------------
(* The gateway is told once that a session has ended, though a stop, a final
   result and a recognition error may all be on their way to end it, with an
   await between the decision and the line. *)
EndIsToldOnce ==
  [][\A s \in served : hand'[s] = "ended" /\ hand[s] # "ended" => s \in map]_allVars
=============================================================================
