--------------------------- MODULE AppleAsrBridge ---------------------------
(***************************************************************************)
(* The Apple speech helper (apple-asr-bridge) as the agent uses it: one    *)
(* process that is given one session, with asr.start as the first line of  *)
(* its stdin.  The main loop handles a line at a time; it and the tasks of *)
(* recognition callbacks share the main actor, so that they interleave at  *)
(* their awaits: the authorization, and each write by the LineWriter.      *)
(***************************************************************************)
EXTENDS Naturals, Sequences

CONSTANTS
  MaxCalls, \* bound: recognition callbacks under way at a time
  MaxIn,    \* bound: commands written to stdin and not yet handled
  MaxOut    \* bound: lines in the stdout pipe

VARIABLES
  process,    \* "off", "run" or "gone"
  stdin,      \* the commands not yet handled, after the asr.start
  closed,     \* stdin is at its end
  known,      \* the session is in the controller's sessions
  ended,      \* its flag `ended`
  recognizer, \* its recognitionTask: "none", "live", "cancelled" or "over"
  task,       \* per task: where it is, and the line it writes
  stdout      \* lines in the pipe

appleVars == <<process, stdin, closed, known, ended, recognizer, task, stdout>>

Command == {"asr.audio", "asr.commit", "asr.stop"}

Loop == 0
Call == 1..MaxCalls
Task == {Loop} \cup Call

\* What a recognition callback reports first: a result, or the error.
Report == {"asr.partial", "asr.final", "error"}

Line == Report \cup {"bridge.ready", "asr.started", "asr.committed", "asr.ended"}

Idle == [at |-> "idle", line |-> "none"]

Asking == [at |-> "authorize", line |-> "none"]

TaskState == {Idle, Asking} \cup [at : {"sending", "sent"}, line : Line]

(* Every variable holds a value of its type. *)
TypeOK ==
  /\ process \in {"off", "run", "gone"}
  /\ stdin \in Seq(Command) /\ Len(stdin) <= MaxIn
  /\ closed \in BOOLEAN /\ known \in BOOLEAN /\ ended \in BOOLEAN
  /\ recognizer \in {"none", "live", "cancelled", "over"}
  /\ task \in [Task -> TaskState]
  /\ stdout \in Seq(Line) /\ Len(stdout) <= MaxOut

Init ==
  /\ process = "off"
  /\ stdin = <<>> /\ closed = FALSE
  /\ known = FALSE /\ ended = FALSE
  /\ recognizer = "none"
  /\ task = [t \in Task |-> Idle]
  /\ stdout = <<>>

-----------------------------------------------------------------------------
(* Helpers.                                                                *)

\* Task t awaits writer.send of a line.
Sending(t, line) == task' = [task EXCEPT ![t] = [at |-> "sending", line |-> line]]

\* The loop goes for its next line; the task of a callback returns.
Done(t) == task' = [task EXCEPT ![t] = Idle]

\* The recognition task is cancelled, which has an effect while it is live.
Cancel == recognizer' = IF recognizer = "live" THEN "cancelled" ELSE recognizer

\* A faulty variant, of no specification: the flag is left for later.
EndUnmarked(t) ==
  \/ ended /\ Done(t) /\ UNCHANGED <<ended, recognizer>>
  \/ ~ended /\ Cancel /\ Sending(t, "asr.ended") /\ UNCHANGED ended

\* RecognitionSession.end up to its await.
End(t) ==
  \/ ended /\ Done(t) /\ UNCHANGED <<ended, recognizer>>
  \/ ~ended /\ ended' = TRUE /\ Cancel /\ Sending(t, "asr.ended")

\* The process is gone with what it had in memory, unwritten lines included.
Vanish ==
  /\ process' = "gone"
  /\ stdin' = <<>>
  /\ known' = FALSE /\ ended' = FALSE
  /\ recognizer' = "none"
  /\ task' = [t \in Task |-> Idle]
  /\ UNCHANGED <<closed, stdout>>

-----------------------------------------------------------------------------
(* What is done to the process.                                            *)

\* It is spawned and asr.start written; run() reports that it is ready first.
Launch ==
  /\ process = "off" /\ process' = "run"
  /\ Sending(Loop, "bridge.ready")
  /\ UNCHANGED <<stdin, closed, known, ended, recognizer, stdout>>

\* A command is written to stdin; no one reads it when the process is gone.
Give(command) ==
  /\ \/ process = "run" /\ Len(stdin) < MaxIn /\ stdin' = Append(stdin, command)
     \/ process = "gone" /\ UNCHANGED stdin
  /\ UNCHANGED <<process, closed, known, ended, recognizer, task, stdout>>

Close ==
  /\ closed' = TRUE
  /\ UNCHANGED <<process, stdin, known, ended, recognizer, task, stdout>>

ReadLine ==
  /\ stdout # <<>> /\ stdout' = Tail(stdout)
  /\ UNCHANGED <<process, stdin, closed, known, ended, recognizer, task>>

\* It is killed, by a crash or by writing to a pipe that nobody reads.
Die == process = "run" /\ Vanish

-----------------------------------------------------------------------------
(* BridgeController.run and the handlers.                                  *)

\* Not authorized, or no recognizer for the locale: an error without a session.
Refuse ==
  /\ process = "run" /\ task[Loop].at = "authorize"
  /\ Sending(Loop, "error")
  /\ UNCHANGED <<process, stdin, closed, known, ended, recognizer, stdout>>

\* The session is entered and its recognition started before asr.started.
Accept ==
  /\ process = "run" /\ task[Loop].at = "authorize"
  /\ known' = TRUE
  /\ recognizer' = "live"
  /\ Sending(Loop, "asr.started")
  /\ UNCHANGED <<process, stdin, closed, ended, stdout>>

\* asrAudio: refused without a session or with a chunk it cannot use.
TakeAudio == (known /\ Done(Loop)) \/ Sending(Loop, "error")

TakeCommit == Sending(Loop, IF known THEN "asr.committed" ELSE "error")

\* asrStop: cancel(reason:) and, when it returns, the session is removed.
TakeStop ==
  \/ ~known /\ Sending(Loop, "error") /\ UNCHANGED <<known, ended, recognizer>>
  \/ known /\ known' = ~ended /\ End(Loop)

TakeCommand ==
  /\ process = "run" /\ task[Loop].at = "idle"
  /\ stdin # <<>> /\ stdin' = Tail(stdin)
  /\ \/ Head(stdin) = "asr.audio" /\ TakeAudio /\ UNCHANGED <<known, ended, recognizer>>
     \/ Head(stdin) = "asr.commit" /\ TakeCommit /\ UNCHANGED <<known, ended, recognizer>>
     \/ Head(stdin) = "asr.stop" /\ TakeStop
  /\ UNCHANGED <<process, closed, stdout>>

\* The lines are at their end; main() returns, whatever is still unwritten.
Exit ==
  /\ process = "run" /\ task[Loop].at = "idle"
  /\ stdin = <<>> /\ closed
  /\ Vanish

-----------------------------------------------------------------------------
(* RecognitionSession and LineWriter.                                      *)

\* The framework (external) calls back: results while it is live, then a final
\* result or an error, and an error when it was cancelled.
Callback(t, report) ==
  /\ process = "run"
  /\ t \in Call /\ task[t] = Idle
  /\ \/ recognizer = "live"
     \/ recognizer = "cancelled" /\ report = "error"
  /\ recognizer' = IF report = "asr.partial" THEN "live" ELSE "over"
  /\ Sending(t, report)
  /\ UNCHANGED <<process, stdin, closed, known, ended, stdout>>

\* Nothing happens behind the await of these lines.
IsLast(t) ==
  \/ task[t].line \in {"asr.partial", "asr.started", "asr.committed"}
  \/ t = Loop /\ task[t].line = "error"

\* The line of a task is written, of several in any order.
WriteLine(t) ==
  /\ process = "run" /\ task[t].at = "sending"
  /\ Len(stdout) < MaxOut
  /\ stdout' = Append(stdout, task[t].line)
  /\ IF IsLast(t) THEN Done(t) ELSE task' = [task EXCEPT ![t].at = "sent"]
  /\ UNCHANGED <<process, stdin, closed, known, ended, recognizer>>

\* The task goes on behind its await: after bridge.ready the loop takes asr.start
\* and awaits the authorization; a final result or an error of the recognition
\* ends the session; the end removes it.
Resume(t) ==
  /\ process = "run" /\ task[t].at = "sent"
  /\ \/ /\ task[t].line = "bridge.ready"
        /\ task' = [task EXCEPT ![t] = Asking]
        /\ UNCHANGED <<known, ended, recognizer>>
     \/ task[t].line \in {"asr.final", "error"} /\ End(t) /\ UNCHANGED known
     \/ task[t].line = "asr.ended" /\ known' = FALSE /\ Done(t) /\ UNCHANGED <<ended, recognizer>>
  /\ UNCHANGED <<process, stdin, closed, stdout>>

TaskStep(t) == WriteLine(t) \/ Resume(t)

LoopStep == TakeCommand \/ Exit
=============================================================================
