----------------------------- MODULE MinimaxWs ------------------------------
(***************************************************************************)
(* run_minimax_ws_session: a TTS session that is fed by the commands of a  *)
(* client and translates them into the task protocol of MiniMax's          *)
(* WebSocket: task_start, which the provider confirms with task_started,   *)
(* task_continue for text, task_finish.  Text is a sequence of tokens; 0   *)
(* is a blank, the others number the client's words.                       *)
(***************************************************************************)
EXTENDS Naturals, Sequences

CONSTANTS
  MaxAppends, \* bound: appends of the client
  MaxCommits  \* bound: commits of the client

ASSUME MinimaxAssumption ==
  MaxAppends \in Nat /\ MaxCommits \in Nat

VARIABLES
  mode,       \* the request's input_mode
  started, taskStartSent, committed, \* the session's flags
  buffered,   \* text kept back for the commit (buffered input)
  pending,    \* pending_chunks: text kept back until task_started
  told,       \* text sent to the provider, in the order it was sent
  frames,     \* task_start and task_finish frames sent, with the text sent so far
  provider,   \* the provider's task: "idle", "started", "finished"
  events,     \* provider events that were not read yet
  appended,   \* the client's text
  flushed,    \* the client's text at its first commit, as a set of at most one
  commits,    \* commits of the client
  result      \* "run", or how the session ended: "done", "stopped" or "error"

taskVars == <<mode, started, taskStartSent, committed, buffered, pending, told, frames,
          provider, events, appended, flushed, commits, result>>

wire == <<started, taskStartSent, pending, told, frames, buffered>>
client == <<mode, appended, flushed, commits, committed>>

Text == Seq(Nat)
Event == {"task_started", "task_finished", "task_failed", "audio", "closed"}
Frame == [kind : {"task_start", "task_finish"}, text : Text]

(* Every variable holds a value of its type. *)
TaskTypeOK ==
  /\ mode \in {"buffered", "streaming"}
  /\ <<started, taskStartSent, committed>> \in BOOLEAN \X BOOLEAN \X BOOLEAN
  /\ {buffered, pending, told, appended} \subseteq Text
  /\ frames \in Seq(Frame)
  /\ provider \in {"idle", "started", "finished"}
  /\ events \in Seq(Event)
  /\ flushed \subseteq Text
  /\ commits \in 0..MaxCommits
  /\ result \in {"run", "done", "stopped", "error"}

\* str::trim
Trim(t) ==
  LET words == {i \in DOMAIN t : t[i] # 0}
  IN  IF words = {} THEN <<>>
      ELSE SubSeq(t, CHOOSE i \in words : \A j \in words : i <= j,
                     CHOOSE i \in words : \A j \in words : i >= j)

\* What send_minimax_task_start and a task_finish message put on the wire once
\* text t was sent.
StartFrame(t) == [kind |-> "task_start", text |-> t]
FinishFrame(t) == [kind |-> "task_finish", text |-> t]

\* With buffered input the task is started at once.
TaskInit ==
  /\ mode \in {"buffered", "streaming"}
  /\ started = FALSE /\ committed = FALSE
  /\ taskStartSent = (mode = "buffered")
  /\ buffered = <<>> /\ pending = <<>> /\ told = <<>>
  /\ frames = IF mode = "buffered" THEN <<StartFrame(<<>>)>> ELSE <<>>
  /\ provider = "idle" /\ events = <<>>
  /\ appended = <<>> /\ flushed = {} /\ commits = 0
  /\ result = "run"

-----------------------------------------------------------------------------
(* Faulty variants of definitions below.  No specification uses them; each is *)
(* a plausible slip that one of the properties exists to exclude.             *)

\* Text is sent as soon as task_start is, past what is pending.
SendOrKeepEarly(t) ==
  IF started \/ (taskStartSent /\ pending # <<>>)
  THEN /\ told' = told \o t
       /\ UNCHANGED <<pending, taskStartSent, frames>>
  ELSE IF taskStartSent
  THEN /\ pending' = pending \o t
       /\ UNCHANGED <<told, taskStartSent, frames>>
  ELSE /\ told' = told \o t
       /\ frames' = Append(frames, StartFrame(told'))
       /\ taskStartSent' = TRUE
       /\ UNCHANGED pending

\* task_started finishes a committed task first and then sends what is pending.
OnTaskStartedFinishFirst ==
  /\ Head(events) = "task_started"
  /\ started' = TRUE
  /\ told' = told \o pending
  /\ pending' = <<>>
  /\ frames' = IF committed THEN Append(frames, FinishFrame(told)) ELSE frames
  /\ UNCHANGED <<taskStartSent, buffered, result>>

\* task_started does not look at an earlier commit.
OnTaskStartedUncommitted ==
  /\ Head(events) = "task_started"
  /\ started' = TRUE
  /\ told' = told \o pending
  /\ pending' = <<>>
  /\ UNCHANGED <<taskStartSent, buffered, frames, result>>

-----------------------------------------------------------------------------
(* The commands of the client.                                             *)

\* Text for the provider: with the task started it is sent, with the start
\* under way it is kept back, otherwise it goes along with the start.
SendOrKeep(t) ==
  IF started
  THEN /\ told' = told \o t
       /\ UNCHANGED <<pending, taskStartSent, frames>>
  ELSE IF taskStartSent
  THEN /\ pending' = pending \o t
       /\ UNCHANGED <<told, taskStartSent, frames>>
  ELSE /\ told' = told \o t
       /\ frames' = Append(frames, StartFrame(told'))
       /\ taskStartSent' = TRUE
       /\ UNCHANGED pending

\* AppendInput with a word or a blank; an empty delta is skipped.
AppendInput(blank) ==
  /\ result = "run" /\ Len(appended) < MaxAppends
  /\ LET t == <<IF blank THEN 0 ELSE Len(appended) + 1>> IN
       /\ appended' = appended \o t
       /\ \/ /\ mode = "buffered"
             /\ buffered' = buffered \o t
             /\ UNCHANGED <<told, pending, taskStartSent, frames>>
          \/ /\ mode = "streaming"
             /\ SendOrKeep(t)
             /\ UNCHANGED buffered
  /\ UNCHANGED <<mode, started, committed, flushed, commits, provider, events, result>>

\* Commit with buffered input: the whole buffer is text for the provider; with
\* the task started its end is sent right behind.
CommitBuffered ==
  /\ mode = "buffered"
  /\ LET t == Trim(buffered) IN
       \/ /\ t = <<>>
          /\ result' = "error"
          /\ UNCHANGED <<told, pending, taskStartSent, frames>>
       \/ /\ t # <<>> /\ started
          /\ told' = told \o t
          /\ frames' = Append(frames, FinishFrame(told'))
          /\ UNCHANGED <<pending, taskStartSent, result>>
       \/ /\ t # <<>> /\ ~started
          /\ SendOrKeep(t)
          /\ UNCHANGED result

CommitStreaming ==
  /\ mode = "streaming"
  /\ frames' = IF started THEN Append(frames, FinishFrame(told)) ELSE frames
  /\ UNCHANGED <<told, pending, taskStartSent, result>>

Commit ==
  /\ result = "run" /\ commits < MaxCommits
  /\ commits' = commits + 1
  /\ committed' = TRUE
  /\ flushed' = IF committed THEN flushed
                ELSE {IF mode = "buffered" THEN Trim(appended) ELSE appended}
  /\ CommitBuffered \/ CommitStreaming
  /\ UNCHANGED <<mode, started, buffered, appended, provider, events>>

\* Stop (best-effort task_finish, and no reader is left), or the channel closed.
Stop ==
  /\ result = "run"
  /\ result' = "stopped"
  /\ UNCHANGED <<wire, client, provider, events>>

-----------------------------------------------------------------------------
(* The frames of the provider.                                             *)

\* What was kept back is sent, and the end of a task committed meanwhile.
OnTaskStarted ==
  /\ Head(events) = "task_started"
  /\ started' = TRUE
  /\ told' = told \o pending
  /\ pending' = <<>>
  /\ frames' = IF committed THEN Append(frames, FinishFrame(told')) ELSE frames
  /\ UNCHANGED <<taskStartSent, buffered, result>>

\* task_finished, or empty audio marked is_final.
OnTaskFinished ==
  /\ Head(events) = "task_finished"
  /\ result' = "done"
  /\ UNCHANGED wire

\* Audio is passed on; it may be invalid.
OnAudio ==
  /\ Head(events) = "audio"
  /\ result' \in {"run", "error"}
  /\ UNCHANGED wire

OnTaskFailed ==
  /\ Head(events) = "task_failed"
  /\ result' = "error"
  /\ UNCHANGED wire

\* The end of the stream or a Close frame.
OnClosed ==
  /\ Head(events) = "closed"
  /\ result' = IF committed THEN "done" ELSE "error"
  /\ UNCHANGED wire

ReadEvent ==
  /\ result = "run" /\ events # <<>>
  /\ OnTaskStarted \/ OnTaskFinished \/ OnAudio \/ OnTaskFailed \/ OnClosed
  /\ events' = Tail(events)
  /\ UNCHANGED <<client, provider>>

\* A read, write or connection error.
Fail ==
  /\ result = "run"
  /\ result' = "error"
  /\ UNCHANGED <<wire, client, provider, events>>

-----------------------------------------------------------------------------
(* The provider (external): it confirms a task it was asked to start, and  *)
(* ends it when it was asked to; it may fail or hang up at any time.       *)

Sent(kind) == \E i \in DOMAIN frames : frames[i].kind = kind

Say(e, p) ==
  /\ provider # "finished"
  /\ events' = Append(events, e)
  /\ provider' = p
  /\ UNCHANGED <<wire, client, result>>

Confirm == provider = "idle" /\ Sent("task_start") /\ Say("task_started", "started")

Finish == provider = "started" /\ Sent("task_finish") /\ Say("task_finished", "finished")

Speak == provider = "started" /\ (\A i \in DOMAIN events : events[i] # "audio") /\ Say("audio", "started")

GiveUp == Say("task_failed", "finished") \/ Say("closed", "finished")

-----------------------------------------------------------------------------
TaskNext ==
  \/ \E blank \in BOOLEAN : AppendInput(blank)
  \/ Commit \/ Stop \/ Fail
  \/ ReadEvent
  \/ Confirm \/ Finish \/ Speak \/ GiveUp

TaskSpec == TaskInit /\ [][TaskNext]_taskVars

\* The session's task is polled, and the provider keeps its protocol.
TaskFairSpec == TaskSpec /\ WF_taskVars(ReadEvent) /\ WF_taskVars(Confirm \/ Finish)

-----------------------------------------------------------------------------
(* Streaming input: what the provider was told, followed by what is kept back,
   is what the client has said: no text is lost, repeated or reordered, before,
   during or after the start of the task. *)
TextInOrder == mode = "streaming" => told \o pending = appended

(* A task_finish that answers the client's commit comes after all of the text
   the client had appended by then. *)
FinishCoversCommit ==
  \A i \in DOMAIN frames :
    frames[i].kind = "task_finish" =>
      \A t \in flushed :
        Len(t) <= Len(frames[i].text) /\ SubSeq(frames[i].text, 1, Len(t)) = t

(* A committed session for which a task was started ends. *)
CommittedTaskEnds == committed /\ taskStartSent ~> result # "run"
=============================================================================
