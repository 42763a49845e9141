-------------------------- MODULE SessionProtocol --------------------------
(***************************************************************************)
(* What a client of /ws may rely on for each session, as the protocol      *)
(* documents describe it: session.started first, then results, audio and   *)
(* errors, session.ended last, and for TTS tts.audio.done exactly once,    *)
(* after all audio and right before session.ended.                         *)
(***************************************************************************)
EXTENDS Naturals, Sequences

CONSTANTS
  Session,     \* session ids
  TtsSession   \* those opened by tts.start

VARIABLE log   \* per session, the session-scoped messages the client was sent

Live(s)  == log[s] # <<>> /\ log[s][Len(log[s])] \notin {"done", "ended"}
Send(s, m) == log' = [log EXCEPT ![s] = Append(@, m)]

Init == log = [s \in Session |-> <<>>]

Started(s) == log[s] = <<>> /\ Send(s, "started")

Deliver(s, m) ==
  /\ Live(s)
  /\ m = "audio" => s \in TtsSession
  /\ m \in {"partial", "final"} => s \notin TtsSession
  /\ Send(s, m)

Done(s) == Live(s) /\ s \in TtsSession /\ Send(s, "done")

Ended(s) ==
  /\ IF s \in TtsSession
       THEN log[s] # <<>> /\ log[s][Len(log[s])] = "done"
       ELSE Live(s)
  /\ Send(s, "ended")

Next ==
  \E s \in Session :
    \/ Started(s) \/ Done(s) \/ Ended(s)
    \/ \E m \in {"partial", "final", "audio", "error"} : Deliver(s, m)

Spec == Init /\ [][Next]_log
=============================================================================
