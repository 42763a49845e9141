---------------------------- MODULE MCSdkClient -----------------------------
(* The commands of the command line tool, and applications that make any     *)
(* calls in any order, give up on them, and go on after errors.              *)
EXTENDS CliCommands, MCConfig

Api == Call \ {"connect", "control"}

Application(calls) ==
  [calls |-> <<"connect">> \o calls, onError |-> "continue", patient |-> FALSE]

\* A start and any two calls after it, any two calls, and applications that use
\* a connection for two sessions.
Applications ==
  {Application(<<x, y, z>>) : x \in {"start_asr", "start_tts"}, y, z \in Api} \cup
  {Application(<<x, y>>) : x, y \in Api} \cup
  {Application(<<"start_asr", "stop", x, "start_asr", "audio">>) : x \in Api} \cup
  {Application(<<"start_asr", "stop", "drain_asr", "start_tts", "append", "commit", "drain_tts">>)}

\* The life cycle of docs/sdk-guide.md:28, up to "start a new session".
LifeCycle ==
  {Command(<<"connect", "start_asr", "audio", "commit", "drain_asr", "start_asr">>)}

AllPrograms == Commands \cup Applications
=============================================================================
