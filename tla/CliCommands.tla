---------------------------- MODULE CliCommands -----------------------------
(* The commands of the command line tool, as programs of SdkClient.  Reading  *)
(* arguments and input comes before the first call; a command without the     *)
(* device, text or audio it needs makes none.                                 *)
EXTENDS SdkClient

\* Every call is followed by `?`, and nothing has a timeout.
Command(calls) == [calls |-> calls, onError |-> "stop", patient |-> TRUE]

RunDiscover  == Command(<<"connect", "discover">>)
TtsVoices    == Command(<<"connect", "voices">>)

\* devices, versions and agent status: one request to /control.
RunControl   == Command(<<"control">>)

\* tts stream, tts play; also synthesize_tts.
StreamTts    == <<"connect", "start_tts", "append", "commit", "drain_tts">>
RunTtsStream == Command(StreamTts)

\* say: synthesis, and play_audio with all of the audio.
RunSay       == Command(Append(StreamTts, "control"))

RunAsrTranscribe == Command(<<"connect", "start_asr", "audio", "commit", "drain_asr">>)

\* doctor: check_gateway, check_discover twice, check_playback_route; a check
\* that fails is reported, and the next one is made.
RunDoctor ==
  [Command(<<"connect", "connect", "discover", "connect", "discover", "control">>)
     EXCEPT !.onError = "next"]

Commands ==
  {RunDiscover, TtsVoices, RunControl, RunTtsStream, RunSay, RunAsrTranscribe, RunDoctor}
=============================================================================
