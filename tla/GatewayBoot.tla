---------------------------- MODULE GatewayBoot -----------------------------
(***************************************************************************)
(* How speechmeshd decides, from its arguments and files, which providers  *)
(* it serves and whether it serves agents at all, or that it cannot start. *)
(*                                                                         *)
(* Of an argument this keeps what the decision looks at: a secret, an URL  *)
(* or a command is "good", "blank" or "none"; a file is "absent", "blank"  *)
(* or "good".                                                              *)
(***************************************************************************)
EXTENDS Naturals, Sequences

Value    == {"none", "blank", "good"}
Contents == {"absent", "blank", "good"}
AsrKind  == {"mock", "stdio", "tcp", "agent", "minimax"}
TtsKind  == {"mock", "melo", "qwen3", "minimax"}

\* What the gateway serves: its providers, and whether it has an agent
\* registry.  Without one it refuses /agent and /control.
Serving(providers, registry) == [up |-> TRUE, providers |-> providers, registry |-> registry]
Refused == [up |-> FALSE, providers |-> {}, registry |-> FALSE]

-----------------------------------------------------------------------------
(* Secrets.  Where a source holds only blanks the next one is asked; a secret *)
(* file that was named must be there and must not be blank.                   *)
Good(value) == value = "good"

\* resolve_provider_api_key: the environment before the file.
ProviderKey(env, named) == Good(env) \/ named = "good"

\* resolve_asr_minimax_api_key
AsrKey(arg, env, named) == Good(arg) \/ ProviderKey(env, named)

\* resolve_minimax_api_key; ~/.minimax/token is read when no file was named.
TtsKey(arg, env, named, token) ==
  Good(arg) \/ Good(env) \/ (IF named = "none" THEN token = "good" ELSE named = "good")

\* resolve_minimax_group_id
GroupId(arg, env) == Good(arg) \/ Good(env)

-----------------------------------------------------------------------------
(* ASR.                                                                    *)

\* build_installed_asr_bridge: only the MiniMax bridge can refuse.
CanBuild(entry, env) == entry.kind = "minimax" => ProviderKey(env, entry.keyFile)

\* A faulty variant of FromConfig, in no specification: agents are served for
\* the sake of providers that are switched off, too.
FromConfigAnyAgent(entries, env) ==
  LET enabled == {e \in entries : e.enabled}
  IN IF /\ enabled # {}
        /\ \A e \in enabled : CanBuild(e, env)
        /\ \A e, f \in enabled : e.id = f.id => e = f
     THEN Serving({e.id : e \in enabled}, \E e \in entries : e.kind = "agent")
     ELSE Refused

\* select_asr_bridges_from_config, for the entries of a file: the disabled ones
\* are left out, and CompositeAsrBridge::new refuses an id that is there twice.
FromConfig(entries, env) ==
  LET enabled == {e \in entries : e.enabled}
  IN IF /\ enabled # {}
        /\ \A e \in enabled : CanBuild(e, env)
        /\ \A e, f \in enabled : e.id = f.id => e = f
     THEN Serving({e.id : e \in enabled}, \E e \in enabled : e.kind = "agent")
     ELSE Refused

\* The bridge of --asr-bridge-mode.  A command and an address are only asked
\* for, blank ones come to light with the first session.
SingleBridge(args) ==
  IF CASE args.mode = "stdio"   -> args.command # "none"
       [] args.mode = "tcp"     -> args.address # "none"
       [] args.mode = "minimax" -> AsrKey(args.key, args.env, args.keyFile)
       [] OTHER                 -> TRUE
  THEN Serving({IF args.mode = "minimax" THEN args.minimaxId ELSE args.id}, args.mode = "agent")
  ELSE Refused

\* select_asr_bridge: --asr-providers-state and --asr-providers-config name a
\* file to serve instead of --asr-bridge-mode, and exclude each other.  A file
\* that is not there or cannot be parsed is an error.
SelectAsr(args, file) ==
  IF args.config /\ args.state THEN Refused
  ELSE IF args.config \/ args.state
  THEN IF file.kind = "whole" THEN FromConfig(file.entries, args.env) ELSE Refused
  ELSE SingleBridge(args)

-----------------------------------------------------------------------------
(* TTS.                                                                    *)

\* --tts-provider, as often as it is given, before --tts-bridge-mode.
TtsKinds(args) ==
  IF args.providers # <<>> THEN args.providers
  ELSE IF args.mode = "disabled" THEN <<>> ELSE <<args.mode>>

\* The mock and the MeloTTS provider are both registered under
\* --tts-provider-id.
TtsId(args, kind) ==
  CASE kind \in {"mock", "melo"} -> args.id
    [] kind = "qwen3"            -> args.qwenId
    [] kind = "minimax"          -> args.minimaxId

CanBuildTts(args, kind) ==
  CASE kind = "mock"    -> TRUE
    [] kind = "melo"    -> args.meloUrl # "none"
    [] kind = "qwen3"   -> args.qwenUrl # "none"
    [] kind = "minimax" -> /\ TtsKey(args.key, args.env, args.keyFile, args.token)
                           /\ GroupId(args.group, args.groupEnv)

\* select_tts_bridge: no provider at all is a gateway without TTS; otherwise
\* CompositeTtsBridge::new refuses an id that is there twice.
SelectTts(args) ==
  LET kinds == TtsKinds(args)
      ids   == [i \in DOMAIN kinds |-> TtsId(args, kinds[i])]
  IN IF /\ \A i \in DOMAIN kinds : CanBuildTts(args, kinds[i])
        /\ \A i, j \in DOMAIN kinds : ids[i] = ids[j] => i = j
     THEN Serving({ids[i] : i \in DOMAIN kinds}, FALSE)
     ELSE Refused
=============================================================================
