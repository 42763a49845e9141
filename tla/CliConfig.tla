----------------------------- MODULE CliConfig ------------------------------
(***************************************************************************)
(* The command line tool's configuration: how config.yml is read, line by  *)
(* line, with the section it is in given by the indentation; which of its  *)
(* profiles is used; and which setting wins: an option, a voice profile or *)
(* a default.                                                              *)
(*                                                                         *)
(* A line is its indentation, its key and its value; blank lines and       *)
(* comments are left out.  A configuration holds the owners it names and,  *)
(* at each address <<owner, group, key>> that is set, a value.             *)
(***************************************************************************)
EXTENDS Naturals, Sequences

CONSTANTS
  Bad,     \* a value that no number, switch or encoding is written like
  NoValue, \* a line that ends after its colon
  None     \* nothing given, or nothing set

ASSUME ConfigAssumption == Bad # NoValue /\ None \notin {Bad, NoValue}

ProfileKeys  == {"client_name", "ws_url", "control_url"}
GatewayKeys  == {"ws_url", "control_url"}
DefaultsKeys == {"device", "provider", "require", "prefer", "voice", "language", "rate", "pitch",
                 "volume", "format", "sample_rate", "channels", "control_url", "chunk_size_bytes",
                 "asr_encoding", "asr_sample_rate", "asr_channels", "asr_language",
                 "asr_interim", "asr_punctuation", "asr_timestamps", "asr_hints"}
VoiceKeys    == {"provider", "voice", "language", "rate", "pitch", "volume"}
BindingKeys  == {"root", "voice_profile"}

\* Keys whose value is parsed.
TypedKeys == {"rate", "pitch", "volume", "format", "sample_rate", "channels", "chunk_size_bytes",
              "asr_encoding", "asr_sample_rate", "asr_channels",
              "asr_interim", "asr_punctuation", "asr_timestamps"}

Sections == {"profiles", "voice_profiles", "project_voice_profiles"}
Base     == <<"base", None>>
Owner(section, name) == <<section, name>>

Empty == [owners |-> {}, at |-> [a \in {} |-> None], active |-> None]

At(config, owner, group, key) ==
  LET a == <<owner, group, key>> IN IF a \in DOMAIN config.at THEN config.at[a] ELSE None

-----------------------------------------------------------------------------
(* parse_file_config.  The flags in_profiles, in_voice_profiles and           *)
(* in_project_voice_profiles exclude each other, as do in_gateway and         *)
(* in_defaults: one section and one group stand for them, and one name for    *)
(* the three current names, which are forgotten with their section.           *)

Unread == [section |-> None, name |-> None, group |-> None, config |-> Empty, ok |-> TRUE]

\* assign_profile_value, assign_gateway_value, assign_defaults_value,
\* assign_voice_profile_value and assign_project_voice_binding_value: unknown keys
\* and lines without a value are passed over, a value that does not parse ends
\* the reading.
KeysOf(group) ==
  CASE group = "profile" -> ProfileKeys  [] group = "gateway" -> GatewayKeys
    [] group = "defaults" -> DefaultsKeys [] group = "voice"   -> VoiceKeys
    [] group = "binding" -> BindingKeys

\* The urls of a profile are its gateway's.
GroupOf(group, key) == IF group = "profile" /\ key \in GatewayKeys THEN "gateway" ELSE group

Assign(s, owner, group, line) ==
  IF line.value = NoValue \/ line.key \notin KeysOf(group) THEN s
  ELSE IF line.value = Bad /\ line.key \in TypedKeys THEN [s EXCEPT !.ok = FALSE]
  ELSE LET a == <<owner, GroupOf(group, line.key), line.key>>
           old == s.config.at
       IN [s EXCEPT !.config.at =
             [x \in DOMAIN old \cup {a} |-> IF x = a THEN line.value ELSE old[x]]]

Opens(line, key) == line.value = NoValue /\ line.key = key
Here(s) == Owner(s.section, s.name)
NamedProfile(s) == s.section = "profiles" /\ s.name # None

\* Without indentation: a section, a group of the unnamed profile, or a value of
\* it.
TopLine(s, line) ==
  LET out == [s EXCEPT !.section = None, !.name = None, !.group = None]
  IN IF line.value = NoValue /\ line.key \in Sections THEN [out EXCEPT !.section = line.key]
     ELSE IF Opens(line, "gateway") \/ Opens(line, "defaults") THEN [out EXCEPT !.group = line.key]
     ELSE LET next == Assign(out, Base, "profile", line)
          IN IF line.key = "active_profile" /\ line.value # NoValue
             THEN [next EXCEPT !.config.active = line.value] ELSE next

\* Two blanks: a name, or a value of a group of the unnamed profile.
NameLine(s, line) ==
  IF s.section # None /\ line.value = NoValue
  THEN [s EXCEPT !.name = line.key,
                 !.group = IF s.section = "profiles" THEN None ELSE @,
                 !.config.owners = @ \cup {Owner(s.section, line.key)}]
  ELSE IF s.section # "profiles" /\ s.group # None THEN Assign(s, Base, s.group, line)
  ELSE s

\* Four blanks: a group of a profile, or a value of what is named.
ItemLine(s, line) ==
  IF NamedProfile(s)
  THEN IF Opens(line, "gateway") \/ Opens(line, "defaults") THEN [s EXCEPT !.group = line.key]
       ELSE Assign([s EXCEPT !.group = None], Here(s), "profile", line)
  ELSE IF s.name = None THEN s
  ELSE Assign(s, Here(s), IF s.section = "voice_profiles" THEN "voice" ELSE "binding", line)

\* Six blanks: a value of a group of a profile.
GroupLine(s, line) ==
  IF NamedProfile(s) /\ s.group # None THEN Assign(s, Here(s), s.group, line) ELSE s

\* Anything else is passed over.
ReadLine(s, line) ==
  IF ~s.ok THEN s
  ELSE CASE line.indent = 0 -> TopLine(s, line)
         [] line.indent = 2 -> NameLine(s, line)
         [] line.indent = 4 -> ItemLine(s, line)
         [] line.indent = 6 -> GroupLine(s, line)
         [] OTHER           -> s

-----------------------------------------------------------------------------
(* What a command uses.                                                    *)

\* resolve_profile: the profile of --profile, the active one, the one that is
\* called default, the unnamed one if anything is set in it.  A name that no
\* profile has is passed over, also that of --profile.
Profile(config, selected) ==
  LET has(name) == name # None /\ Owner("profiles", name) \in config.owners
  IN IF has(selected) THEN Owner("profiles", selected)
     ELSE IF has(config.active) THEN Owner("profiles", config.active)
     ELSE IF has("default") THEN Owner("profiles", "default")
     ELSE IF \E a \in DOMAIN config.at : a[1] = Base THEN Base
     ELSE None

\* The first that is given.
Either(x, y) == IF x # None THEN x ELSE y

FromProfile(config, owner, group, key) ==
  IF owner = None THEN None ELSE At(config, owner, group, key)

\* run_with_args: --url before the profile's gateway before the local one; and
\* the gateway of play_audio, devices and agent status: an option of the command,
\* the profile's defaults, its gateway, and only then the one the url belongs to.
LocalGateway == "ws://127.0.0.1:8765"

WsGateway(config, cli) ==
  Either(Either(cli.url, FromProfile(config, Profile(config, cli.profile), "gateway", "ws_url")),
         LocalGateway)

ControlGateway(config, cli) ==
  LET profile == Profile(config, cli.profile)
  IN Either(Either(Either(cli.controlUrl, FromProfile(config, profile, "defaults", "control_url")),
                   FromProfile(config, profile, "gateway", "control_url")),
            WsGateway(config, cli))

-----------------------------------------------------------------------------
(* Voice profiles.                                                         *)

\* Paths are sequences of components; `path` has those that the values stand for.
Under(dir, root) == Len(root) <= Len(dir) /\ SubSeq(dir, 1, Len(root)) = root

\* select_voice_profile_for_path: the binding with the deepest root above the
\* working directory.  Bindings are kept in a hash map: of two with the same root
\* either may be it.
Bound(config, path, cwd) ==
  {b \in config.owners :
     /\ b[1] = "project_voice_profiles"
     /\ At(config, b, "binding", "root") # None
     /\ Under(cwd, path[At(config, b, "binding", "root")])
     /\ At(config, b, "binding", "voice_profile") # None
     /\ Owner("voice_profiles", At(config, b, "binding", "voice_profile")) \in config.owners}

ForPath(config, path, cwd) ==
  LET bound == Bound(config, path, cwd)
      depth(b) == Len(path[At(config, b, "binding", "root")])
  IN {Owner("voice_profiles", At(config, b, "binding", "voice_profile")) :
        b \in {x \in bound : \A y \in bound : depth(y) <= depth(x)}}

\* select_voice_profile: the profiles it may return; --voice-profile must exist.
VoiceProfiles(config, path, cwd, selected) ==
  IF selected # None
  THEN {Owner("voice_profiles", selected)} \cap config.owners
  ELSE IF Bound(config, path, cwd) = {} THEN {None} ELSE ForPath(config, path, cwd)

\* build_tts_request, merge_provider_args: each setting on its own, from the
\* option, the voice profile, the profile's defaults.
Setting(config, profile, voice, options, key) ==
  Either(options[key],
         Either(IF voice = None THEN None ELSE At(config, voice, "voice", key),
                FromProfile(config, profile, "defaults", key)))

TtsRequest(config, profile, voice, options) ==
  [key \in VoiceKeys |-> Setting(config, profile, voice, options, key)]
=============================================================================
