------------------------------ MODULE MCConfig ------------------------------
(* Small configurations, written the way an editor writes them, and read back *)
(* by the command line tool.                                                  *)
EXTENDS CliConfig, SequencesExt

Parse(lines) == FoldLeft(ReadLine, Unread, lines)

Line(indent, key, value) == [indent |-> indent, key |-> key, value |-> value]

Work == Owner("profiles", "work")
Home == Owner("profiles", "default")
Calm == Owner("voice_profiles", "calm")
Site == Owner("project_voice_profiles", "site")

Addresses ==
  {<<Base, "profile", "client_name">>, <<Base, "gateway", "ws_url">>, <<Base, "defaults", "voice">>,
   <<Work, "profile", "client_name">>, <<Work, "gateway", "ws_url">>, <<Work, "defaults", "voice">>,
   <<Home, "gateway", "ws_url">>, <<Calm, "voice", "voice">>,
   <<Site, "binding", "root">>, <<Site, "binding", "voice_profile">>}

\* Lines of one address, if it is set; of a group; of an owner.
ItemOf(at, owner, group, key, indent) ==
  LET a == <<owner, group, key>> IN IF a \in DOMAIN at THEN <<Line(indent, key, at[a])>> ELSE <<>>

GroupLines(at, owner, group, key, indent) ==
  <<Line(indent, group, NoValue)>> \o ItemOf(at, owner, group, key, indent + 2)

ProfileLines(at, owner) ==
  <<Line(2, owner[2], NoValue)>> \o
  GroupLines(at, owner, "gateway", "ws_url", 4) \o
  ItemOf(at, owner, "profile", "client_name", 4) \o
  GroupLines(at, owner, "defaults", "voice", 4)

Written(at) ==
  <<ItemOf(at, Base, "profile", "client_name", 0),
    GroupLines(at, Base, "gateway", "ws_url", 0),
    GroupLines(at, Base, "defaults", "voice", 0),
    <<Line(0, "profiles", NoValue)>> \o ProfileLines(at, Work) \o ProfileLines(at, Home),
    <<Line(0, "voice_profiles", NoValue), Line(2, "calm", NoValue)>> \o
      ItemOf(at, Calm, "voice", "voice", 4),
    <<Line(0, "project_voice_profiles", NoValue), Line(2, "site", NoValue)>> \o
      ItemOf(at, Site, "binding", "root", 4) \o ItemOf(at, Site, "binding", "voice_profile", 4)>>

\* The sections from any of them on, forwards and backwards.
Orders ==
  {[i \in 1..6 |-> ((i + k) % 6) + 1] : k \in 0..5} \cup
  {[i \in 1..6 |-> ((k - i + 6) % 6) + 1] : k \in 0..5}

File(at, order) == FoldLeft(LAMBDA lines, i : lines \o Written(at)[i], <<>>, order)

\* What is written is read, whatever the order of the sections.
ASSUME \A set \in SUBSET Addresses, order \in Orders :
  LET at == [a \in set |-> a[3]]
      read == Parse(File(at, order))
  IN read.ok /\ read.config = [owners |-> {Work, Home, Calm, Site}, at |-> at, active |-> None]

\* A command may reach two gateways: the one of --url, and the one that the
\* profile names for playback.
ASSUME
  LET config == Parse(<<Line(0, "control_url", "home")>>).config
      cli == [url |-> "away", profile |-> None, controlUrl |-> None]
  IN WsGateway(config, cli) = "away" /\ ControlGateway(config, cli) = "home"

\* A request may name the voice of another provider than the one it is for.
ASSUME
  LET config == Parse(<<Line(0, "voice_profiles", NoValue), Line(2, "calm", NoValue),
                        Line(4, "provider", "one"), Line(4, "voice", "voice of one")>>).config
      options == [key \in VoiceKeys |-> IF key = "provider" THEN "two" ELSE None]
      request == TtsRequest(config, None, Calm, options)
  IN request["provider"] = "two" /\ request["voice"] = "voice of one"

\* A nested project's binding comes before the one around it, unless its voice
\* profile is not there; of two for one root either may be used.
Binding(name, root, profile) ==
  <<Line(2, name, NoValue), Line(4, "root", root), Line(4, "voice_profile", profile)>>
Voices ==
  <<Line(0, "voice_profiles", NoValue), Line(2, "calm", NoValue), Line(2, "loud", NoValue),
    Line(0, "project_voice_profiles", NoValue)>>
Loud == Owner("voice_profiles", "loud")

ASSUME
  LET path == [work |-> <<"work">>, app |-> <<"work", "app">>]
      bound(bindings, cwd) == VoiceProfiles(Parse(Voices \o bindings).config, path, cwd, None)
      outer == Binding("x", "work", "calm")
      inner(profile) == Binding("y", "app", profile)
  IN /\ bound(outer \o inner("loud"), <<"work", "app", "src">>) = {Loud}
     /\ bound(outer \o inner("loud"), <<"work", "docs">>) = {Calm}
     /\ bound(outer \o inner("gone"), <<"work", "app", "src">>) = {Calm}
     /\ bound(outer \o inner("loud"), <<"home">>) = {None}
     /\ bound(outer \o Binding("y", "work", "loud"), <<"work">>) = {Calm, Loud}
     /\ VoiceProfiles(Parse(Voices).config, path, <<"work">>, "gone") = {}
=============================================================================
