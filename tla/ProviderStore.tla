--------------------------- MODULE ProviderStore ----------------------------
(***************************************************************************)
(* The state file of the installed ASR providers: `speechmeshd providers   *)
(* install | uninstall | enable | disable` read it, change their copy and  *)
(* save it in place; a gateway that starts reads it.  Nothing locks the    *)
(* file.                                                                   *)
(*                                                                         *)
(* The entries are saved sorted by id, so their set says it all.           *)
(***************************************************************************)
EXTENDS GatewayBoot

CONSTANTS
  Command,  \* commands that are run, each once
  Provider, \* provider ids
  Catalog,  \* the catalog's entries, by id
  Unknown   \* the install time of an entry that has none

Bridge == [kind : AsrKind, keyFile : {"none"} \cup Contents]

ASSUME StoreAssumption ==
  /\ DOMAIN Catalog \subseteq Provider
  /\ \A id \in DOMAIN Catalog : Catalog[id].enabled \in BOOLEAN /\ Catalog[id].bridge \in Bridge
  /\ Unknown \notin Command

VARIABLES
  stateFile, \* the state file: absent, torn, or whole with its entries
  phase,     \* per command: its next step
  job,       \* per command: what it was asked to do
  copy,      \* per command: the entries it is going to save
  gateway,   \* what the gateway serves since it was last started
  starts,    \* parity of the gateway's starts
  expected,  \* history: the table that the commands make, while undisturbed
  disturbed  \* history: commands overlapped, or one of them was cut short

storeVars == <<stateFile, phase, job, copy, gateway, starts, expected, disturbed>>

\* The install time is the time of the command that noted it.
Time  == Command \cup {Unknown}
Entry == [id : Provider, enabled : BOOLEAN, at : Time, bridge : Bridge]
Row   == [enabled : BOOLEAN, at : Time, bridge : Bridge]
Tables == UNION {[ids -> Row] : ids \in SUBSET Provider}

\* --enable and --disable are flags of install alone.
Job ==
  [op : {"install"}, id : Provider, flag : {"none", "enable", "disable"}] \cup
  [op : {"uninstall", "enable", "disable"}, id : Provider, flag : {"none"}]

StoreFile == [kind : {"absent", "torn", "whole"}, entries : SUBSET Entry]

(* Every variable holds a value of its type. *)
StoreTypeOK ==
  /\ stateFile \in StoreFile
  /\ stateFile.kind # "whole" => stateFile.entries = {}
  /\ phase \in [Command -> {"start", "loaded", "opened", "done", "failed", "dead"}]
  /\ job \in [Command -> Job]
  /\ copy \in [Command -> SUBSET Entry]
  /\ gateway.up \in BOOLEAN /\ gateway.registry \in BOOLEAN
  /\ gateway.providers \subseteq Provider
  /\ starts \in BOOLEAN
  /\ expected \in Tables
  /\ disturbed \in BOOLEAN

\* A table, and the entries that hold it.
EntriesOf(table) ==
  {[id |-> i, enabled |-> table[i].enabled, at |-> table[i].at, bridge |-> table[i].bridge] :
     i \in DOMAIN table}

Without(table, id) == [i \in DOMAIN table \ {id} |-> table[i]]
With(table, id, row) == [i \in DOMAIN table \cup {id} |-> IF i = id THEN row ELSE table[i]]

NoFile == [kind |-> "absent", entries |-> {}]
Torn   == [kind |-> "torn", entries |-> {}]
Holding(entries) == [kind |-> "whole", entries |-> entries]

\* The file is not there yet, or was written by hand.
ByHand == [enabled : BOOLEAN, at : {Unknown}, bridge : {[kind |-> "mock", keyFile |-> "none"]}]
ByHandTables == UNION {[ids -> ByHand] : ids \in SUBSET Provider}

StoreInit ==
  /\ expected \in ByHandTables
  /\ stateFile \in {Holding(EntriesOf(expected))} \cup (IF DOMAIN expected = {} THEN {NoFile} ELSE {})
  /\ phase = [c \in Command |-> "start"]
  /\ job \in [Command -> Job]
  /\ copy = [c \in Command |-> {}]
  /\ gateway = Refused /\ starts = FALSE
  /\ disturbed = FALSE

-----------------------------------------------------------------------------
(* What a command makes of the entries it has read.                        *)
Named(entries, id) == {e \in entries : e.id = id}

\* A faulty variant of ToInstalled, in no specification: a repeated install
\* brings the catalog's switch back.
ToInstalledAnew(id, flag, kept, at) ==
  [id |-> id, at |-> at, bridge |-> Catalog[id].bridge,
   enabled |-> IF flag = "none" THEN Catalog[id].enabled ELSE flag = "enable"]

\* CatalogAsrProvider::to_installed
ToInstalled(id, flag, kept, at) ==
  [id |-> id, at |-> at, bridge |-> Catalog[id].bridge,
   enabled |-> IF flag = "none" THEN kept ELSE flag = "enable"]

\* install_asr_provider: of an entry that is there, the switch is kept unless
\* --enable or --disable was given, and the install time if it has one.
InstallIn(entries, c, j) ==
  IF Named(entries, j.id) = {}
  THEN entries \cup {ToInstalled(j.id, j.flag, Catalog[j.id].enabled, c)}
  ELSE LET old == CHOOSE e \in Named(entries, j.id) : TRUE
       IN (entries \ {old}) \cup
            {ToInstalled(j.id, j.flag, old.enabled, IF old.at = Unknown THEN c ELSE old.at)}

\* uninstall_asr_provider
UninstallIn(entries, j) == entries \ {CHOOSE e \in Named(entries, j.id) : TRUE}

\* set_asr_provider_enabled
SetEnabledIn(entries, j) ==
  LET old == CHOOSE e \in Named(entries, j.id) : TRUE
  IN (entries \ {old}) \cup {[old EXCEPT !.enabled = (j.op = "enable")]}

\* Installing needs the catalog's entry, everything else the installed one.
Possible(entries, j) ==
  IF j.op = "install" THEN j.id \in DOMAIN Catalog ELSE Named(entries, j.id) # {}

Result(entries, c, j) ==
  IF j.op = "install" THEN InstallIn(entries, c, j)
  ELSE IF j.op = "uninstall" THEN UninstallIn(entries, j)
  ELSE SetEnabledIn(entries, j)

\* list_provider_statuses: what the catalog has, and what is installed besides.
StatusRows(entries) ==
  {[id |-> i, installed |-> Named(entries, i) # {},
    enabled |-> \E e \in Named(entries, i) : e.enabled] :
     i \in DOMAIN Catalog \cup {e.id : e \in entries}}

\* What the command promises, on a table.
Promised(table, c, j) ==
  IF j.op = "uninstall" THEN Without(table, j.id)
  ELSE With(table, j.id,
         IF j.op = "install"
         THEN [enabled |-> IF j.flag # "none" THEN j.flag = "enable"
                           ELSE IF j.id \in DOMAIN table THEN table[j.id].enabled
                           ELSE Catalog[j.id].enabled,
               at      |-> IF j.id \in DOMAIN table /\ table[j.id].at # Unknown
                           THEN table[j.id].at ELSE c,
               bridge  |-> Catalog[j.id].bridge]
         ELSE [enabled |-> j.op = "enable", at |-> table[j.id].at, bridge |-> table[j.id].bridge])

-----------------------------------------------------------------------------
Enter(c, step) == phase' = [phase EXCEPT ![c] = step]
Busy   == {c \in Command : phase[c] \in {"loaded", "opened"}}
Saving == {c \in Command : phase[c] = "opened"}

\* load_asr_provider_state_or_default: a file that is not there is an empty
\* one, a file that cannot be parsed is an error.
Load(c) ==
  /\ phase[c] = "start"
  /\ \/ /\ stateFile.kind # "torn" /\ Possible(stateFile.entries, job[c])
        /\ copy' = [copy EXCEPT ![c] = Result(stateFile.entries, c, job[c])]
        /\ Enter(c, "loaded")
        /\ disturbed' = (disturbed \/ Busy # {})
     \/ /\ ~(stateFile.kind # "torn" /\ Possible(stateFile.entries, job[c]))
        /\ Enter(c, "failed")
        /\ UNCHANGED <<copy, disturbed>>
  /\ UNCHANGED <<stateFile, job, gateway, starts, expected>>

\* save_asr_provider_state and write_json: fs::write opens the file and cuts it
\* to nothing, or cannot open it...
Open(c) ==
  /\ phase[c] = "loaded"
  /\ \/ stateFile' = Torn /\ Enter(c, "opened")
     \/ UNCHANGED stateFile /\ Enter(c, "failed")
  /\ UNCHANGED <<job, copy, gateway, starts, expected, disturbed>>

\* ... and writes, from the start: over what another command has written since,
\* of which a longer rest stays behind.  A write can fail half-way.
Write(c) ==
  /\ phase[c] = "opened"
  /\ \/ /\ stateFile' = Holding(copy[c]) \/ (stateFile.kind = "whole" /\ stateFile.entries # copy[c] /\ stateFile' = Torn)
        /\ Enter(c, "done")
        /\ expected' = IF disturbed THEN expected ELSE Promised(expected, c, job[c])
        /\ UNCHANGED disturbed
     \/ /\ stateFile' = Torn
        /\ Enter(c, "failed")
        /\ disturbed' = TRUE
        /\ UNCHANGED expected
  /\ UNCHANGED <<job, copy, gateway, starts>>

\* The process is killed, or the machine stops.
Die(c) ==
  /\ c \in Busy
  /\ Enter(c, "dead")
  /\ disturbed' = (disturbed \/ c \in Saving)
  /\ UNCHANGED <<stateFile, job, copy, gateway, starts, expected>>

\* What a gateway finds in an entry.
Served ==
  [kind |-> stateFile.kind,
   entries |-> {[id |-> e.id, enabled |-> e.enabled, kind |-> e.bridge.kind,
                 keyFile |-> e.bridge.keyFile, at |-> e.at] : e \in stateFile.entries}]

\* run_gateway with --asr-providers-state, when the gateway is started or
\* restarted; the environment may have the key or not.
StartGateway ==
  /\ \E env \in Value :
       gateway' = SelectAsr([config |-> FALSE, state |-> TRUE, env |-> env], Served)
  /\ starts' = ~starts
  /\ UNCHANGED <<stateFile, phase, job, copy, expected, disturbed>>

StoreNext == StartGateway \/ \E c \in Command : Load(c) \/ Open(c) \/ Write(c) \/ Die(c)

StoreSpec == StoreInit /\ [][StoreNext]_storeVars

-----------------------------------------------------------------------------
EnabledIn(table) == {i \in DOMAIN table : table[i].enabled}

(* As long as commands run one after the other and none is cut short, the file
   holds what they promise, taken together: each id once, with the switch that
   was last asked for and the time of its first installation; and `providers
   list` shows as enabled what is switched on.  (Commands that
   overlap lose updates or tear the file, and a command that is cut short while
   it saves leaves a file that nothing can read.) *)
CommandsTakeEffect ==
  ~disturbed /\ Saving = {} =>
    /\ stateFile.kind # "torn"
    /\ stateFile.entries = EntriesOf(expected)
    /\ {row.id : row \in {r \in StatusRows(stateFile.entries) : r.enabled}} = EnabledIn(expected)

NeedsKey(table) == \E i \in EnabledIn(table) :
  table[i].bridge.kind = "minimax" /\ table[i].bridge.keyFile # "good"

(* A gateway that starts then serves exactly the providers that are switched on,
   and serves agents if one of these is reached through them.  It fails to start
   only if nothing is switched on, a key is missing, or a command is saving at
   that very moment. *)
GatewayServesTable ==
  [][starts' # starts /\ ~disturbed =>
       IF gateway'.up
       THEN /\ gateway'.providers = EnabledIn(expected)
            /\ gateway'.registry = (\E i \in EnabledIn(expected) : expected[i].bridge.kind = "agent")
       ELSE EnabledIn(expected) = {} \/ NeedsKey(expected) \/ Saving # {}]_storeVars
=============================================================================
