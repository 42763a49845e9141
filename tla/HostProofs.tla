----------------------------- MODULE HostProofs -----------------------------
(* Proofs about what is left on a host: the state file of the installed      *)
(* providers and the binary.  The two do not meet; a theorem is about the    *)
(* specification it names.                                                   *)
EXTENDS Updater, ProviderStore, FiniteSetTheorems, TLAPS

-----------------------------------------------------------------------------
(* Tables and the entries that hold them.                                  *)

\* The entry of an id, for a row.
EntryOf(id, row) ==
  [id |-> id, enabled |-> row.enabled, at |-> row.at, bridge |-> row.bridge]

\* At most one entry has a given id: the one of its row.
LEMMA NamedInTable ==
  ASSUME NEW table, NEW id
  PROVE  Named(EntriesOf(table), id) =
           IF id \in DOMAIN table THEN {EntryOf(id, table[id])} ELSE {}
  BY DEF Named, EntriesOf, EntryOf

\* Dropping the entries of an id drops its row.
LEMMA DropEntry ==
  ASSUME NEW table, NEW id
  PROVE  EntriesOf(table) \ Named(EntriesOf(table), id) = EntriesOf(Without(table, id))
<1> DEFINE rest == EntriesOf(table) \ Named(EntriesOf(table), id)
<1>1. ASSUME NEW e PROVE e \in rest <=> \E i \in DOMAIN table : i # id /\ e = EntryOf(i, table[i])
  BY DEF Named, EntriesOf, EntryOf
<1>2. ASSUME NEW e PROVE e \in EntriesOf(Without(table, id)) <=>
                         \E i \in DOMAIN table : i # id /\ e = EntryOf(i, table[i])
  BY DEF Without, EntriesOf, EntryOf
<1> HIDE DEF rest
<1>3. rest = EntriesOf(Without(table, id))
  BY <1>1, <1>2
<1> QED BY <1>3 DEF rest

\* Replacing the entries of an id by another one sets its row.
LEMMA PutEntry ==
  ASSUME NEW table, NEW id, NEW row
  PROVE  (EntriesOf(table) \ Named(EntriesOf(table), id)) \cup {EntryOf(id, row)} =
           EntriesOf(With(table, id, row))
<1> DEFINE all == (EntriesOf(table) \ Named(EntriesOf(table), id)) \cup {EntryOf(id, row)}
           set == EntriesOf(With(table, id, row))
           In(e) == \/ e = EntryOf(id, row)
                    \/ \E i \in DOMAIN table : i # id /\ e = EntryOf(i, table[i])
<1>1. ASSUME NEW e PROVE e \in all <=> In(e)
  BY DEF Named, EntriesOf, EntryOf
<1>2. /\ DOMAIN With(table, id, row) = DOMAIN table \cup {id}
      /\ With(table, id, row)[id] = row
      /\ \A i \in DOMAIN table : i # id => With(table, id, row)[i] = table[i]
  BY DEF With
<1>3. ASSUME NEW e PROVE e \in set <=> In(e)
  BY <1>2 DEF EntriesOf, EntryOf
<1> HIDE DEF all, set, In
<1>4. all = set
  BY <1>1, <1>3
<1> QED BY <1>4 DEF all, set

\* What a command makes of the entries of a table are the entries of the table
\* it promises (install_asr_provider, uninstall_asr_provider,
\* set_asr_provider_enabled).
LEMMA ResultIsPromised ==
  ASSUME NEW table \in Tables, NEW c, NEW j \in Job, Possible(EntriesOf(table), j)
  PROVE  Result(EntriesOf(table), c, j) = EntriesOf(Promised(table, c, j))
<1> DEFINE entries == EntriesOf(table)
           old == CHOOSE e \in Named(entries, j.id) : TRUE
<1>1. ASSUME j.id \in DOMAIN table
      PROVE  /\ Named(entries, j.id) = {old} /\ old = EntryOf(j.id, table[j.id])
             /\ table[j.id].enabled \in BOOLEAN
  BY <1>1, NamedInTable DEF Tables, Row
<1>2. CASE j.op = "install" /\ j.id \notin DOMAIN table
  <2>1. Named(entries, j.id) = {}
    BY <1>2, NamedInTable
  <2> DEFINE row == [enabled |-> IF j.flag # "none" THEN j.flag = "enable" ELSE Catalog[j.id].enabled,
                     at |-> c, bridge |-> Catalog[j.id].bridge]
  <2>2. Promised(table, c, j) = With(table, j.id, row)
    BY <1>2 DEF Promised
  <2>3. ToInstalled(j.id, j.flag, Catalog[j.id].enabled, c) = EntryOf(j.id, row)
    BY <1>2 DEF ToInstalled, EntryOf, Job
  <2>4. Result(entries, c, j) = (entries \ Named(entries, j.id)) \cup {EntryOf(j.id, row)}
    BY <1>2, <2>1, <2>3 DEF Result, InstallIn
  <2> QED BY <2>2, <2>4, PutEntry
<1>3. CASE j.op = "install" /\ j.id \in DOMAIN table
  <2> DEFINE row == [enabled |-> IF j.flag # "none" THEN j.flag = "enable" ELSE table[j.id].enabled,
                     at |-> IF table[j.id].at # Unknown THEN table[j.id].at ELSE c,
                     bridge |-> Catalog[j.id].bridge]
  <2>1. Promised(table, c, j) = With(table, j.id, row)
    BY <1>3 DEF Promised
  <2>2. ToInstalled(j.id, j.flag, old.enabled, IF old.at = Unknown THEN c ELSE old.at) = EntryOf(j.id, row)
    <3>0. old = EntryOf(j.id, table[j.id])
      BY <1>1, <1>3
    <3> HIDE DEF old
    <3>1. old.enabled = table[j.id].enabled /\ old.at = table[j.id].at
      BY <3>0 DEF EntryOf
    <3>2. CASE j.flag = "none"
      BY <3>1, <3>2 DEF ToInstalled, EntryOf
    <3>3. CASE j.flag # "none"
      BY <3>1, <3>3 DEF ToInstalled, EntryOf
    <3> QED BY <3>2, <3>3
  <2>3. Result(entries, c, j) = (entries \ Named(entries, j.id)) \cup {EntryOf(j.id, row)}
    BY <1>1, <1>3, <2>2 DEF Result, InstallIn
  <2> QED BY <2>1, <2>3, PutEntry
<1>4. CASE j.op = "uninstall"
  <2>1. j.id \in DOMAIN table
    BY <1>4, NamedInTable DEF Possible
  <2>2. Result(entries, c, j) = entries \ Named(entries, j.id)
    BY <1>1, <1>4, <2>1 DEF Result, UninstallIn
  <2> QED BY <1>4, <2>2, DropEntry DEF Promised
<1>5. CASE j.op \in {"enable", "disable"}
  <2>1. j.id \in DOMAIN table
    BY <1>5, NamedInTable DEF Possible
  <2> DEFINE row == [enabled |-> j.op = "enable", at |-> table[j.id].at, bridge |-> table[j.id].bridge]
  <2>2. [old EXCEPT !.enabled = (j.op = "enable")] = EntryOf(j.id, row)
    <3>1. old = [id |-> j.id, enabled |-> table[j.id].enabled,
                 at |-> table[j.id].at, bridge |-> table[j.id].bridge]
      BY <1>1, <2>1 DEF EntryOf
    <3> HIDE DEF old
    <3> QED BY <3>1 DEF EntryOf
  <2>3. Result(entries, c, j) = (entries \ Named(entries, j.id)) \cup {EntryOf(j.id, row)}
    BY <1>1, <1>5, <2>1, <2>2 DEF Result, SetEnabledIn
  <2>4. Promised(table, c, j) = With(table, j.id, row)
    BY <1>5 DEF Promised
  <2> QED BY <2>3, <2>4, PutEntry
<1> QED BY <1>2, <1>3, <1>4, <1>5 DEF Job

-----------------------------------------------------------------------------
(* Types.                                                                  *)

\* The entry of a row is an entry, and has the row's fields.
LEMMA EntryOfRow ==
  ASSUME NEW id \in Provider, NEW row \in Row
  PROVE  /\ EntryOf(id, row) \in Entry /\ EntryOf(id, row).id = id
         /\ EntryOf(id, row).enabled = row.enabled /\ EntryOf(id, row).bridge = row.bridge
  BY DEF EntryOf, Entry, Row

\* A table holds entries.
LEMMA EntriesOfTable ==
  ASSUME NEW table \in Tables
  PROVE  EntriesOf(table) \subseteq Entry
<1> SUFFICES ASSUME NEW i \in DOMAIN table PROVE EntryOf(i, table[i]) \in Entry
  BY DEF EntriesOf, EntryOf
<1>1. i \in Provider /\ table[i] \in Row
  BY DEF Tables
<1> QED BY <1>1, EntryOfRow

\* Setting a row of a table, and dropping one, leaves a table.
LEMMA WithIsTable ==
  ASSUME NEW table \in Tables, NEW id \in Provider, NEW row \in Row
  PROVE  With(table, id, row) \in Tables /\ Without(table, id) \in Tables
<1>1. PICK ids \in SUBSET Provider : table \in [ids -> Row]
  BY DEF Tables
<1>2. With(table, id, row) \in [ids \cup {id} -> Row] /\ ids \cup {id} \in SUBSET Provider
  BY <1>1 DEF With
<1>3. Without(table, id) \in [ids \ {id} -> Row] /\ ids \ {id} \in SUBSET Provider
  BY <1>1 DEF Without
<1> QED BY <1>2, <1>3 DEF Tables

\* What a command promises of a table is a table.
LEMMA PromisedIsTable ==
  ASSUME NEW table \in Tables, NEW c \in Command, NEW j \in Job, Possible(EntriesOf(table), j)
  PROVE  Promised(table, c, j) \in Tables
<1>1. j.id \in Provider
  BY DEF Job
<1>2. j.id \in DOMAIN table => table[j.id] \in Row
  BY DEF Tables
<1>3. CASE j.op = "install"
  <2> DEFINE on == IF j.flag # "none" THEN j.flag = "enable"
                   ELSE IF j.id \in DOMAIN table THEN table[j.id].enabled
                   ELSE Catalog[j.id].enabled
             at == IF j.id \in DOMAIN table /\ table[j.id].at # Unknown THEN table[j.id].at ELSE c
  <2>1. j.id \in DOMAIN Catalog
    BY <1>3 DEF Possible
  <2>2. Catalog[j.id].enabled \in BOOLEAN /\ Catalog[j.id].bridge \in Bridge
    BY <2>1, StoreAssumption
  <2>3. on \in BOOLEAN
    BY <1>2, <2>2 DEF Row
  <2>4. at \in Time
    BY <1>2 DEF Row, Time
  <2>5. Promised(table, c, j) =
          With(table, j.id, [enabled |-> on, at |-> at, bridge |-> Catalog[j.id].bridge])
    BY <1>3 DEF Promised
  <2> HIDE DEF on, at
  <2>6. [enabled |-> on, at |-> at, bridge |-> Catalog[j.id].bridge] \in Row
    BY <2>2, <2>3, <2>4 DEF Row
  <2> QED BY <1>1, <2>5, <2>6, WithIsTable
<1>4. CASE j.op = "uninstall"
  <2>1. j.id \in DOMAIN table
    BY <1>4, NamedInTable DEF Possible
  <2> QED BY <1>1, <1>2, <1>4, <2>1, WithIsTable DEF Promised
<1>5. CASE j.op \in {"enable", "disable"}
  <2>1. j.id \in DOMAIN table
    BY <1>5, NamedInTable DEF Possible
  <2>2. [enabled |-> j.op = "enable", at |-> table[j.id].at, bridge |-> table[j.id].bridge] \in Row
    BY <1>2, <2>1 DEF Row
  <2> QED BY <1>1, <1>5, <2>2, WithIsTable DEF Promised
<1> QED BY <1>3, <1>4, <1>5 DEF Job

\* What a command makes of any entries that it read are entries.
LEMMA ResultTyped ==
  ASSUME NEW entries \in SUBSET Entry, NEW c \in Command, NEW j \in Job, Possible(entries, j)
  PROVE  Result(entries, c, j) \in SUBSET Entry
<1> DEFINE old == CHOOSE e \in Named(entries, j.id) : TRUE
<1>1. Named(entries, j.id) # {} => old \in Entry
  BY DEF Named
<1>2. CASE j.op = "install"
  <2>1. j.id \in Provider /\ Catalog[j.id].enabled \in BOOLEAN /\ Catalog[j.id].bridge \in Bridge
    BY <1>2, StoreAssumption DEF Possible, Job
  <2>2. ASSUME NEW kept \in BOOLEAN, NEW at \in Time
        PROVE  ToInstalled(j.id, j.flag, kept, at) \in Entry
    <3>1. (IF j.flag = "none" THEN kept ELSE j.flag = "enable") \in BOOLEAN
      OBVIOUS
    <3> QED BY <2>1, <3>1 DEF ToInstalled, Entry
  <2>3. CASE Named(entries, j.id) = {}
    BY <1>2, <2>1, <2>2, <2>3 DEF Result, InstallIn, Time
  <2>4. CASE Named(entries, j.id) # {}
    <3>1. old.enabled \in BOOLEAN /\ (IF old.at = Unknown THEN c ELSE old.at) \in Time
      BY <1>1, <2>4 DEF Entry, Time
    <3>2. ToInstalled(j.id, j.flag, old.enabled, IF old.at = Unknown THEN c ELSE old.at) \in Entry
      BY <2>2, <3>1
    <3> QED BY <1>2, <2>4, <3>2 DEF Result, InstallIn
  <2> QED BY <2>3, <2>4
<1>3. CASE j.op = "uninstall"
  BY <1>3 DEF Result, UninstallIn
<1>4. CASE j.op \in {"enable", "disable"}
  <2>1. old \in Entry
    BY <1>1, <1>4 DEF Possible
  <2> DEFINE new == [old EXCEPT !.enabled = (j.op = "enable")]
  <2>2. Result(entries, c, j) = (entries \ {old}) \cup {new}
    BY <1>4 DEF Result, SetEnabledIn
  <2> HIDE DEF old
  <2>3. new \in Entry
    BY <2>1 DEF Entry
  <2> QED BY <2>2, <2>3
<1> QED BY <1>2, <1>3, <1>4 DEF Job

\* A gateway serves providers of the file it has read.
LEMMA ServesProviders ==
  ASSUME stateFile \in StoreFile, NEW env
  PROVE  LET g == SelectAsr([config |-> FALSE, state |-> TRUE, env |-> env], Served)
         IN g.up \in BOOLEAN /\ g.registry \in BOOLEAN /\ g.providers \subseteq Provider
<1> DEFINE g == SelectAsr([config |-> FALSE, state |-> TRUE, env |-> env], Served)
<1>1. g = Refused \/ g = FromConfig(Served.entries, env)
  BY DEF SelectAsr
<1>2. \A e \in Served.entries : e.id \in Provider
  BY DEF Served, StoreFile, Entry
<1>3. /\ Refused.up \in BOOLEAN /\ Refused.registry \in BOOLEAN
      /\ Refused.providers \subseteq Provider
  BY DEF Refused
<1>4. ASSUME NEW ids, NEW r \in BOOLEAN, ids \subseteq Provider
      PROVE  /\ Serving(ids, r).up \in BOOLEAN /\ Serving(ids, r).registry \in BOOLEAN
             /\ Serving(ids, r).providers \subseteq Provider
  BY <1>4 DEF Serving
<1>5. \/ FromConfig(Served.entries, env) = Refused
      \/ \E ids \in SUBSET Provider, r \in BOOLEAN : FromConfig(Served.entries, env) = Serving(ids, r)
  <2> DEFINE on == {e \in Served.entries : e.enabled}
             r == \E e \in on : e.kind = "agent"
  <2>1. {e.id : e \in on} \in SUBSET Provider /\ r \in BOOLEAN
    BY <1>2
  <2>2. FromConfig(Served.entries, env) \in {Refused, Serving({e.id : e \in on}, r)}
    BY DEF FromConfig
  <2> HIDE DEF on, r
  <2> QED BY <2>1, <2>2
<1> HIDE DEF g
<1>6. g.up \in BOOLEAN /\ g.registry \in BOOLEAN /\ g.providers \subseteq Provider
  BY <1>1, <1>3, <1>4, <1>5
<1> QED BY <1>6 DEF g

-----------------------------------------------------------------------------
(* The inductive invariant: while nothing has been disturbed, at most one
   command is between reading and saving; the file is torn exactly while it
   saves, and holds the promised table otherwise; and what it is going to save
   is what it makes of that table. *)
Intact ==
  ~disturbed =>
    /\ \A c, d \in Busy : c = d
    /\ Saving # {} => stateFile = Torn
    /\ Saving = {} => stateFile.kind # "torn" /\ stateFile.entries = EntriesOf(expected)
    /\ \A c \in Busy : /\ Possible(EntriesOf(expected), job[c])
                       /\ copy[c] = Result(EntriesOf(expected), c, job[c])

StoreInv == StoreTypeOK /\ Intact

\* What a command that saves undisturbed leaves is the table it promises.
LEMMA SavedIsPromised ==
  ASSUME StoreInv, ~disturbed, NEW c \in Command, phase[c] = "opened"
  PROVE  /\ Promised(expected, c, job[c]) \in Tables
         /\ copy[c] = EntriesOf(Promised(expected, c, job[c]))
         /\ stateFile = Torn /\ Busy = {c} /\ Saving = {c}
<1>1. c \in Busy /\ c \in Saving /\ Saving \subseteq Busy
  BY DEF Busy, Saving
<1>2. /\ Possible(EntriesOf(expected), job[c])
      /\ copy[c] = Result(EntriesOf(expected), c, job[c])
      /\ stateFile = Torn /\ Busy = {c} /\ Saving = {c}
  BY <1>1 DEF StoreInv, Intact
<1>3. job[c] \in Job /\ expected \in Tables
  BY DEF StoreInv, StoreTypeOK
<1> QED BY <1>2, <1>3, PromisedIsTable, ResultIsPromised

\* Every step keeps the types.
LEMMA StoreTypeStep == StoreInv /\ [StoreNext]_storeVars => StoreTypeOK'
<1> SUFFICES ASSUME StoreInv, [StoreNext]_storeVars PROVE StoreTypeOK'
  OBVIOUS
<1>0. StoreTypeOK
  BY DEF StoreInv
<1> DEFINE Phase == {"start", "loaded", "opened", "done", "failed", "dead"}
<1>1. ASSUME NEW c \in Command, Load(c) PROVE StoreTypeOK'
  <2>1. Possible(stateFile.entries, job[c]) => Result(stateFile.entries, c, job[c]) \in SUBSET Entry
    BY <1>0, ResultTyped DEF StoreTypeOK, StoreFile
  <2>2. disturbed' \in BOOLEAN /\ copy' \in [Command -> SUBSET Entry]
    BY <1>0, <1>1, <2>1 DEF Load, StoreTypeOK
  <2>3. phase' \in [Command -> Phase]
    BY <1>0, <1>1 DEF Load, Enter, StoreTypeOK
  <2> QED BY <1>0, <1>1, <2>2, <2>3 DEF Load, StoreTypeOK
<1>2. ASSUME NEW c \in Command, Open(c) PROVE StoreTypeOK'
  <2>1. stateFile' \in StoreFile /\ (stateFile'.kind # "whole" => stateFile'.entries = {})
    BY <1>0, <1>2 DEF Open, StoreTypeOK, StoreFile, Torn
  <2>2. phase' \in [Command -> Phase]
    BY <1>0, <1>2 DEF Open, Enter, StoreTypeOK
  <2> QED BY <1>0, <1>2, <2>1, <2>2 DEF Open, StoreTypeOK
<1>3. ASSUME NEW c \in Command, Write(c) PROVE StoreTypeOK'
  <2>1. phase' \in [Command -> Phase]
    BY <1>0, <1>3 DEF Write, Enter, StoreTypeOK
  <2>2. stateFile' \in StoreFile /\ (stateFile'.kind # "whole" => stateFile'.entries = {})
    BY <1>0, <1>3 DEF Write, StoreTypeOK, StoreFile, Torn, Holding
  <2>3. expected' \in Tables
    BY <1>0, <1>3, SavedIsPromised DEF Write, StoreTypeOK
  <2>4. disturbed' \in BOOLEAN
    BY <1>0, <1>3 DEF Write, StoreTypeOK
  <2> QED BY <1>0, <1>3, <2>1, <2>2, <2>3, <2>4 DEF Write, StoreTypeOK
<1>4. ASSUME NEW c \in Command, Die(c) PROVE StoreTypeOK'
  <2>1. phase' \in [Command -> Phase] /\ disturbed' \in BOOLEAN
    BY <1>0, <1>4 DEF Die, Enter, StoreTypeOK
  <2> QED BY <1>0, <1>4, <2>1 DEF Die, StoreTypeOK
<1>5. CASE StartGateway
  <2>1. starts' \in BOOLEAN
    BY <1>0, <1>5 DEF StartGateway, StoreTypeOK
  <2>2. gateway'.up \in BOOLEAN /\ gateway'.registry \in BOOLEAN /\ gateway'.providers \subseteq Provider
    BY <1>0, <1>5, ServesProviders DEF StartGateway, StoreTypeOK
  <2> QED BY <1>0, <1>5, <2>1, <2>2 DEF StartGateway, StoreTypeOK
<1>6. CASE UNCHANGED storeVars
  BY <1>0, <1>6 DEF storeVars, StoreTypeOK
<1> QED BY <1>1, <1>2, <1>3, <1>4, <1>5, <1>6 DEF StoreNext

\* Every step keeps the file intact, while nothing is disturbed.
LEMMA IntactStep == StoreInv /\ [StoreNext]_storeVars => Intact'
<1> SUFFICES ASSUME StoreInv, [StoreNext]_storeVars, ~disturbed'
             PROVE  Intact'
  BY DEF Intact
<1>0. /\ phase \in [Command -> {"start", "loaded", "opened", "done", "failed", "dead"}]
      /\ copy \in [Command -> SUBSET Entry]
      /\ Saving \subseteq Busy /\ Busy \subseteq Command
  BY DEF StoreInv, StoreTypeOK, Saving, Busy
<1>a. ~disturbed
  BY DEF StoreNext, Load, Open, Write, Die, StartGateway, storeVars
<1>b. /\ \A c, d \in Busy : c = d
      /\ Saving # {} => stateFile = Torn
      /\ Saving = {} => stateFile.kind # "torn" /\ stateFile.entries = EntriesOf(expected)
      /\ \A c \in Busy : /\ Possible(EntriesOf(expected), job[c])
                         /\ copy[c] = Result(EntriesOf(expected), c, job[c])
  BY <1>a DEF StoreInv, Intact
<1>1. ASSUME NEW c \in Command, Load(c) PROVE Intact'
  <2>1. CASE phase'[c] = "loaded"
    <3>1. /\ Busy = {} /\ phase' = [phase EXCEPT ![c] = "loaded"]
          /\ Possible(stateFile.entries, job[c])
          /\ copy' = [copy EXCEPT ![c] = Result(stateFile.entries, c, job[c])]
          /\ UNCHANGED <<stateFile, job, expected>>
      BY <1>0, <1>1, <2>1 DEF Load, Enter
    <3>2. Busy' = {c} /\ Saving' = {} /\ Saving = {}
      BY <1>0, <3>1 DEF Busy, Saving
    <3> QED BY <1>0, <1>b, <3>1, <3>2 DEF Intact
  <2>2. CASE phase'[c] # "loaded"
    <3>1. phase' = [phase EXCEPT ![c] = "failed"] /\ phase[c] = "start"
          /\ UNCHANGED <<stateFile, job, copy, expected>>
      BY <1>0, <1>1, <2>2 DEF Load, Enter
    <3>2. Busy' = Busy /\ Saving' = Saving
      BY <1>0, <3>1 DEF Busy, Saving
    <3> QED BY <1>b, <3>1, <3>2 DEF Intact
  <2> QED BY <2>1, <2>2
<1>2. ASSUME NEW c \in Command, Open(c) PROVE Intact'
  <2>1. c \in Busy /\ Busy = {c} /\ Saving = {} /\ UNCHANGED <<job, copy, expected>>
    BY <1>0, <1>2, <1>b DEF Open, Busy, Saving
  <2>2. CASE stateFile' = Torn /\ Enter(c, "opened")
    <3>1. Busy' = Busy /\ Saving' = {c}
      BY <1>0, <1>2, <2>1, <2>2 DEF Enter, Busy, Saving
    <3> QED BY <1>b, <2>1, <2>2, <3>1 DEF Intact
  <2>3. CASE UNCHANGED stateFile /\ Enter(c, "failed")
    <3>1. Busy' = {} /\ Saving' = {}
      BY <1>0, <2>1, <2>3 DEF Enter, Busy, Saving
    <3> QED BY <1>b, <2>1, <2>3, <3>1 DEF Intact
  <2> QED BY <1>2, <2>2, <2>3 DEF Open
<1>3. ASSUME NEW c \in Command, Write(c) PROVE Intact'
  <2>1. /\ copy[c] = EntriesOf(Promised(expected, c, job[c]))
        /\ stateFile = Torn /\ Busy = {c}
    BY <1>3, <1>a, SavedIsPromised DEF Write
  <2>2. stateFile' = Holding(copy[c]) /\ Enter(c, "done") /\ expected' = Promised(expected, c, job[c])
    BY <1>3, <1>a, <2>1 DEF Write, Torn
  <2>3. Busy' = {} /\ Saving' = {}
    BY <1>0, <2>1, <2>2 DEF Enter, Busy, Saving
  <2>4. stateFile'.kind # "torn" /\ stateFile'.entries = EntriesOf(expected')
    BY <2>1, <2>2 DEF Holding
  <2> QED BY <2>3, <2>4 DEF Intact
<1>4. ASSUME NEW c \in Command, Die(c) PROVE Intact'
  <2>1. /\ c \in Busy /\ c \notin Saving /\ phase' = [phase EXCEPT ![c] = "dead"]
        /\ UNCHANGED <<stateFile, job, copy, expected>>
    BY <1>4 DEF Die, Enter
  <2>2. Busy' = {} /\ Saving' = {} /\ Saving = {}
    BY <1>0, <1>b, <2>1 DEF Busy, Saving
  <2> QED BY <1>b, <2>1, <2>2 DEF Intact
<1>5. CASE StartGateway \/ UNCHANGED storeVars
  <2>1. UNCHANGED <<stateFile, phase, job, copy, expected>>
    BY <1>5 DEF StartGateway, storeVars
  <2>2. Busy' = Busy /\ Saving' = Saving
    BY <2>1 DEF Busy, Saving
  <2> QED BY <1>b, <2>1, <2>2 DEF Intact
<1> QED BY <1>1, <1>2, <1>3, <1>4, <1>5 DEF StoreNext

\* The file is intact at first.
LEMMA StoreInvInit == StoreInit => StoreInv
<1> SUFFICES ASSUME StoreInit PROVE StoreInv
  OBVIOUS
<1>1. expected \in Tables
  <2>1. PICK ids \in SUBSET Provider : expected \in [ids -> ByHand]
    BY DEF StoreInit, ByHandTables
  <2>2. ByHand \subseteq Row
    BY DEF ByHand, Row, Time, Bridge, AsrKind
  <2>3. expected \in [ids -> Row]
    BY <2>1, <2>2
  <2> QED BY <2>3 DEF Tables
<1>2. \/ stateFile = Holding(EntriesOf(expected))
      \/ stateFile = NoFile /\ DOMAIN expected = {}
  BY DEF StoreInit
<1>3. /\ stateFile \in StoreFile /\ (stateFile.kind # "whole" => stateFile.entries = {})
      /\ stateFile.kind # "torn" /\ stateFile.entries = EntriesOf(expected)
  <2>1. EntriesOf(expected) \subseteq Entry
    BY <1>1, EntriesOfTable
  <2>2. DOMAIN expected = {} => EntriesOf(expected) = {}
    BY DEF EntriesOf
  <2> QED BY <1>2, <2>1, <2>2 DEF Holding, NoFile, StoreFile
<1>4. StoreTypeOK
  BY <1>1, <1>3 DEF StoreInit, StoreTypeOK, Refused
<1>5. Busy = {} /\ Saving = {}
  BY DEF StoreInit, Busy, Saving
<1> QED BY <1>3, <1>4, <1>5 DEF StoreInv, Intact

LEMMA StoreInductive == StoreSpec => []StoreInv
<1>1. StoreInv /\ [StoreNext]_storeVars => StoreInv'
  BY StoreTypeStep, IntactStep DEF StoreInv
<1> QED BY <1>1, StoreInvInit, PTL DEF StoreSpec

-----------------------------------------------------------------------------
\* The ids shown as enabled are those that the table has switched on.
LEMMA StatusShowsTable ==
  ASSUME NEW table \in Tables
  PROVE  {row.id : row \in {r \in StatusRows(EntriesOf(table)) : r.enabled}} = EnabledIn(table)
<1> DEFINE entries == EntriesOf(table)
           ids == DOMAIN Catalog \cup {e.id : e \in entries}
           shown == {row.id : row \in {r \in StatusRows(entries) : r.enabled}}
           On(id) == \E e \in Named(entries, id) : e.enabled
<1>1. ASSUME NEW id PROVE On(id) <=> id \in EnabledIn(table)
  <2>1. id \in DOMAIN table => EntryOf(id, table[id]).enabled = table[id].enabled
    BY DEF EntryOf
  <2> QED BY <2>1, NamedInTable DEF EnabledIn
<1>2. ASSUME NEW id PROVE On(id) => id \in ids
  BY DEF Named
<1> DEFINE Shown(id) == [id |-> id, installed |-> Named(entries, id) # {}, enabled |-> On(id)]
<1>3. StatusRows(entries) = {Shown(id) : id \in ids}
  BY DEF StatusRows
<1>4. ASSUME NEW id PROVE Shown(id).id = id /\ (Shown(id).enabled <=> On(id))
  OBVIOUS
<1> HIDE DEF ids, On, Shown
<1>5. ASSUME NEW id PROVE id \in shown <=> id \in ids /\ On(id)
  BY <1>3, <1>4
<1> HIDE DEF shown
<1>6. shown = EnabledIn(table)
  BY <1>1, <1>2, <1>5
<1> QED BY <1>6 DEF shown

\* `speechmeshd providers install | uninstall | enable | disable`, one after the
\* other and none cut short, leave the file that they promise together, and
\* `providers list` shows it (install_asr_provider, save_asr_provider_state,
\* list_provider_statuses).
THEOREM CommandsAreKept == StoreSpec => []CommandsTakeEffect
<1>1. StoreInv => CommandsTakeEffect
  <2> SUFFICES ASSUME StoreInv, ~disturbed, Saving = {}
               PROVE  /\ stateFile.kind # "torn" /\ stateFile.entries = EntriesOf(expected)
                      /\ {row.id : row \in {r \in StatusRows(stateFile.entries) : r.enabled}} =
                           EnabledIn(expected)
    BY DEF CommandsTakeEffect
  <2>1. stateFile.kind # "torn" /\ stateFile.entries = EntriesOf(expected) /\ expected \in Tables
    BY DEF StoreInv, Intact, StoreTypeOK
  <2> QED BY <2>1, StatusShowsTable
<1> QED BY <1>1, StoreInductive, PTL

-----------------------------------------------------------------------------
\* What a gateway looks at in an entry, and in the row of an id.
Look(e) ==
  [id |-> e.id, enabled |-> e.enabled, kind |-> e.bridge.kind, keyFile |-> e.bridge.keyFile, at |-> e.at]

LookAt(id, row) ==
  [id |-> id, enabled |-> row.enabled, kind |-> row.bridge.kind, keyFile |-> row.bridge.keyFile, at |-> row.at]

LEMMA LookFields ==
  ASSUME NEW id, NEW row
  PROVE  /\ LookAt(id, row).id = id /\ LookAt(id, row).enabled = row.enabled
         /\ LookAt(id, row).kind = row.bridge.kind /\ LookAt(id, row).keyFile = row.bridge.keyFile
  BY DEF LookAt

\* What a gateway finds of a table.
LEMMA ServedOfTable ==
  ASSUME NEW table, stateFile.entries = EntriesOf(table)
  PROVE  Served.entries = {LookAt(i, table[i]) : i \in DOMAIN table}
<1>1. Served.entries = {Look(e) : e \in EntriesOf(table)}
  BY DEF Served, Look
<1>2. EntriesOf(table) = {EntryOf(i, table[i]) : i \in DOMAIN table}
  BY DEF EntriesOf, EntryOf
<1>3. ASSUME NEW i PROVE Look(EntryOf(i, table[i])) = LookAt(i, table[i])
  BY DEF Look, LookAt, EntryOf
<1> QED BY <1>1, <1>2, <1>3

\* The gateway that is built from a whole file serves the table's enabled ids.
LEMMA GatewayOfTable ==
  ASSUME NEW table \in Tables, NEW env,
         stateFile.entries = EntriesOf(table)
  PROVE  LET g == FromConfig(Served.entries, env)
         IN IF g.up
            THEN /\ g.providers = EnabledIn(table)
                 /\ g.registry = (\E i \in EnabledIn(table) : table[i].bridge.kind = "agent")
            ELSE EnabledIn(table) = {} \/ NeedsKey(table)
<1> DEFINE on == {e \in Served.entries : e.enabled}
           g == FromConfig(Served.entries, env)
<1>1. Served.entries = {LookAt(i, table[i]) : i \in DOMAIN table}
  BY ServedOfTable
<1>2. on = {LookAt(i, table[i]) : i \in EnabledIn(table)}
  BY <1>1, LookFields DEF EnabledIn
<1>3. {e.id : e \in on} = EnabledIn(table)
  BY <1>2, LookFields
<1>4. (\E e \in on : e.kind = "agent") <=> \E i \in EnabledIn(table) : table[i].bridge.kind = "agent"
  BY <1>2, LookFields
<1>5. (\A e \in on : CanBuild(e, env)) \/ NeedsKey(table)
  BY <1>2, LookFields DEF CanBuild, ProviderKey, NeedsKey
<1>6. \A e, f \in on : e.id = f.id => e = f
  BY <1>2, LookFields
<1>7. on = {} <=> EnabledIn(table) = {}
  BY <1>3
<1>8. CASE on # {} /\ \A e \in on : CanBuild(e, env)
  <2>1. g = Serving({e.id : e \in on}, \E e \in on : e.kind = "agent")
    BY <1>6, <1>8 DEF FromConfig
  <2> HIDE DEF on
  <2>2. /\ g.up /\ g.providers = {e.id : e \in on}
        /\ g.registry = (\E e \in on : e.kind = "agent")
    BY <2>1 DEF Serving
  <2> QED BY <1>3, <1>4, <2>2
<1>9. CASE ~(on # {} /\ \A e \in on : CanBuild(e, env))
  <2>1. g = Refused
    BY <1>9 DEF FromConfig
  <2> QED BY <1>5, <1>7, <1>9, <2>1 DEF Refused
<1> QED BY <1>8, <1>9

\* A gateway that is started between the commands, or while one has read the
\* file and not yet opened it, serves exactly what is switched on
\* (select_asr_bridges_from_config, build_installed_asr_bridge).
THEOREM GatewayServesSwitchedOn == StoreSpec => GatewayServesTable
<1>1. ASSUME StoreInv, StoreNext, starts' # starts, ~disturbed
      PROVE  IF gateway'.up
             THEN /\ gateway'.providers = EnabledIn(expected)
                  /\ gateway'.registry = (\E i \in EnabledIn(expected) : expected[i].bridge.kind = "agent")
             ELSE EnabledIn(expected) = {} \/ NeedsKey(expected) \/ Saving # {}
  <2>1. StartGateway
    BY <1>1 DEF StoreNext, Load, Open, Write, Die
  <2>2. PICK env : gateway' = SelectAsr([config |-> FALSE, state |-> TRUE, env |-> env], Served)
    BY <2>1 DEF StartGateway
  <2>3. Served.kind = stateFile.kind
    BY DEF Served
  <2>4. gateway' = IF stateFile.kind = "whole" THEN FromConfig(Served.entries, env) ELSE Refused
    BY <2>2, <2>3 DEF SelectAsr
  <2>5. CASE Saving # {}
    <3>1. stateFile.kind = "torn"
      BY <1>1, <2>5 DEF StoreInv, Intact, Torn
    <3> QED BY <2>4, <2>5, <3>1 DEF Refused
  <2>6. CASE Saving = {} /\ stateFile.kind = "whole"
    <3>1. stateFile.entries = EntriesOf(expected) /\ expected \in Tables
      BY <1>1, <2>6 DEF StoreInv, Intact, StoreTypeOK
    <3> QED BY <2>4, <2>6, <3>1, GatewayOfTable
  <2>7. CASE Saving = {} /\ stateFile.kind # "whole"
    <3>1. stateFile.entries = {} /\ stateFile.entries = EntriesOf(expected)
      BY <1>1, <2>7 DEF StoreInv, Intact, StoreTypeOK
    <3>2. EnabledIn(expected) = {}
      BY <3>1 DEF EntriesOf, EnabledIn
    <3> QED BY <2>4, <2>7, <3>2 DEF Refused
  <2> QED BY <2>5, <2>6, <2>7
<1> QED BY <1>1, StoreInductive, PTL DEF StoreSpec, GatewayServesTable

-----------------------------------------------------------------------------
(* The updates of a host with a single updater.  With two of them the        *)
(* invariants do not hold: they share the temporary and the backup file.     *)

Names == {"target", "temp", "prev"}

\* The steps with a release that is newer than the process, and those with the
\* release in the temporary file.
Resolved == {"download", "write", "writing", "perms", "clean", "backup", "install",
             "restart", "applied"}
Written  == {"perms", "clean", "backup", "install"}

(* With TypeOK the inductive invariant: the names are of different files, and only the
   temporary file can be torn, unless it was written and is about to be swapped
   in; the binary is away only while the backup is there. *)
Shape(p) ==
  /\ \A m, n \in Names : m # n /\ file[m] # 0 => file[m] # file[n]
  /\ fd[p] # 0 => fd[p] = file["temp"]
  /\ file["target"] # 0 => data[file["target"]] # 0
  /\ file["prev"] # 0 => data[file["prev"]] # 0
  /\ file["target"] # 0 \/ file["prev"] # 0
  /\ pc[p] \in {"clean", "backup"} => file["target"] # 0
  /\ pc[p] = "install" => file["prev"] # 0 /\ file["target"] = 0
  /\ pc[p] \in Resolved => rel[p] > ver[p]
  /\ pc[p] \in Written => file["temp"] # 0 /\ data[file["temp"]] = rel[p]
  /\ pc[p] \in {"restart", "applied"} => file["target"] # 0 /\ data[file["target"]] = rel[p]

AloneInv(p) == TypeOK /\ Shape(p)

\* There are four inodes.
LEMMA FourInodes ==
  ASSUME NEW p, Proc = {p}
  PROVE  Inode = 1..4
<1>1. Cardinality(Proc) = 1
  BY FS_Singleton
<1> QED BY <1>1 DEF Inode

LEMMA AloneInit ==
  ASSUME NEW p, Proc = {p}
  PROVE  Init => AloneInv(p)
<1> SUFFICES ASSUME Init PROVE AloneInv(p)
  OBVIOUS
<1>1. Inode = 1..4
  BY FourInodes
<1>2. TypeOK
  BY <1>1, UpdaterAssumption DEF Init, TypeOK, Version, Step
<1> QED BY <1>1, <1>2 DEF Init, AloneInv, Shape, Names, Resolved, Written

\* What TypeOK says of a single updater.
LEMMA AloneTypes ==
  ASSUME NEW p, Proc = {p}
  PROVE  TypeOK <=> /\ file \in [Names -> 0..4] /\ data \in [1..4 -> {0} \cup Version]
                    /\ manifest \in Version /\ ver \in [{p} -> Version] /\ rel \in [{p} -> Version]
                    /\ pc \in [{p} -> Step] /\ fd \in [{p} -> 0..4]
                    /\ (fd[p] # 0 <=> pc[p] = "writing")
                    /\ crashes \in 0..MaxCrashes /\ faults \in 0..MaxFaults
<1>1. {0} \cup Inode = 0..4 /\ Inode = 1..4
  BY FourInodes
<1> QED BY <1>1 DEF TypeOK, Names

\* The temporary file that is opened is the one that is there, or a new one.
LEMMA OpensTempOrFree ==
  ASSUME NEW p, Proc = {p}, TypeOK, OpenTemp(p)
  PROVE  \E i \in 1..4 : /\ fd' = [fd EXCEPT ![p] = i]
                         /\ file' = [file EXCEPT !["temp"] = i]
                         /\ data' = [data EXCEPT ![i] = 0]
                         /\ (i # file["target"] /\ i # file["prev"]) \/ i = file["temp"]
<1>t. file \in [Names -> 0..4] /\ fd \in [{p} -> 0..4] /\ fd[p] = 0
  <2>1. pc[p] # "writing"
    BY DEF OpenTemp
  <2> QED BY <2>1, AloneTypes
<1>1. CASE file["temp"] # 0
  <2>1. file["temp"] \in 1..4
    BY <1>t, <1>1 DEF Names
  <2> QED BY <1>1, <2>1 DEF OpenTemp
<1>2. CASE file["temp"] = 0
  <2> DEFINE k == CHOOSE j \in Free : TRUE
  <2>1. PICK j \in 1..4 : j # file["target"] /\ j # file["prev"]
    BY <1>t DEF Names
  <2>2. j \in Free
    BY <1>t, <1>2, <2>1, FourInodes DEF Free, Names
  <2>3. k \in Free
    BY <2>2
  <2>4. /\ fd' = [fd EXCEPT ![p] = k]
        /\ file' = [file EXCEPT !["temp"] = k]
        /\ data' = [data EXCEPT ![k] = 0]
    BY <1>2 DEF OpenTemp
  <2> HIDE DEF k
  <2>5. k \in 1..4 /\ k # file["target"] /\ k # file["prev"]
    BY <1>t, <2>3, FourInodes DEF Free, Names
  <2> QED BY <2>4, <2>5
<1> QED BY <1>1, <1>2

\* Every step keeps the types.
LEMMA AloneTypeStep ==
  ASSUME NEW p, Proc = {p}, AloneInv(p), [Next]_vars
  PROVE  TypeOK'
<1>t. /\ file \in [Names -> 0..4] /\ data \in [1..4 -> {0} \cup Version]
      /\ manifest \in Version /\ ver \in [{p} -> Version] /\ rel \in [{p} -> Version]
      /\ pc \in [{p} -> Step] /\ fd \in [{p} -> 0..4]
      /\ (fd[p] # 0 <=> pc[p] = "writing")
      /\ crashes \in 0..MaxCrashes /\ faults \in 0..MaxFaults
  BY AloneTypes DEF AloneInv
<1>0. SUFFICES /\ file' \in [Names -> 0..4] /\ data' \in [1..4 -> {0} \cup Version]
               /\ manifest' \in Version /\ ver' \in [{p} -> Version] /\ rel' \in [{p} -> Version]
               /\ pc' \in [{p} -> Step] /\ fd' \in [{p} -> 0..4]
               /\ (fd'[p] # 0 <=> pc'[p] = "writing")
               /\ crashes' \in 0..MaxCrashes /\ faults' \in 0..MaxFaults
  <2>1. {0} \cup Inode = 0..4 /\ Inode = 1..4
    BY FourInodes
  <2> QED BY <2>1 DEF TypeOK, Names
<1> USE UpdaterAssumption
<1>1. CASE Publish
  BY <1>1, <1>t DEF Publish, Version
<1>2. CASE Start(p) \/ Check(p) \/ Plan(p) \/ Download(p)
  BY <1>2, <1>t DEF Start, Check, Plan, Download, Goto, Whole, VersionOf, Step, Names
<1>3. CASE OpenTemp(p)
  <2>2. PICK i \in 1..4 : /\ fd' = [fd EXCEPT ![p] = i]
                          /\ file' = [file EXCEPT !["temp"] = i]
                          /\ data' = [data EXCEPT ![i] = 0]
    BY <1>3, OpensTempOrFree DEF AloneInv
  <2> QED BY <1>3, <1>t, <2>2 DEF OpenTemp, Goto, Step, Names
<1>4. CASE WriteTemp(p) \/ Restart(p) \/ EndCycle(p) \/ Crash(p)
  BY <1>4, <1>t DEF WriteTemp, Restart, EndCycle, Crash, Goto, Fault, Step
<1>5. CASE CopyPermissions(p) \/ RemovePrev(p)
  BY <1>5, <1>t DEF CopyPermissions, RemovePrev, Goto, Fault, Step, Names
<1>6. CASE BackUp(p)
  BY <1>6, <1>t DEF BackUp, Goto, Fault, Step, Names
<1>7. CASE Install(p)
  <2>1. file' \in [Names -> 0..4]
    BY <1>7, <1>t DEF Install, Restored, Names
  <2> QED BY <1>7, <1>t, <2>1 DEF Install, Goto, Fault, Step
<1>8. CASE UNCHANGED vars
  BY <1>8, <1>t DEF vars
<1> QED BY <1>1, <1>2, <1>3, <1>4, <1>5, <1>6, <1>7, <1>8 DEF Next, Cycle

\* Every step keeps the shape of the files.
LEMMA ShapeStep ==
  ASSUME NEW p, Proc = {p}, AloneInv(p), [Next]_vars
  PROVE  Shape(p)'
<1>t. /\ file \in [Names -> 0..4] /\ data \in [1..4 -> {0} \cup Version]
      /\ manifest \in Version /\ ver \in [{p} -> Version] /\ rel \in [{p} -> Version]
      /\ pc \in [{p} -> Step] /\ fd \in [{p} -> 0..4]
      /\ (fd[p] # 0 <=> pc[p] = "writing")
      /\ Version \subseteq Nat \ {0}
  <2>1. Version \subseteq Nat \ {0}
    BY DEF Version
  <2> QED BY <2>1, AloneTypes DEF AloneInv
<1>s. Shape(p)
  BY DEF AloneInv
<1> USE DEF Shape, Names, Resolved, Written, Goto
<1>1. CASE Publish \/ UNCHANGED vars
  BY <1>1, <1>s DEF Publish, vars
<1>2. CASE Start(p) \/ Check(p) \/ Plan(p) \/ Download(p)
  BY <1>2, <1>t, <1>s DEF Start, Check, Plan, Download
<1>3. CASE OpenTemp(p)
  <2>1. PICK i \in 1..4 : /\ fd' = [fd EXCEPT ![p] = i]
                          /\ file' = [file EXCEPT !["temp"] = i]
                          /\ data' = [data EXCEPT ![i] = 0]
                          /\ (i # file["target"] /\ i # file["prev"]) \/ i = file["temp"]
    BY <1>3, OpensTempOrFree DEF AloneInv
  <2>2. pc[p] = "write" /\ pc' = [pc EXCEPT ![p] = "writing"] /\ UNCHANGED <<ver, rel>>
    BY <1>3 DEF OpenTemp
  <2>3. i # file["target"] /\ i # file["prev"]
    BY <1>s, <2>1
  <2>4. /\ file'["temp"] = i /\ file'["target"] = file["target"] /\ file'["prev"] = file["prev"]
        /\ fd'[p] = i /\ pc'[p] = "writing"
    BY <1>t, <2>1, <2>2
  <2>5. \A k \in 1..4 : k # i => data'[k] = data[k]
    BY <1>t, <2>1
  <2>6. /\ file["target"] # 0 => data'[file["target"]] # 0
        /\ file["prev"] # 0 => data'[file["prev"]] # 0
    BY <1>t, <1>s, <2>3, <2>5
  <2> QED BY <1>t, <1>s, <2>2, <2>3, <2>4, <2>6
<1>4. CASE WriteTemp(p)
  <2>1. fd[p] # 0 /\ fd[p] = file["temp"] /\ fd[p] # file["target"] /\ fd[p] # file["prev"]
    BY <1>4, <1>t, <1>s DEF WriteTemp
  <2>2. CASE data' = [data EXCEPT ![fd[p]] = rel[p]] /\ Goto(p, "perms")
    BY <1>4, <1>t, <1>s, <2>1, <2>2 DEF WriteTemp
  <2>3. CASE data' = data /\ Goto(p, "failed")
    BY <1>4, <1>t, <1>s, <2>1, <2>3 DEF WriteTemp
  <2> QED BY <1>4, <2>2, <2>3 DEF WriteTemp, Fault
<1>5. CASE CopyPermissions(p) \/ RemovePrev(p)
  BY <1>5, <1>t, <1>s DEF CopyPermissions, RemovePrev, Fault
<1>6. CASE BackUp(p)
  BY <1>6, <1>t, <1>s DEF BackUp, Fault
<1>7. CASE Install(p)
  <2>1. (file' \in {Restored, file} /\ Goto(p, "failed")) \/
        (file["temp"] # 0 /\ file' = [file EXCEPT !["target"] = file["temp"], !["temp"] = 0] /\ Goto(p, "restart"))
    BY <1>7 DEF Install, Fault
  <2>2. pc[p] = "install" /\ UNCHANGED <<data, ver, rel, fd>>
    BY <1>7 DEF Install
  <2>3. CASE file' = Restored /\ Goto(p, "failed")
    BY <1>t, <1>s, <2>2, <2>3 DEF Restored
  <2>4. CASE file' = file /\ Goto(p, "failed")
    BY <1>t, <1>s, <2>2, <2>4
  <2>5. CASE file["temp"] # 0 /\ file' = [file EXCEPT !["target"] = file["temp"], !["temp"] = 0] /\ Goto(p, "restart")
    BY <1>t, <1>s, <2>2, <2>5
  <2> QED BY <2>1, <2>3, <2>4, <2>5
<1>8. CASE Restart(p) \/ EndCycle(p) \/ Crash(p)
  BY <1>8, <1>t, <1>s DEF Restart, EndCycle, Crash, Fault
<1> QED BY <1>1, <1>2, <1>3, <1>4, <1>5, <1>6, <1>7, <1>8 DEF Next, Cycle

LEMMA AloneInductive ==
  ASSUME NEW p, Proc = {p}
  PROVE  Spec => []AloneInv(p)
<1>1. AloneInv(p) /\ [Next]_vars => AloneInv(p)'
  BY AloneTypeStep, ShapeStep DEF AloneInv
<1>2. Init => AloneInv(p)
  BY AloneInit
<1> QED BY <1>1, <1>2, PTL DEF Spec

\* With a single updater, what stands under the binary's name can be run, after
\* any number of releases, crashes and failures (replace_binary: the binary is
\* written under another name).
THEOREM AloneNeverTorn ==
  ASSUME NEW p, Proc = {p}
  PROVE  Spec => []NeverTorn
<1>1. AloneInv(p) => NeverTorn
  BY DEF AloneInv, Shape, NeverTorn, Whole
<1> QED BY <1>1, AloneInductive, PTL

\* ... and there is always the binary or its backup (replace_binary: the old
\* binary is renamed, and the backup put back when the second rename fails).
THEOREM AloneSomethingToRun ==
  ASSUME NEW p, Proc = {p}
  PROVE  Spec => []SomethingToRun
<1>1. AloneInv(p) => SomethingToRun
  BY DEF AloneInv, Shape, SomethingToRun, Whole
<1> QED BY <1>1, AloneInductive, PTL

\* ... and an update that is reported is there, and newer than the process that
\* made it (execute_self_update compares before it downloads).
THEOREM AloneAppliedIsNewer ==
  ASSUME NEW p, Proc = {p}
  PROVE  Spec => []AppliedIsNewer
<1>1. AloneInv(p) => AppliedIsNewer
  BY AloneTypes DEF AloneInv, Shape, AppliedIsNewer, Whole, VersionOf, Resolved, Version
<1> QED BY <1>1, AloneInductive, PTL
=============================================================================
