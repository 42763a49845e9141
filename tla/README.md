# SpeechMesh in TLA+

SpeechMesh is a gateway for speech: clients open ASR and TTS sessions over a
WebSocket, the gateway serves them with bridges to providers, and agents on
other machines connect to it to provide ASR or to play audio. This directory
holds TLA+ models of the parts of it that run concurrently, can fail half-way or
decide something, the TLC runs that check them, and TLAPS proofs.

```
tlc -workers 2 -config RegistrySafety.cfg MCAgentRegistry       # one run
tlapm AgentRegistryProofs.tla                                   # proofs
```

`PROJECT.json` lists the components, the runs with what they check, the source
lines each definition stands for, a mutant per checked property, the findings,
the hazards and the theorems.

## 1. The system

| Component | State | Operations | Talks to | What is hard | What makes it correct |
|---|---|---|---|---|---|
| Agent registry (`speechmeshd/src/agent.rs`, `device/src/registry.rs`) | `agents`, `tasks`, `task_waiters`, `sessions`, each behind a lock of its own | register, unregister, route a task, report a status | agent connections, control requests, remote sessions | an operation is several critical sections; connections of one agent overlap | no route, waiter or registration outlives its owner; nobody waits unreachably |
| Agent connection, gateway side (`handle_agent_connection`) | hello, heartbeat, command channel, writer | read, ping, tear down | registry, agents | full channels, silent peers, `?` before the clean-up | a silent agent is dropped; the loss is reported |
| Control plane (`server.rs`, `handle_control_play_audio`) | one waiter per request | start, chunks, finish, timeout | registry | a status that races the timeout and the loss of the agent | every request is answered, truthfully |
| Client sessions (`server.rs`) | `active_session`, event pump, outbound channel | start, input, commit, stop, disconnect | bridges | loop, pump and bridge are tasks joined by bounded channels | documented message order; every session ends; nothing leaks |
| Bridges (`bridges/`) | a task per session with command and event channels | input, commit, stop | providers over HTTP, WebSocket, pipes, TCP | the handle may go away while the provider is called | an end for every session |
| MiniMax WebSocket session (`tts/minimax_http.rs`) | `started`, `task_start_sent`, `committed`, two buffers | append, commit, stop, provider events | MiniMax | client and provider race around `task_started` | the text arrives once, in order, before `task_finish` |
| Remote ASR sessions (`RemoteAgentAsrBridge`) | `sessions` entry, acknowledgement, forwarder | start, forward, events, loss of the agent | registry, local agent | the agent leaves while a session starts | the start returns; the client hears of the end |
| Local ASR agent (`run_local_agent`) | `sessions` map, pump and helper process per session | SessionStart, -Audio, -Commit, -Stop | gateway, helper process | pump, writer, map and helper hold each other's ends | sessions are released; the agent reconnects |
| Device agent (`speechmesh_agent/runtime.rs`) | `TaskTracker`, players, heartbeat | play start, chunk, finish | gateway, player process | one loop reads, writes to players and keeps the heartbeat | "finished" means played; no player is left behind |
| Updater (`app/src/main.rs`) | binary, temporary file, backup | check, download, swap, restart | release manifest, service manager | crashes and failures between renames; two updaters | a whole binary is always left |
| Device model and routing (`device/src/router.rs`, `model.rs`) | none (pure) | select by endpoint, by direction | registry | a snapshot that is stale when the agent is looked up | the choice meets the request, and another agent is tried |
| Composite bridges (`bridges/*/composite.rs`) | none (pure) | select by id, by capabilities | bridges | ties, routes, "auto" with an id | the best that has what is required |
| Release selection (`app/src/main.rs`) | none (pure) | select, compare, plan | manifest | versions that are not all semantic | what is announced is what is installed |
| Provider store (`providers.rs`) | a JSON file | install, uninstall, enable, disable, list | CLI, gateway start | unlocked read-modify-write, a write in place | commands take effect; the file stays readable |
| Gateway start-up (`speechmeshd/src/main.rs`) | none | choose bridges from arguments, state file, keys | provider store | a file that is being saved | it serves what is switched on, or says why not |
| Rust SDK (`sdks/rust/src/lib.rs`) | active session, request ids | connect, discover, start, send, receive, stop | gateway | answers matched by id, audio without an id, calls that are dropped | a call returns, with its own answer |
| Command line client (`bin/speechmesh-cli.rs`) | configuration file | commands as sequences of calls; settings by precedence | SDK | errors in the middle of a command; indentation | commands end; what is written is read |
| Apple ASR helper (`bridges/apple-asr/.../main.swift`) | sessions with their `ended` flag and recognition task, the LineWriter | start, audio, commit, stop, recognition callbacks, end of stdin | local agent, the speech framework | handlers and callbacks share an actor and interleave at every await | the end of a session is told once; a stop and the end of stdin end it |
| Players, MeloTTS bridge | helper processes | | device agent, gateway | | |
| Message types, scripts, demo apps, Go and Swift SDKs | none of their own | | | | |

The interactions: an agent connects to `/agent` and registers; `/control`
requests and remote sessions find it in the registry and send it commands
through its connection's channel of 64; its reports come back through its
connection's handler, which resolves waiters and forwards session events; client
connections own sessions, whose bridges may be remote sessions. The SDK is the other
end of a client connection, the command line client a program that calls it. The
provider commands write the file a gateway is started from; the updater replaces the
binary it is started with.

## 2. Modules

One module per component, an `MC` module that instantiates it, `.cfg` files named
after the question they ask. Faulty variants of definitions stand in a section of
their own; no specification uses them, the mutants do.

**AgentRegistry** — registry, agent connections, `play_audio` requests. An action
is one critical section of one lock, or one send on a channel: what a handler does
between two `.await`s that touch shared state. `reqPc` and `connPc` are the places
of `handle_control_play_audio` and `handle_agent_connection`; `agents`, `tasks` and
`waiters` are the maps; `answer` is the oneshot; `orphans` and `report` are what a
handler took out of one map and still has to apply to the other. A command channel
is up, stalled (full) or down.

**SessionProtocol** — what a session looks like to a client, from
`docs/websocket-protocol.md` and the code: started, results or audio, for TTS
`tts.audio.done`, ended, nothing more. **ClientSession** — `handle_client_websocket`
with its loop, the event pump of each session, and the bridge behind it as the set
of reactions it may have to a command (`MockAsrDecisions`, `HttpAsrDecisions`,
`HttpTtsDecisions`, `WsTtsDecisions`) and to its provider (`WsTtsPushes`,
`BridgeLines`). The bridges in `Pipe` have a second task that writes to a process or a
TCP peer, which may stall, go on for ever or break. Channels have a capacity and block. `sent` is what a session's client
was told of the session, `replies` the errors that answer single frames. `FollowsProtocol`
is the refinement: `sent` implements `SessionProtocol` for the sessions in `Answering`,
those whose bridge only answers commands.

**RemoteAsrSession** — `RemoteAgentAsrBridge::start_stream`, `forward_commands_to_agent`,
the `sessions` map and what connection handlers do to it when an agent registers
again, leaves or breaks. `route` is the entry, `lost` what a sweep took out and has
not told yet, `ack` the acknowledgement. The command channel of an agent is up, stalled
(full) or down, as in AgentRegistry: `SendStart`, `ForwardCommand` and `SendHelloOk` wait
for room in it.

**DeviceAgent** — the agent's `run_forever` and `run_once`, the frames between it
and the gateway, and the player processes. `written` and `player` are what really
happened to a request, `result` what the requester was told.

**LocalAgent** — `run_local_agent`, the event pumps and what the agent sees of the
helpers. A helper's stdin is open exactly while its controller is in the map or in the
hands of the loop. **AppleAsrBridge** — the Swift helper, one process with the one
session the agent gives it. `task` says for the main loop and for each recognition
callback which await it is in and with which line; `ended` and `known` are the
session's flag and its entry in the controller. **AppleLocalAgent** — the two together:
the session in `served`, if any, has an Apple helper, every step of which is a step of
the agent's world (a line that is read is an event of the pump, a process that is gone
and whose output is read has exited). Other sessions have a helper of which only
LocalAgent's protocol is known. `AppleSpec` implements LocalAgent's `Spec`
(`AppleIsAHelper`).

**MinimaxWs** — `run_minimax_ws_session`. `told` is the text the provider was sent,
`frames` the starts and finishes with the text sent by then. Text is a sequence of
tokens, with a blank, so that `trim` can be modelled.

**Updater** — the update cycle and `replace_binary`, one action per file operation.
Files are inodes: a process that has the temporary file open keeps writing to it
after another process renamed it.

**SdkClient** — the Rust SDK's `Client` and as much of the gateway as it can tell
apart. A program is a sequence of calls; `at` is the call it is at, `wait` what the
call reads for, `session` and `domain` are the client's idea of its session, `active`
and `ses` the gateway's. `Receive` is the receive loop of every call, with
`observe_message`. **CliCommands** — each command of the command line client as such a
program. **CliConfig** — `parse_file_config` as one step per line, and which of options,
voice profiles, profiles and defaults wins. **MCConfig** evaluates it on small files.

**ProviderStore** — the provider commands on the state file: load, open (which cuts the
file), write, each of which can fail or be the last thing a command does; and the
gateway that is started from the file. `expected` is a table kept beside it to say what
the commands promised. **GatewayBoot** — from arguments, keys and files to the providers
that are served, or to a refusal.

**EndpointRouting**, **ProviderSelection**, **ReleaseSelection** — the algorithms without
a state, as operators. Where the code leaves a choice open (a hash map's order, a sort
by a comparison that is not an order) the operator is the set of what it may return.
**MCAlgorithms** compares them with definitions written the way the code loops.

**MCClientSession** has a `scenario` that says which two sessions the client uses, so
that one run meets several kinds of bridge. **MCParts** — the run of Updater,
ProviderStore and MinimaxWs, which nothing links; a behaviour is about one of them.

**AgentRegistryProofs**, **ClientSessionProofs**, **RemoteAsrSessionProofs**,
**DeviceAgentProofs**, **LocalAgentProofs**, **SdkClientProofs** — theorems about the
modules they are named after; **BridgeProofs** about MinimaxWs, ProviderSelection,
EndpointRouting and ReleaseSelection; **HostProofs** about ProviderStore, GatewayBoot and Updater (section 5).

Left out of all of them: wording, formats, options, audio contents, logging. A
socket write is taken to complete or to fail, unless the model has a stalled channel
for it.

## 3. Runs

Passing runs:

| Run | Checks | Shows |
|---|---|---|
| `registry_safety` | `RouteHasOwner`, `WaiterHasOwner`, `RegistrationIsServed`, `NotStranded` | two requests and two connections of one agent that replace each other: no route, waiter or registration without an owner; a waiting request with a generated id can always still be resolved |
| `registry_liveness` | `EveryRequestAnswered`, `SilentAgentDropped` | two requests with one client-chosen task id on an agent that stops reading or sending: every request is answered and the silent agent dropped, if channels drain or break |
| `session` | `TypeOK`, `TtsCompletion`, `FollowsProtocol`, `AskedEnds`, `BridgesReleased`, `HandlerReturns` | two sessions in a row, in three scenarios: on buffering bridges; on one of them and a WebSocket provider that pushes unasked; on a bridge process and the MiniMax ASR bridge, whose calls fail. They refine `SessionProtocol`; `tts.audio.done` comes once, right before the end; commits and stops lead to an end; bridge tasks return; so does the handler of a closing connection, if a process whose stdin has ended closes its stdout |
| `remote` | `TypeOK`, `AckNotLost`, `LiveReachable`, `StartedRouteServed`, `EveryStartReturns`, `LostAgentReported` | one session and two connections of its agent that stall, drain, break or replace each other: acknowledgements are not lost, clients stay reachable; a start returns and a lost agent is reported, if a full command channel drains or breaks |
| `device` | `TypeOK`, `FinishedMeansPlayed`, `FedIsTracked`, `FinishAnswered`, `SilenceNoticed` | "finished" means that all audio was written and the player succeeded; no player is left with an open stdin nobody tracks; a finish is answered and a silent gateway is left, if players read or exit |
| `local_agent` | `MappedIsPumped`, `SessionsAreReleased`, `EndIsToldOnce` | two sessions, one with an Apple helper or none: the map holds running sessions only; ended and stopped sessions give back helper and pump, also after their connection; the end of an Apple session is told once |
| `parts` | `NeverTorn`, `SomethingToRun`, `AppliedIsNewer`, `UpdatesArrive`; `CommandsTakeEffect`, `GatewayServesTable`; `TextInOrder`, `FinishCoversCommit`, `CommittedTaskEnds` | the binary: a whole one is always left, none is torn, a reported update is in place, releases arrive; the provider state: commands take effect, a gateway serves what is switched on; a MiniMax session in both input modes: text once, in order, before `task_finish`, and a committed task ends. The `ASSUME`s of MCAlgorithms |
| `sdk` | `RunningSessionIsKnown`, `AnswerIsOwn`, `AudioReachesMeant`, `CallsReturn`, `CommandsFinish` | every command, and applications that call in any order, drop calls and go on after errors: what runs can be stopped, answers are one's own, audio goes where it is meant, calls return. The `ASSUME`s of MCConfig |

Every type invariant is proved (section 5), and those of ClientSession, RemoteAsrSession
and DeviceAgent are run as well: they are the ones that a bug in the code can break.

Runs that end in a counterexample, each against a sentence of the repository
(quoted under `findings`):

| Run | The code |
|---|---|
| `registry_reconnect` | the handler of a replaced connection unregisters the connection that replaced it |
| `session_failed` | the MiniMax ASR bridge leaves after a failed call without an end; the client that stays is never told |
| `sdk_next_session` | a start after a session that ended by itself is refused, without a request id, and the call waits on |
| `local_agent_reconnect` | with an Apple helper: waits for a writer that waits for pumps that wait for helpers whose stdin it holds |

What the `ASSUME`s say: a composite bridge's choice is that of the code's loop, for up
to three bindings; an ordered manifest's selection is that of a stable sort, for up to
three releases; `check-update` announces what `self-update` installs; the routing of an
agent without endpoints is that of the device it stands for, with the exceptions below;
a configuration in which any of ten settings is set is read back as written, with the
sections in twelve orders; nested project bindings are resolved to the deepest.

**Bounds.** Two connections of one agent are enough for replacement and for a clean-up
that overlaps a registration; two requests for every race on one task id; two sessions
for the reuse of a connection, with a different kind of bridge each; a third and a
fourth frame for what is sent to a session that has ended or is busy. Shared ids meet
one connection in `registry_liveness` and generated ids two in `registry_safety`; the
proofs of section 5 cover every combination. In `device` the two requests have ids of
their own on one connection, or one id on two connections; `sdk` runs the seven commands
and 445 applications of up to seven calls after connecting, with two sessions; in
`parts` two commands of each kind overlap on tables of two providers, and one updater
meets four versions, two crashes and two failing file operations. Channel capacities are
1 or 2 where the code has 32 or 64: full, empty and in-between occur. An Apple helper
has one callback under way and room for one command and one line in its pipes, which
lets a callback, a stop and an error of a cancelled recognition meet between any two
awaits; the proofs are for any number. Chunks, lines, pushes and appends are bounded by
what a property can tell apart (first, middle, last). `CHECK_DEADLOCK FALSE` everywhere:
connections and requests are used up, and the models stop when they are. Symmetry is
used in runs without temporal properties only.

**Fairness.** Weak fairness on the steps of the program's own tasks: tokio polls a task
that can move, and a timer fires. Nothing is assumed of what clients and agents send, or
that they send at all; a write to a client's socket completes or fails, and so a
session's event channel, which its pump empties, has room again. Of the other side each
specification says what else it needs: `DrainingSpec` of AgentRegistry and
RemoteAsrSession (a full command channel of an agent drains or its connection breaks; no
send has a timeout, so this is an assumption about agents and their sockets),
`ProcessFairness` of ClientSession (a bridge process reads its stdin or breaks it, and
closes its stdout once its stdin has ended), an HTTP call of a bridge that returns or
fails (its `request_timeout`), `ReadingSpec` (a player reads its stdin or exits), a
provider that keeps its protocol, a manifest that is reachable from time to time, a
gateway that handles frames and answers control requests (which the runs of
AgentRegistry and ClientSession check). Strong fairness is used for sends on a channel
that fills again and again, because the channel serves waiting senders in order, and for
steps that other legal traffic can interrupt again and again (`LeaveLoop` of the local
agent among buffered frames, only in `LeavingSpec`; a stopped helper's `asr.ended` among
its results). Of an Apple helper it is assumed that its tasks run, that its LineWriter
serves everyone who awaits it (strong fairness), that its pipes are read and that the
user answers the question for the authorization; nothing is assumed of the recognition.
Another helper is assumed to do what this makes an Apple helper do: to answer `asr.stop`
with `asr.ended` once it has taken its session, and to exit at the end of its input.

**What does not hold.** Several properties carry a condition because the code does
not do more. Each of these was met as a counterexample to the unconditional form:

- without `DrainingSpec` a silent agent is not dropped: the heartbeat branch awaits
  its own ping on a full channel (`agent.rs:909`);
- without `DrainingSpec` `start_stream` does not return either: it awaits room for
  `session.start` before `start_timeout` begins to run (`agent.rs:695`), and the frame
  loop of the client that started the session waits with it;
- the loop of an agent's connection awaits room in the event channel of each session
  (`agent.rs:353`), so a client that does not read holds up its agent's other sessions;
- without `ProcessFairness` a handler does not return: it awaits its pumps
  (`server.rs:466`), a pump reads until its bridge's stdout ends, and nothing kills a process
  that keeps it open. For the TCP bridge there is no assumption that would do: the end of
  its commands does not close the connection's writing half (`asr/tcp.rs:75`), so the peer,
  which waits for that (`bridge_tcpd.rs:74`), is not told. It is in the model and left out
  of the run;
- without `ReadingSpec` a dead gateway is not noticed: the device agent's loop waits
  in `write_all` to the player (`runtime.rs:373`); and a gateway that falls silent
  before `HelloOk` is waited for without end (`runtime.rs:231`), so `SilenceNoticed`
  leaves the handshake out;
- a provider that pushes unasked can get an event out before `session.started`,
  because the pump is spawned first (`server.rs:561`), so `FollowsProtocol` is about
  the sessions in `Answering`, whose bridges speak when spoken to, and `TtsCompletion`
  lets `session.started` come last;
- `active_session` outlives a session that ended by itself, and the next start is
  refused (`server.rs:546`): the run `sdk_next_session`;
- the MiniMax ASR bridge returns from a failed call without `Ended`
  (`asr/minimax_http.rs:146`): the run `session_failed`. `AskedEnds` is checked for the
  bridges that do report the end;
- `LostAgentReported` is about an agent that leaves; after a read error the handler
  returns before `unregister_agent` and the client is not told (`agent.rs:873`);
- when the agent's channel is closed the forwarder reports the end of the session
  and leaves its route, so that the end is reported again (`agent.rs:776`);
- a commit before any text of a streaming-input MiniMax session starts no task and
  ends nothing (`tts/minimax_http.rs:723`), which is the condition of
  `CommittedTaskEnds`; a hang-up of the provider after the commit is a regular end
  (`:541`);
- requests that the gateway refuses are answered by an error without a request id
  (`server.rs:385`, while the example of `docs/websocket-protocol.md:423` has one); the
  SDK's calls throw such an error away and wait on. This is the exception `Unnamed` of
  `CallsReturn`, and with the stale `active_session` above it also meets a client that
  follows the life cycle of `docs/sdk-guide.md:35`;
- a session that ends before its `session.started` is sent has its end thrown away by
  the waiting start, and `tts stream` then waits for it (`missed` in `CommandsFinish`);
- provider commands that overlap lose changes or leave a file of two lengths, and one
  that is killed while it saves leaves a file that no later command and no gateway can
  read (`providers.rs:226`): `CommandsTakeEffect` is about undisturbed commands;
- `providers list` shows the bridge of the catalog for a provider that was installed
  with another one; a gateway without an agent provider refuses `/agent` and
  `/control` altogether (`server.rs:121`), device agents included; the mock and the
  MeloTTS provider take their id from one argument and cannot be served together;
- version comparison is no order: 1.9.0 < 1.10.0 < 1.11 < 1.9.0 (`app/src/main.rs:757`);
- `select_by_direction` says that agents without endpoints are taken for output and
  duplex only (`router.rs:37`), the code takes them for input as well; and
  `select_by_endpoint` gives up when the agent it chose has gone by the time it is
  looked up, where `select_by_direction` tries the next;
- `--url` with a profile that sets `control_url` sends playback to another gateway than
  synthesis; a provider on the command line is combined with the voice of another one's
  voice profile; a `--profile` that does not exist falls back silently; lines indented
  with tabs are read as if they were not indented; `tts voices` lists voices of
  providers that a start would not choose, and fails if any of them fails;
- an Apple helper that refuses `asr.start` (no authorization, no recognizer) writes an
  error without a session and never `asr.ended`, and answers the stop with an error too
  (`main.swift:494`): helper, pump and map entry stay until the connection's writer is
  gone. `SessionsAreReleased` excuses it;
- recognition callbacks do not look at `ended`, so results and errors may follow
  `asr.ended`; at the end of stdin the helper exits without `asr.ended` and with the lines
  it has not written; while the question for the authorization is open it takes
  neither a stop nor the end of stdin;
- a start that times out is not told to the agent, whose helper runs on until the
  connection ends (`agent.rs:740`);
- the service is restarted before the status file is written (`app/src/main.rs:647`),
  and the restarted agent reports the status of the cycle before;
- two updaters at once can tear the binary or install an older release over a newer
  one, and a failed restart repeats the swap and overwrites the backup
  (`app/src/main.rs:854`, `:607`, `:649`).

## 4. Hazards

`PROJECT.json` lists them at their lines. Most are of three kinds: a value taken
under one lock or before one await and used under the next; a bounded channel whose
sender also serves a timer; an early return past the clean-up. Where a property holds
under an assumption or a condition only, or leaves the hazard's worst case out, a note
says so; where a document promises more, the run that refutes it is a finding. A hazard
without a property has a note: either what it does is recorded above and no document
promises otherwise, or it needs a client's socket that stalls, which the models leave out.

## 5. Proofs

`AgentRegistryProofs`: for every set of agents, connections, requests and ids,

- `TypeCorrect`: `Spec => []TypeOK`;
- `RoutesLeadToAgents`: a route to an agent that is gone is about to be removed;
- `RegistrationsAreServed`: no registration survives its connection's clean-up;
- `WaitersHaveOwners`: no dead waiter in `task_waiters`;
- `WaitingIsNotStranded`: a waiting request with a generated id has its waiter in
  place and a route or a resolver under way.

The inductive invariant `IInv` adds what a single handler knows between two critical
sections. `WaiterHasOwner` alone is not inductive: whether a waiter's request is
still served depends on who may remove the route under which it is found, so
`RoutedWaiterReachable` (a routed request's waiter is reachable by route or resolver)
and `OrphansScoped` (orphans exist only inside a register or unregister call) are
needed with it. `NotStranded` needs that a generated id belongs to one request
(`GeneratedOnce`) and that nobody else takes its waiter (`PrivateWaiterKept`).
Assumptions: `RegistryAssumption` (`None` is none of the ids, at least one chunk).

`ClientSessionProofs`, for any number of sessions, frames and pushed events, any mix of
bridges and any channel capacities:

- `ConnectionTypes`: `Spec => []TypeOK`. It needs `LoopInv` (the loop's place has the
  session it is busy with) and `EventsInv` (a session has events of its own kind only);
- `CompletionOrder`: `Spec => []TtsCompletion`. `Totals` says what a pump may have sent
  when it is at a given place: while it reads, neither `tts.audio.done` nor
  `session.ended`; when it owes the second, the first. The order of the messages is not
  inductive without it;
- `SessionsFollowProtocol`: `Spec => FollowsProtocol`, the refinement, initial states
  and every step (`ProtocolStep`). `OrderInv` has two parts. `Opened`: nothing is queued,
  reacted to or sent in a session before its `session.started`. `Ending`: `ended` is the
  last thing a bridge says, and when its message is out there is nothing behind it in any
  queue. `Opened` fails for a bridge that pushes unasked, which is why it, and the
  refinement, are about `Answering`.

`RemoteAsrSessionProofs`, for any sessions, connections and messages: `RemoteTypes`,
`AckIsOwed` (`AckNotLost`), `LiveIsReachable` (`LiveReachable`), `StartedIsServed`
(`StartedRouteServed`). `RemoteInv` is one invariant for the three, because each needs the
others: a handler holds what it took out of the map only between its sweep and its end
(`LostHeld`, so no sweep overwrites what an earlier one still owes); an acknowledgement
is owed from the registration of the session, before its caller waits (`AckOwed`); the
end is owed from the moment the acknowledgement is there, before its caller takes it
(`EndOwed`); and the agent is asked before it can say yes (`AskedFirst`).

`DeviceAgentProofs`, for any requests, task ids, chunks and connections:

- `DeviceTypes`, `NoPlayerLeftFed`: `Spec => []TypeOK` and `Spec => []FedIsTracked`, also
  for requests that share task ids. `OwnedInv` says that what is tracked is tracked under
  its own id, that the task that is written to is tracked and the one that is waited for
  is not, and that outside the loop nothing is;
- `FinishedIsPlayed`: `Spec => []FinishedMeansPlayed`. Chunks carry no number, so the
  proof has to know which are under way: `InFlight(r, n)` says that the frames of `r` in
  the inbox are exactly those from number `n` on, in order, and `PlayedInv` that for a
  tracked request `n` is the number of the next one it needs. This holds for requests
  that have their task id alone (the condition of `FinishedMeansPlayed`) and that have not
  been given up: the gateway stops sending to those it has given up.

`LocalAgentProofs`, for any number of sessions and connections, of callbacks and of room
in the pipes:

- `AgentTypes`, `MappedPumped`: `Spec => []TypeOK` and `Spec => []MappedIsPumped`. A
  session that is in the map has no end in its pump's hands and a pump that runs;
- `AppleIsAHelper`: `AppleSpec => Spec`. An Apple helper with its pipes is one of the
  helpers LocalAgent allows; so what is proved of `Spec` holds with it;
- `ToldOnce`: `AppleSpec => EndIsToldOnce`. The invariant `EndInOnePlace` follows the
  end on its way: before `ended` is set it is nowhere; afterwards it is with one task
  that writes it, or one line of the pipe, or told. It needs `HelperTyped`, the type
  invariant of the helper.

`SdkClientProofs`, for any set of programs and any number of calls that are dropped or go
on after errors:

- `SessionIsKnown` (`RunningSessionIsKnown`), `StartAnswerIsOwn` (`AnswerIsOwn`),
  `AudioIsMeant` (`AudioReachesMeant`), from one invariant `SdkInv`. A binary frame names
  no session, so the question is whether a start can overtake audio for an earlier
  session. `TakenInv` answers it: a start that the gateway will take, because it has no
  session or a stop for it lies ahead, was sent by a client without a session, and no
  audio follows it;
- `SdkTypes`: `Spec => []TypeOK`. Where an error sends a program is the least of the
  later calls that handle errors, a `CHOOSE` that `LeastNumber` shows to exist.

`BridgeProofs`:

- `TextKept`: `TaskSpec => []TextInOrder` of a MiniMax session, for any number of appends and
  commits. `TextInv` adds that text is kept back only between `task_start` and
  `task_started`; without it an append after `task_started` could overtake;
- `SessionTypes`: `TaskSpec => []TaskTypeOK`, which needs that the trimmed and the split text
  are texts again. The trim takes the first and the last token that is not blank;
- `FinishCovers`: `TaskSpec => []FinishCoversCommit`. `CoverInv` says what was told to the
  provider by the time of each frame, and that a commit that finds text kept back leaves
  its `task_finish` to whoever sends that text;
- `BestIsChosen` and `NamedIsChosen`, for any bindings: what `max_by_key` and the look-up
  by id promise. That a best candidate exists is the greatest element twice: of the
  scores, then of the indices that have it;
- `DirectionIsSupported` and `GoneIsPassedOver`, for any agents and any staleness of the
  snapshot: whoever is asked for a direction is still registered and supports it; nobody
  is asked only if nobody is left; an agent that has gone makes no difference;
- `NewestIsSelected`, for manifests of any length whose candidates the comparison orders
  (`OneKindIsOrdered`: as it does when all versions are semantic, or none is): what is
  selected is a newest release, the first of them, or nothing, for one of three reasons.

`LeastNumber` and `GreatestNumber` (a set of naturals that is not empty has a least
element, and a greatest one if it is bounded) come from the well-foundedness of `<`
(`WFMin`), so that they serve where induction over data is needed; the library's
induction theorems take an operator as a parameter and cannot be used.

`HostProofs`, for every catalog and any number of commands:

- `CommandsAreKept`: `StoreSpec => []CommandsTakeEffect`;
- `GatewayServesSwitchedOn`: `StoreSpec => GatewayServesTable`.

`Intact` is the invariant: while nothing is disturbed at most one command is between
load and save, the file (unless that command is writing it) holds the table, and the
command's copy is what it makes of the table. `Result` on entries and `Promised` on
tables agree (a lemma per command), because ids are unique in the entries of a table.
For one updater and any number of releases, crashes and failures: `AloneNeverTorn`,
`AloneSomethingToRun`, `AloneAppliedIsNewer`. `Shape` is the invariant:
the three names are of different files, only the temporary file is ever written to, and
the binary is away only while the backup is there. With two updaters it fails at once.

The theorems assume of the constants what the modules' named assumptions say
(`ClientSessionAssumption`, `RegistryAssumption`, ...): that `None` is no id, that bounds
and capacities are numbers, that there is at least one chunk where a playback has some.

Every safety invariant and action property that a passing run checks is proved, but for
a single updater in the case of Updater. Model-checked only: all liveness, for which the
prover has no rules (TLAPS has no support for fairness here); and the `ASSUME`s of
MCAlgorithms and MCConfig, which compare recursive definitions and folds over data of
any length and would need an induction over that data.

## 6. Not modelled

- Go and Swift SDKs: SdkClient is written from the Rust one; the others speak the same
  protocol with their own matching of answers.
- Of the Apple helper: `hello`, `auth.request`, `ping` and `shutdown`, which the agent does
  not send, several sessions in one process, which the agent does not start, and the
  speech framework behind it, which may call back as it likes.
- Players, the MeloTTS server: processes around devices and a model. The models take
  them as processes that may do what their protocol allows, and state what is assumed.
- Message types: declarations. TCP bridge daemon, demo apps, scripts and deployment: no
  state that outlives a copy loop, a screen or a shell command.
- Of the command line client: output, audio files, the player it starts, the contents of
  options. Of gateway start-up: addresses, formats, timeouts. Of the updater:
  `--dry-run`, the status file, download and digest beyond their failing. Of the bridges:
  HTTP requests and their contents.
- A client that stops reading while the gateway is inside a socket write
  (`server.rs:358`): writes to clients complete or fail in the models. An agent that stops
  reading is modelled by its command channel, which stalls.
- What a second commit of a buffered MiniMax session should mean is not documented, so
  no property is stated for it.

## 7. Plan

Done, with proofs: registry and control plane; client sessions with their abstract
protocol; remote ASR sessions; device agent; local agent with the Apple helper; MiniMax
session; updater; provider store and gateway start-up; Rust SDK; routing, provider and
release selection. Done, with runs only: commands and configuration of the command line
client.

Left, in order:

1. Compositions: control plane, registry and device agent (a request's answer against
   what was played); client session over a remote session (its two ends).
2. The Go SDK's differences from the Rust one as a variant of `SdkClient`.
