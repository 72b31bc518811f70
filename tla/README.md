# EVerest framework: TLA+ models, checks and proofs

The framework (`lib/`, `include/`), the manager (`src/`) and the bindings run an EVerest system: one process per
module, a manager that starts and supervises them, an MQTT broker between all of them, and a controller process
that serves the admin panel. This directory holds models of the parts where several threads or processes have
to agree, the TLC configurations that check them, and proofs for TLAPS.

    tlc -workers 2 -config MCMqttAbstraction.cfg MCMqttAbstraction.tla
    tlapm MqttAbstractionProofs.tla

The comment above each definition says what it stands for; `PROJECT.json` maps definitions to source lines,
lists the runs, the mutants that break each property, the hazards and the findings.

## 1. The system

| component | state it keeps | operations | what makes it correct |
|---|---|---|---|
| MQTT client, `mqtt_abstraction_impl.cpp` | connection flag, buffer of early messages, `message_handlers`, send buffer | connect, publish, register/unregister handler, main loop, `on_mqtt_message` | nothing sent twice, nothing lost unless refused by the client library, no deaf handler, every message has a handler, order per topic |
| Message queues, `message_queue.cpp` | a queue and a thread per client, a queue, a thread and a handler list per topic | add, take, run handlers | order, handlers not run after they are removed |
| Commands, `everest.cpp` | promise per call, result handlers | `call_cmd`, `provide_cmd` | at most once, the right result, no dangling promise, no deadlock but by call-backs |
| Lifecycle, `manager.cpp`, `runtime.cpp` | `modules_ready`, child handles, status fifo | start, ready handshake, restart, shutdown, reap | global ready means all are ready, one process per module, restart completes |
| Errors, `lib/error`, `everest.cpp` | the manager's database | raise, request clear, notify | no error lost once subscribed, cleared only by its origin, success means cleared |
| Controller, `src/controller` | pending calls, files, output queues | save config, restart, replies | answers match requests, a file is stored only when checked, every request answered |
| Configuration, `config.cpp` | the resolved config | load, validate, resolve | requirements resolve to providers of the right interface |
| Runtime settings, `runtime.cpp` | paths, prefixes, broker, `validate_schema` | derived by the manager, and again by each module from two strings | every process finds the same settings |
| JavaScript bindings, `everestjs` | registered handlers, the `JsExecCtx` shared by all handler threads, the ready promise | boot, register, call, hand a message to the JavaScript thread | each handler's result goes to the thread that waits for it; who can block whom |
| Other bindings, `everestpy`, `everestrs` | the framework's objects | thin wrappers | the same settings as the manager |

How they interact: every process has one MQTT client. `call_cmd`, `publish_var`, `raise_error`, `signal_ready` publish
on topics that others have registered handlers for; a handler runs on its topic's own thread. Packets of
one connection keep their order, connections and handler threads are not ordered with each other. The manager starts
processes with fork and exec, waits for them with `waitpid`, and talks to the controller over a socket pair.

What is hard: the unlocked `mqtt_is_connected` and `modules_ready`; handler lists copied under a lock and run after
it; promises on the stack of a call that may time out; calls made on handler threads; restarts that meet
messages of the run before; errors and requests that overtake each other; asynchronous JavaScript handlers that share one
execution context; modules that read settings and config files again after they may have changed. `hazards` in `PROJECT.json` lists these
with their lines.

## 2. Modules

| module | models | uses |
|---|---|---|
| `MqttAbstraction` | one process's MQTT client, its threads, and the broker as far as this client sees it | |
| `MqttAbstractionProofs` | theorems about it | `MqttAbstraction`, TLAPS |
| `RemoteCall` | abstract: what a command promises | |
| `CmdCall` | `call_cmd` and `provide_cmd` in several processes, with the topic threads | refines `RemoteCall` |
| `CmdCallDeadlock` | the waits-for relation of `CmdCall` | `CmdCall` |
| `CmdCallProofs` | theorems about both | `CmdCallDeadlock`, TLAPS |
| `Manager` | the manager's main loop and ready handlers, the modules' boot, the broker | |
| `ManagerProofs` | theorems about it | `Manager`, TLAPS |
| `Errors` | modules, the manager's `ErrorCommBridge`, manager and database, a subscriber | |
| `ErrorsProofs` | theorems about it | `Errors`, TLAPS |
| `SequenceFacts` | lemmas on where a message is in a queue, for the proofs | TLAPS |
| `ControllerRpc` | browsers, the controller's two threads, the manager's end of the socket | |
| `ControllerRpcProofs` | theorems about it | `ControllerRpc`, TLAPS |
| `Config` | the loader of a config and the lookups in what it has loaded | |
| `RuntimeSettings` | the settings of a process as a function of files, environment and options | |
| `Startup` | the manager's boot, and what each module's process derives and loads for itself | `Config`, `RuntimeSettings` |
| `StartupProofs` | theorems about it | `Startup`, TLAPS |
| `JsModule` | the process of a JavaScript module, with `JsExecCtx` | |
| `JsModuleProofs` | theorems about it | `JsModule`, TLAPS |
| `MC*` | constants of the runs | the module of the same name |

**MqttAbstraction.** State: the connection phase, `connected` (`mqtt_is_connected`), `entries` and `handlers`
(`message_handlers`), `before` (`messages_before_connected`), the packets in both directions, `queue`/`current` (the
`MessageQueue` and its worker). `connect` is split where it can be interleaved: one action per subscription, one that sets the flag,
one per flushed message. `publish` is split at its unlocked read of the flag (`PublishReadsFlag`, then
`PublishBuffer`). `register_handler` and `unregister_handler` run under `handlers_mutex` and are one action each. `on_mqtt_message`
is `Distribute`, `exit(1)` ends the behaviour (`exited`). `Send` is `mqtt_publish` and its like:
the client library takes the packet or refuses it, and the error is only logged, in `publish` as in the flush (`refused` remembers such packets).
`SyncSend` merges the send buffer, TCP and the broker's reaction; the order in which `on_mqtt_connect` subscribes is left open. `subscribe` and `unsubscribe` happen only inside other
actions. None of the shipped wrappers publishes from a second thread before `connect` has returned; the class allows
it, and the runs take it at its word. That `check_topic_matches` agrees with the broker is assumed (`Covers`).

**RemoteCall, CmdCall, CmdCallDeadlock.** A call has a `frame` (the stack frame of `call_cmd` with its promise), an entry in
`registered` (its result handler) and an `execution` at the provider. `busy[p][t]` is the message that the thread of topic `t` in
process `p` is dispatching. Calls nest: `ParentOf` gives the call whose handler makes the call, and blocks that handler's thread.
`TimeoutCall` leaves the result handler registered, as the code does. `BeginCall` merges the SUBSCRIBE and
the publish of a call, which are ordered on one connection; `Take` merges a thread's pop with the copy of its
handlers. An exception
of `call_cmd` leaves the handler that made the call and ends the process, or is caught by the module (`Thrown`); a command handler may also throw
an exception of its own, which nothing catches (`HandlerThrows`). The refinement mapping
to `RemoteCall` is `ClientOf` and `ServerOf`. `CmdCallDeadlock` adds no state: `WaitsFor` relates a call to the nested call its handler waits
for, and a message in a topic's queue (a call, or the result of a call to a command of the caller's own module) to the call that keeps the topic's thread busy.

**Manager.** `stage`/`next` are the main thread in `start_modules`; `modulesReady` and `registered` grow while ready threads run
(`TakeReady` copies the handler, `RunReady` calls it, `MissesEntry` is the `at()` that throws after a shutdown). Each
module's `process` boots, subscribes, sets `on_ready`, signals and handles the global ready message. `SpawnModules` starts all children in
one action: no other thread reads `module_handles`. The data race of the unlocked `emplace` is
modelled as the interleavings of whole operations. `shutdown_modules` and what follows it are split
where other threads can come between: the handlers and the entries of `modules_ready` go under its mutex (`DropHandlers`), by a module's death (`ReapModule`) or
a restart request (`RestartRequest`); the children are signalled without it (`SignalChildren`); then the manager exits (`ExitManager`) or loads the config again, which may
throw (`ReloadConfig`). Signals are delivered by `Terminate`; a module may die at any time within `MaxDeaths`. The manager's other options are in `Startup`.

**Errors.** One topic and one handler thread per implementation and error type in the manager, `starts` handlers on
it (one more for each restart), one thread for requests. `HandleError` adds to the database and forwards nothing: subscribers
listen to the error topic itself. Subscriptions reach the broker one by one (`Subscribe`), those of one connection in the order in which it asks for them
(`Earlier`); a packet that comes before is not kept, and `lost` remembers for whom. `HandleRequest` selects by the mode's filters, removes, publishes the cleared errors, then the
answer. The module's timeout is that of `CmdCall` and not repeated.

**ControllerRpc.** `serving` is the request in the server thread; it blocks between `BeginSave` and `EndSave` or `GiveUp`. The
timeout and the erasing of the call are separate actions because `RPC::run` can set the promise in between. `FileFails` is
a `fs::remove` or `fs::rename` that throws. Replies go
to the session's `outputs` and leave with one callback each. The random ids of `ipc_calls` are taken not to repeat. The path by
which the controller would push notifications is not modelled: the manager never sends one.

**Config.** One action per module loaded (`LoadModule`), one for the probe (`LoadProbe`), one per module whose connections are resolved; `todo`
holds the ids still to do, and `First` is the next of them in the order of a json object. `ReadConfig` takes the modules of a config file. An exception leaves no `Config` behind, so a
rejection changes nothing but `stage`. Files are what the loader reads from them; a value is one of four kinds. `Target`, `HasCommands`
and `ConfigEntry` are the lookups of `call_cmd`, `get_cmd_definition` and `get_module_configs`. `WellFormed` says of the files which configs
load, without the loader's order and stages.

**RuntimeSettings, Startup.** `RuntimeSettings` is the constructor: the search for the config file (a path, a short name, the
default), the prefix, the directories below it, the settings with their defaults and the environment's. Paths are sequences of names, and
`Real` is `fs::canonical`, so that links are followed. `Startup` lets the manager read its settings and its config, check, dump or start modules, and
restart them; `Process` is what a child is given: two strings on the command line of a C++ module, three variables in the environment of
JavaScript and Python modules, which `setenv` without overwriting leaves to the manager's environment where it has them. Each child then
derives its settings (`ReadOwnSettings`) and loads its config (`ReadOwnConfig`), from files that `Save` may have changed in between. What
the child's loader accepts is `WellFormed`, which `config` shows to be what the loader's actions accept.

**JsModule.** `boot_module` is `BootModule`, `RegisterOnReady`, `SpawnMainLoop`; the messages of a topic `Arrive`, its thread takes one
(`Take`), waits for `exec_mutex` and fills `fields` (`Enter`), and returns when the promise is set (`Return`). The JavaScript
thread runs one task at a time: `Tramp` starts the handler the fields name then, `Await` and `Resume` suspend a handler and let others run, `CallCmd`
and `RequestClearError` block the thread (`call`), and a provider may call back into the module before it answers (`CallBack`). A handler that throws
leaves the promise unset (`FailHandler`), and Node ends the process unless the module made it survive that (`tolerant`). What can be registered follows
from the manifest and the config (`Descriptions`), including the properties that cannot be defined a second time
for a list of connections. One thread per key stands for one thread per topic; the topics of the instance carry one command or variable each.

## 3. Runs

| run | shows | bounds |
|---|---|---|
| `mqtt_client` | `EveryMessageHasAnEntry`, `NoDeafHandler`, `PublishedExactlyOnce`, `OneStrandedPerThread`, `HandedInOrder` | two threads, four messages (one remote, not parsable), an EVerest topic, an external topic and a wildcard, two handlers; they come and go while fewer than `MaxPackets` packets are queued; two packets refused |
| `mqtt_liveness` | `ForwardedIsHanded` | two messages, one packet refused |
| `mqtt_wildcard` | violation | as above, wildcard over everything |
| `cmd_call` | refinement of `RemoteCall`, `NoResultAfterReturn`, `OnlyTimeoutsLeak` | two processes, two topics, five calls: a nested one, one that calls back into a busy topic, one with a result that fails the schema, two with arguments that fail it; any handler may throw |
| `cmd_call_waits` | `BlockedOnlyByCycleOrDrop`, `CallsReturn` | five calls, one of them of a command of the caller's own module, no timeouts |
| `manager` | handshake and its signals, restart and supervision | one standalone and one managed module, one of each: restart, death |
| `manager_early` | violation | the same |
| `errors` | seven properties | two modules, two errors, three requests of three modes, two starts; a subscriber to one of the errors and then to its clearing |
| `controller` | answers, files, replies | two browsers, two saves of one config, a restart, a notification; any save may fail to move its file |
| `controller_check` | violation | the same |
| `config` | acceptance, lookups, types of values; the settings and the config that modules find | three ids, one of which is also a type; the check of about 16,400 configs, about 300 starts of managers with one module or three, one change of the file, one restart |
| `js_module` | `OwnHandler`, `CallBacksOnlyTimeOut`, `WaitersAreServed`, `HandlersReturn` | seven descriptions of a module, three messages, one blocking call, one await |

Why the bounds suffice for the cases of interest: the races modelled are between two actors each (two publishers and the connecting thread, a
timed-out and a later request, a standalone module and `start_modules`), and each run has at least two of each. Two messages per
topic show reordering. Three levels of calls show a call back. Two starts show the doubled
error handlers. A subscriber to one of two errors shows both what is received and what nobody has asked for; the two subscriptions in their order show
an error that is missed while its clearing is not. Values, texts and payloads do not matter to any property except where they parse, validate or load, which is a set.
The configs of `config` combine each fault with sound neighbours and place the manager at each id, so that every order of its targets occurs. The starts combine ways to name the config file and the prefix, links, installations in `/usr` and elsewhere,
environments, and settings that are relative, absolute, of a wrong kind or point nowhere; a second change or restart would repeat the first, as
a child keeps nothing of its predecessor. Three messages are two handlers that compete for the
context while a third is called back or waits; one await suffices to suspend a handler in the middle of another's turn, and the
theorems of section 5 have no such bounds.

Several runs switch the deadlock check off: a bounded set of calls, messages or requests is used up, and
processes exit.

Fairness. `MqttAbstraction`: the main loop polls every 100 ms, the worker waits on a condition variable, `connect` and `publish` do not
block; nothing is assumed of users or of a lost connection. `CmdCall`: threads take messages, and command
handlers terminate. `Manager`: threads run, packets arrive, a SIGTERM ends a process (the code never escalates to SIGKILL, so this is an
assumption on modules); nothing of users, deaths or the controller. `Errors`: packets arrive, threads run.
`ControllerRpc`: only the server thread and the sockets; waits end by their timeout. `JsModule`: one weak fairness of all steps of the
process, which is that of each of its threads since the bounds leave every thread finitely many steps; handlers may throw, never return
their promise, or jam the context, and `HandlersReturn` says so.

## 4. What the runs found

1. `mqtt_wildcard`: with the default external prefix `""` an external wildcard handler draws in EVerest topics, which are
   compared literally; the process ends with "should have a matching handler". With `PrefixesDisjoint` this is
   impossible, which is a theorem.
2. `manager_early`: a standalone module that is ready while `start_modules` still fills `modules_ready` makes the manager announce
   global ready too early.
3. `controller_check`: `check_config` ignores the file it is asked to check.

The properties also state what the code does promise around its known weak spots: `OneStrandedPerThread` (the race of `publish`),
`OnlyTimeoutsLeak` (result handlers left by timeouts), `TerminatesOnlyAfterShutdown` and `TerminatesOnlyAfterRestart`
(exceptions on handler threads), `CallsFindTheirCommands` (a module whose id is another module's type empties that type's command
cache), `LeftBehindOnlyByFailures` (unchecked files in the config directory),
`PublishedExactlyOnce` (packets the client library refuses) and `NothingElseLost` (errors raised before anybody has subscribed).

## 5. Proofs

`MqttAbstractionProofs` proves, for every number of threads, messages, topics and handlers:

- `TypeCorrect`: `Spec => []TypeOK`.
- `NeverUnhandled`: with `PrefixesDisjoint`, `Spec => []EveryMessageHasAnEntry`. The invariant is not inductive, as the messages of the future come
  from subscriptions; `EntryInv` follows them: whatever is subscribed, or on the way to be, is in `entries`, and every message inbound, queued
  or being distributed has an entry. It is kept because entries are never removed, not even when their last handler is.
- `HandlersAreSubscribed`: `Spec => []NoDeafHandler`. `DeafInv` adds the filters that `on_mqtt_connect` has still to subscribe (`todo`) and
  that registrations wait for it; the lemmas on `SubscribedAfter` say what an appended or a read packet does to the future subscriptions.
- `LostOnlyWhenRefused`: `Spec => []PublishedExactlyOnce`. A published message is in one place, or among the packets refused. `CountInv` adds that a thread holds only its own messages, so that "in whose hand" is
  one question, and that the flush is never past the end of the buffer. The lemmas on `PlacesBehind` say what appending to a sequence, taking its
  head and flushing one more element do to the number of occurrences.
- `ThreadsStrandOne`: `Spec => []OneStrandedPerThread`. `StrandedInv` says that once the flush is over, what a thread has stranded is what it had in its
  hand then; only `FlushEnd` and `PublishBuffer` need an argument.
- `HandedInSendingOrder`: `Spec => []HandedInOrder`. The property is about positions: what the worker has still to do is the end of what the broker
  has sent, and a topic's handler queue is the filter of what comes before it. It ends with `MessageHandler::add`:
  the handler threads are not in this module. A filter is stated by ranks (`IsFilterOf`), so the next message
  appends to it or leaves it alone (`FilterNext`) without induction over sequences. `PipelineInv` keeps the two together through the loop, the
  queue and the dispatcher.

`ControllerRpcProofs` proves, for every number of browsers, requests and files:

- `TypeCorrect`: `Spec => []TypeOK`, from which at most one call is pending, that of the request being served.
- `AnswersMatch`: `Spec => []OwnAnswer`, a save is answered with the manager's verdict on that very save.
- `StoredAfterOk`: `Spec => StoredOnlyAfterOk`, an action property.
- `FilesLeftBehind`: `Spec => []LeftBehindOnlyByFailures`. A file appears with its save and goes with it, unless the save has timed out or its file could
  not be moved.
- `RepliesAreKept`: `Spec => []OneReplyEach`, the safety half of `RequestsAnswered`. What a session was given is the sequence of what its browser has
  received and what is queued (`Given`): `WriteReply` moves replies along it and changes nothing else, only a closing session cuts it short, and `Finish` is
  called once for each request, with a value that tells what became of it (`RepliesInv`). A queue that is not empty has its callback (`CallbackInv`).

They share the inductive invariant `IInv`. `OwnAnswer` alone is not inductive: an answer may be in flight or lie in `ipc_calls` when the
request that asked has timed out and the next one is served. `VerdictInv` says that every answer in flight or in `ipc_calls` is the verdict on the
save whose id it carries; `AskedInv`, that each save is asked for once and before it has a verdict, so that a verdict never changes;
`ServingInv`, that the waiting request is the one in the server thread, its call is in `ipc_calls`, and until it times out its content lies in the
temporary file, so that what `EndSave` renames is what the request brought. They rest on two things the code does not enforce: ids that do
not repeat (`ipc_calls` uses random ones) and a single server thread.

`CmdCallProofs` proves, for every number of processes, topics and calls, any nesting of calls, and with timeouts and crashes:

- `TypeCorrect`: `Spec => []TypeOK`, and `LeaksOnlyTimeouts`: `Spec => []OnlyTimeoutsLeak`.
- `ResultBeforeReturn`: `Spec => []NoResultAfterReturn`.
- `RefinesRemoteCall`: `Spec => ImplementsRemoteCall`, the refinement.

The last two need to know where messages can be. `TransportInv` says that only what its sender has published is anywhere, and that on its way to a
process a message is in at most one of the sender's packets, the queue of its topic, and the hands of the topic's thread. A message that is `Gone` for a
process therefore never comes back. `CallInv` adds that the provider's thread holds a call while it is executed, that a call that was
executed or ignored is gone for the provider, and that the result of a call whose frame is ready or has returned is gone for the caller:
so nothing is executed twice, and no promise is set twice. `NoneIsNoMessage` is a typing assumption.

- `OnlyCyclesAndDropsBlock`: `Spec => []BlockedOnlyByCycleOrDrop`. `AnswerInv` says that, while all processes live, the result of a waiting call is in
  its provider's packets, in the queue of its topic at the caller, or in the hands of that topic's thread; it needs `OnlyTimeoutsLeak`, because
  the caller stays subscribed only as long as the result handler is registered. `DispatchInv` says that only a provider dispatches calls. With both, each
  call that cannot go on in a quiet state is dropped or waits for another such call (`StuckWaits`). What a call awaits shrinks along
  `WaitsFor` unless a call awaits itself, and the subsets of a finite set are well-founded under inclusion (`CircleAwaited`), so the waiting ends
  in a dropped call or in a circle. The assumption `FiniteCalls` is used here only.

`ErrorsProofs` proves, for every number of modules, errors and requests, and with restarts of the modules:

- `TypeCorrect`: `Spec => []TypeOK`, and `ClearsOnlyOnRequest`: `Spec => []ClearedOnlyOnRequest`.
- `LostOnlyUnsubscribed`: `Spec => []NothingElseLost`, `ClearedIsFinal`: `Spec => []ClearedStaysCleared`, and `NoDuplicateHandle`:
  `Spec => []TerminatesOnlyAfterRestart`. All three rest on `PlaceInv`: as long as a topic has one handler, an error that was raised is in
  exactly one place, its module's packets, the topic's queue, the hands of its thread, the database, among those reported as cleared,
  or lost to a manager that had not subscribed. `HandlerInv`
  makes the call of that one handler the last one, so the error leaves the thread's hands as it enters the database.
- `SuccessComesAfterClearing`: `Spec => []SuccessMeansCleared`, also after restarts, if the subscriber has subscribed by then. `OrderInv` says that on the manager's connection the
  clearing goes before the successful result, because `handle_request_clear_error` publishes them in that order.
- `RequestsAreKept`: `Spec => []RequestsInOnePlace`, the safety half of `RequestsAnswered`: a request is never lost between the manager's threads nor
  answered twice. `AnswersInv` follows it: at most once in each of the places it can be, in no two of them, in one exactly while its caller waits. One of
  the places is `lost`, for a request ahead of the bridge's own subscription.

`ManagerProofs` proves, for every config, set of standalone modules, and number of restarts, deaths and lives:

- `TypeCorrect`: `Spec => []TypeOK`, and `NoSecondProcess`: `Spec => OneProcessPerModule`. `ChildrenInv` says that a child without a handle does
  not run, so when the main loop has waited for all handles there is nothing left that a restart could double.
- `MissesOnlyAfterShutdown`: `Spec => TerminatesOnlyAfterShutdown`. `StageInv` gives the entries of `modules_ready` in each stage of the main
  thread, and `HoldInv` says that before `shutdown_modules`, and after the modules have been started again, every handler in the hands of a thread has its entry.
- `AnnouncesWhenReady`: `Spec => AnnouncedWhenAllReady`. `SignalInv` follows a ready signal back from the flag over the thread, the queue and
  the wire to its module: behind the subscriptions on its connection, sent by a process that has signalled, and `Done` once it has arrived.
- `AcceptedReadyRuns`: `Spec => []ReadyHandlerRuns`. `AnnounceInv` carries that over to the global ready: wherever it is, the handlers are registered.
- `SignalsNeverLost`: `Spec => SignalsAreKept`, the safety half of `EveryModuleRuns`: as long as the manager's subscription for a module gets to the
  broker before its ready signal, the signal is on the wire, queued, in the hands of a thread or in its flag; and if all flags are set and ready was
  not announced early, global ready is on its way to each module until `handle_ready` accepts it. `HandlerInv` says that a message finds its handler
  registered, `FlagInv` follows the signal, and `GlobalInv` says that all modules are subscribed before ready is announced.
- `RestartWaitsForTheDying`: `Spec => []Dying`, the safety half of `RestartCompletes`: while the main loop waits for its children before a restart,
  each of them is dead or has its SIGTERM on its way. `Dying` is stated with its proof and checked by no run.

`StartupProofs` proves, for every file system, environment, options, and any number of changes and restarts:

- `Rederived`: what a process derives from the prefix and the config file of complete settings is these settings again. It holds
  because both are canonical paths, which are found at themselves (`FileSystem`), and because the search depends on which
  files there are and only the `settings` of what they hold.
- `ModulesHaveSameSettings`: `StartSpec => []SameSettings`, and `ModulesValidateWithTypes`: `StartSpec => []ValidatesWithTypes`. `StartInv` says what each
  child was given, that the manager's settings are complete whenever there are children, and that files change their content and never go away.
- `LoaderAcceptsWellFormed`: `StartSpec => []AcceptsWellFormed`, for all manifests, interfaces and config files. `WellFormed` speaks of the files and the
  loader of what it has kept, so most of the proof is a translation: `LoadedRight` says that each module it is through with has the manifest of its file,
  or one that is, in terms of the files, what the probe offers and asks for (`Generated`). `ModuleLoads` and `GeneratedLoads` say what loading such a manifest
  checks, `SoundFits` and `FitsSound` that connections that are sound fit and the reverse, `ProbeMustFit` that a well-formed config leaves the generated manifest
  nothing to fail. `ConfigInv` adds how far the loop has come: the ids behind it come before those ahead, so the probe is loaded last.
- `LoadedCallsFindTheirCommands`, `LoadedValuesTyped`, `ConfigTypeCorrect`: `CallsFindTheirCommands`, `ValuesTyped` and `TypeOK` of `Config`, from the same invariant. The first
  needs `CacheRight`: the commands of a type are cached unless the module called like the type was loaded after all of the type (`EmptiedBy`);
  `OneMore` shows that loading one more module keeps this.
- `UnchangedFileBoots`: `StartSpec => []UnchangedConfigBoots`. `BootInv` says that as long as nobody saves, the manager's settings, its config and those of its
  modules are all made of the file as it is; that a module's loader accepts what the manager's has loaded is `LoaderAcceptsWellFormed`.

`JsModuleProofs` proves, for every description of a module and every bound:

- `TypeCorrect`: `Spec => []TypeOK`.
- `HandlersTakeTurns`: `Spec => []OwnHandler`. `TurnInv` ties `exec_mutex` to the fields, the posted call and the one handler that is
  not finished; an `await` suspends the handler and keeps the mutex.
- `CallBacksTimeOut`: `Spec => []CallBacksOnlyTimeOut`. `CallInv` counts the messages that the called-back thread has finished: while the JavaScript
  thread is blocked, no handler goes on and the count stays below the message that is due.
- `NoThreadIsForgotten`: `Spec => []WaitersAreServed`, the safety half of `HandlersReturn`. `ServedInv` says that the holder of `exec_mutex` has its call
  queued or its handler started, that a handler that is through has set the promise, and that the ready handler is registered before messages are taken.

Assumptions: the typing of the constants (`ControllerConstants`, `ConstantsTyped`, `NoneIsNoMessage`, `ConfigConstants`, `StartupConstants`, `JsConstants`, `ErrorConstants`, `ManagerConstants`), `FileSystem`, `FiniteCalls`, and
for the client that a concrete topic covers itself (`TopicsCoverThemselves`) and, for `NeverUnhandled`, `PrefixesDisjoint`. TLC evaluates the
assumptions in each run. `ConfigConstants` and `FileShape` are what the schemas of manifests and config files admit. The type invariants of the client, of the commands, of the manager, of the errors, of the controller, of the config and of the JavaScript module are proved and not repeated by their runs.

Out of the prover's reach, and left to TLC: liveness under fairness, `ENABLED`, what a recursive definition computes for all inputs
(induction over data), and anything behind a `RECURSIVE` operator; the modules declare none. Only model-checked are the liveness properties: `ForwardedIsHanded`,
`CallsReturn`, the controller's replies, that every clear request is answered (`RequestsAnswered` of `Errors`), `HandlersReturn`,
and the two of `Manager`. Every invariant and action property of a passing run is a theorem.

## 6. Not modelled

- Logging, formatting, dates, serial ports, and the status fifo's I/O (`Manager` has its two messages as events).
- Schema validation as such: a value or an argument is valid or not. The files of types and errors are taken to be valid themselves.
- The merge of a user config into the config (`config.cpp`): the configs of the runs are what comes out of it.
- The MQTT client library with its buffers and retransmissions, but for the packets it refuses; a connect that fails in `boot` ends the process before anything starts.
- User switching and capabilities of the module processes.
- The destructor of `MessageHandler` and `MessageQueue::stop`: processes of the models end as a whole.
- The other overload of `provide_cmd` (everest.cpp:886-942), which adds checks of arguments and results that throw out of the handler, as `HandlerThrows`
  does; the exception on registering a command twice (797-801), which a module meets while it boots.
- The argument checks of `request_clear_error` (everest.cpp:577-616), which throw before anything is sent, and its timeout (660-662).
- In the controller: writing the file and sending the `check_config` request are one step, as both are done by one thread and nobody else
  reads the file in between, and a stream that fails to write, which the code does not look at, is left out. Every JSON payload is an object; another one makes
  `request.value` throw (rpc.cpp:55).
- The order of two continuations of a JavaScript module without `handler_setup`: what follows `setup` runs before the `on_fulfill` of the ready handler.
- A command called in a module's `init`, before its main loop runs: `CmdCall` has no boot.
- The environment of standalone processes, which somebody other than the manager starts.
- The Python bindings beyond their settings and the Rust bindings: wrappers that hand each call to the `Everest` object, which the other
  modules model. The Rust code generator turns manifests into text at build time.
- Publishing from JavaScript, which adds nothing to the publish of `MqttAbstraction`, and conversions but for their exceptions.

## 7. Plan

Done: `MqttAbstraction`, `RemoteCall`/`CmdCall`, `Manager`, `Errors`, `ControllerRpc`, `Config`, `RuntimeSettings`/`Startup`, `JsModule`; proofs for
the client, commands, the manager, errors, the controller, the settings and the JavaScript modules.

To model next:
1. `TopicMatch`: `check_topic_matches` as a recursive function, against MQTT's definition of a filter, for all short topics; it
   discharges the assumption `Covers` makes.
2. `HandlerThread`: `MessageHandler` with its shutdown, and `MessageQueue::stop`.
3. A composition of `Manager`'s boot with `CmdCall` (a call made in `init`), and the merge of user configs.

To prove next:
1. A state of `Manager` in which nothing can step has every module running or the manager ended, as `OnlyCyclesAndDropsBlock` does for commands: the
   safety halves proved so far say that no signal is lost, and not that some step takes it on.
