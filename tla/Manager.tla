------------------------------ MODULE Manager ------------------------------
(***************************************************************************)
(* The manager's start, ready handshake, supervision and restart of the    *)
(* modules (src/manager.cpp), with the part of every module that takes     *)
(* part in it (ModuleLoader::initialize, Everest::handle_ready).           *)
(*                                                                         *)
(* The manager's main thread runs start_modules and the main loop.  The    *)
(* ready handlers run on MessageHandler threads, one for each module's     *)
(* ready topic, and share modules_ready with it.  The broker processes the *)
(* packets of a connection in order and those of different connections in  *)
(* any order (MqttAbstraction).                                            *)
(***************************************************************************)
EXTENDS Integers, FiniteSets, SequencesExt

CONSTANTS
  Order,        \* the module ids of the config, sorted as JSON keys, without --ignore
  Standalone,   \* --standalone: modules that are started by hand
  MaxRestarts,  \* bound: restart_modules requests of the controller
  MaxDeaths,    \* bound: processes that die of themselves
  MaxLives      \* bound: processes of one module, one after the other

Modules == {Order[i] : i \in 1..Len(Order)}
Children == Modules \ Standalone

ASSUME ManagerConstants ==
  /\ Order \in Seq(Modules) /\ Cardinality(Modules) = Len(Order)
  /\ Standalone \subseteq Modules
  /\ MaxRestarts \in Nat /\ MaxDeaths \in Nat /\ MaxLives \in Nat \ {0}

VARIABLES
  stage,           \* of the manager's main thread
  next,            \* position of start_modules in Order
  modulesReady,    \* modules_ready: a flag for each module registered so far
  registered,      \* modules whose ready handler is in its handler list
  holding,         \* ready threads that have copied a handler and will run it
  readyQueue,      \* ready messages queued at the manager, for each module
  modulesStarted,  \* modules_started
  restartModules,  \* restart_modules
  handles,         \* module_handles: children that have not been waited for
  status,          \* the last update of the status fifo
  process,         \* the process of each module
  globalQueue,     \* global ready messages queued at the module
  doomed,          \* modules that a SIGTERM has been sent to
  out,             \* packets on the connection of each module, in order
  late,            \* ready messages of dead processes still on their way
  outManager,      \* packets on the manager's connection, in order
  managerSubs,     \* the broker's subscriptions of the manager
  moduleSubs,      \* modules whose topics the broker has subscribed
  restarts, deaths, \* counters of the bounds
  early            \* history: ready was announced before every module was

mainVars   == <<stage, next, modulesStarted, restartModules, handles>>
readyVars  == <<modulesReady, registered>>
threadVars == <<holding, readyQueue>>
moduleVars == <<process, globalQueue, out, late, moduleSubs>>
bounds     == <<restarts, deaths>>
vars == <<mainVars, readyVars, threadVars, status, moduleVars, doomed,
          outManager, managerSubs, bounds, early>>

Packet == [kind : {"subscribe", "unsubscribe"}, module : Modules] \cup {[kind |-> "announce"]}
Subscribe(m)   == [kind |-> "subscribe", module |-> m]
Unsubscribe(m) == [kind |-> "unsubscribe", module |-> m]
Announce       == [kind |-> "announce"]

\* start_modules or the main loop
Serving == stage \in {"starting", "looping"}

\* What is left of shutdown_modules and of what follows it, once the entries of
\* modules_ready are gone: the signals, then the exit or the new config.
ShuttingDown == stage \in {"killing_to_exit", "exiting", "killing_to_restart", "reloading"}

ManagerUp == Serving \/ ShuttingDown
Alive(m)  == process[m].stage \in {"spawned", "looping", "signalled"}

TypeOK ==
  /\ stage \in {"starting", "looping", "killing_to_exit", "exiting",
                 "killing_to_restart", "reloading", "exited", "terminated"}
  /\ next \in 1..(Len(Order) + 1)
  /\ DOMAIN modulesReady \subseteq Modules /\ \A m \in DOMAIN modulesReady : modulesReady[m] \in BOOLEAN
  /\ registered = DOMAIN modulesReady
  /\ holding \subseteq Modules
  /\ readyQueue \in [Modules -> Nat]
  /\ modulesStarted \in BOOLEAN /\ restartModules \in BOOLEAN
  /\ handles \subseteq Children
  /\ status \in {"none", "waiting_for_standalone", "all_started"}
  /\ process \in [Modules ->
       [stage : {"none", "spawned", "looping", "signalled", "dead"},
        onReady : BOOLEAN, readyReceived : BOOLEAN, ran : BOOLEAN, lives : 0..MaxLives]]
  /\ globalQueue \in [Modules -> Nat] /\ late \in [Modules -> Nat]
  /\ doomed \subseteq Modules
  /\ out \in [Modules -> Seq({"subscribe", "ready"})]
  /\ outManager \in Seq(Packet)
  /\ managerSubs \subseteq Modules /\ moduleSubs \subseteq Modules
  /\ restarts \in 0..MaxRestarts /\ deaths \in 0..MaxDeaths
  /\ early \in BOOLEAN

NoProcess == 
  [stage |-> "none", onReady |-> FALSE, readyReceived |-> FALSE, ran |-> FALSE, lives |-> 0]
Started(p) == [NoProcess EXCEPT !.stage = "spawned", !.lives = p.lives + 1]

Init ==
  /\ stage = "starting" /\ next = 1
  /\ modulesReady = [m \in {} |-> FALSE] /\ registered = {}
  /\ holding = {} /\ readyQueue = [m \in Modules |-> 0]
  /\ modulesStarted = FALSE /\ restartModules = FALSE /\ handles = {}
  /\ status = "none"
  /\ process = [m \in Modules |-> NoProcess]
  /\ globalQueue = [m \in Modules |-> 0] /\ late = [m \in Modules |-> 0]
  /\ doomed = {}
  /\ out = [m \in Modules |-> <<>>] /\ outManager = <<>>
  /\ managerSubs = {} /\ moduleSubs = {}
  /\ restarts = 0 /\ deaths = 0 /\ early = FALSE

-----------------------------------------------------------------------------
(* start_modules                                                           *)

\* Mutant of RegisterModule: standalone modules get no entry in modules_ready.
RegisterWithoutStandalone ==
  /\ stage = "starting" /\ next <= Len(Order)
  /\ LET m == Order[next] IN
       /\ modulesReady' = IF m \in Standalone THEN modulesReady
                          ELSE [x \in DOMAIN modulesReady \cup {m} |->
                                 IF x = m THEN FALSE ELSE modulesReady[x]]
       /\ registered' = registered \cup {m}
       /\ outManager' = Append(outManager, Subscribe(m))
  /\ next' = next + 1
  /\ UNCHANGED <<stage, modulesStarted, restartModules, handles, threadVars, status,
                 moduleVars, doomed, managerSubs, bounds, early>>

\* One round of the loop over the config: the entry in modules_ready and the
\* ready handler.  The entry is added without modules_ready_mutex.
RegisterModule ==
  /\ stage = "starting" /\ next <= Len(Order)
  /\ LET m == Order[next] IN
       /\ modulesReady' = [x \in DOMAIN modulesReady \cup {m} |->
                            IF x \in DOMAIN modulesReady THEN modulesReady[x] ELSE FALSE]
       /\ registered' = registered \cup {m}
       /\ outManager' = Append(outManager, Subscribe(m))
  /\ next' = next + 1
  /\ UNCHANGED <<stage, modulesStarted, restartModules, handles, threadVars, status,
                 moduleVars, doomed, managerSubs, bounds, early>>

\* spawn_modules: one process for every module that is not standalone.
SpawnModules ==
  /\ stage = "starting" /\ next > Len(Order)
  /\ \A m \in Children : process[m].lives < MaxLives
  /\ process' = [m \in Modules |-> IF m \in Children THEN Started(process[m]) ELSE process[m]]
  /\ globalQueue' = [m \in Modules |-> IF m \in Children THEN 0 ELSE globalQueue[m]]
  /\ doomed' = doomed \ Children
  /\ handles' = Children
  /\ stage' = "looping" /\ modulesStarted' = TRUE /\ restartModules' = FALSE
  /\ UNCHANGED <<next, readyVars, threadVars, status, out, late, moduleSubs,
                 outManager, managerSubs, bounds, early>>

\* A module without a file to execute or a failing exec: the exception ends
\* the manager, and with it what it has spawned so far.
SpawnFails ==
  /\ stage = "starting" /\ next > 1
  /\ stage' = "exited"
  /\ UNCHANGED <<next, modulesStarted, restartModules, handles, readyVars, threadVars,
                 status, moduleVars, doomed, outManager, managerSubs, bounds, early>>

-----------------------------------------------------------------------------
(* The ready handlers                                                      *)

\* The thread of m's ready topic pops a message and copies the handler list.
TakeReady(m) ==
  /\ ManagerUp /\ m \notin holding /\ readyQueue[m] > 0
  /\ readyQueue' = [readyQueue EXCEPT ![m] = @ - 1]
  /\ holding' = IF m \in registered THEN holding \cup {m} ELSE holding
  /\ UNCHANGED <<mainVars, readyVars, status, moduleVars, doomed, outManager,
                 managerSubs, bounds, early>>

\* Mutant of AllReady: one module may be missing.
AllReadyButOne(flags) == \E m \in DOMAIN flags : \A x \in DOMAIN flags \ {m} : flags[x]

\* Mutant of AllReady: counts one module too many.
AllReadyOffByOne(flags) == Cardinality({x \in DOMAIN flags : flags[x]}) > Cardinality(DOMAIN flags)

AllReady(flags) == \A x \in DOMAIN flags : flags[x]

\* modules_spawned counts the standalone modules as well.
OnlyStandaloneMissing(flags) ==
  /\ Standalone # {}
  /\ Cardinality({x \in DOMAIN flags : flags[x]}) = Cardinality(DOMAIN flags) - Cardinality(Standalone)

\* every module has signalled ready, and its topics are subscribed
EveryModuleReady ==
  \A m \in Modules : process[m].stage # "dead" => process[m].stage = "signalled" /\ m \in moduleSubs

\* Mutant of RunReady: looks at the flags before it sets its own.
RunReadyLooksFirst(m) ==
  /\ ManagerUp /\ m \in holding /\ m \in DOMAIN modulesReady
  /\ holding' = holding \ {m}
  /\ modulesReady' = [modulesReady EXCEPT ![m] = TRUE]
  /\ outManager' = IF AllReady(modulesReady) THEN Append(outManager, Announce) ELSE outManager
  /\ early' = (early \/ (AllReady(modulesReady) /\ ~EveryModuleReady))
  /\ UNCHANGED <<mainVars, registered, status, readyQueue, moduleVars, doomed, managerSubs, bounds>>

\* module_ready_handler, under modules_ready_mutex.
RunReady(m) ==
  /\ ManagerUp /\ m \in holding /\ m \in DOMAIN modulesReady
  /\ holding' = holding \ {m}
  /\ LET flags == [modulesReady EXCEPT ![m] = TRUE] IN
       /\ modulesReady' = flags
       /\ \/ /\ AllReady(flags)
             /\ status' = "all_started"
             /\ outManager' = Append(outManager, Announce)
             /\ early' = (early \/ ~EveryModuleReady)
          \/ /\ ~AllReady(flags)
             /\ status' = IF OnlyStandaloneMissing(flags) THEN "waiting_for_standalone" ELSE status
             /\ UNCHANGED <<outManager, early>>
  /\ UNCHANGED <<mainVars, registered, readyQueue, moduleVars, doomed, managerSubs, bounds>>

\* The manager ends: its children get the parent death signal.
ManagerEnds(how) ==
  /\ stage' = how
  /\ doomed' = doomed \cup {m \in Children : Alive(m)}

\* modules_ready.at finds no entry and throws out of the handler thread.
MissesEntry(m) ==
  /\ ManagerUp /\ m \in holding /\ m \notin DOMAIN modulesReady
  /\ holding' = holding \ {m}
  /\ ManagerEnds("terminated")
  /\ UNCHANGED <<next, modulesStarted, restartModules, handles, readyVars, readyQueue,
                 status, moduleVars, outManager, managerSubs, bounds, early>>

-----------------------------------------------------------------------------
(* The main loop                                                           *)

\* modules_ready holds the first modules of Order, and is gone through in that order
Unsubscribes == [i \in 1..Cardinality(registered) |-> Unsubscribe(Order[i])]

\* shutdown_modules, under modules_ready_mutex
DropHandlers ==
  /\ registered' = {} /\ modulesReady' = [m \in {} |-> FALSE]
  /\ outManager' = outManager \o Unsubscribes

\* waitpid: a module that died while modules_started takes all the others and
\* the manager with it.
ReapModule(m) ==
  /\ stage = "looping" /\ m \in handles /\ process[m].stage = "dead"
  /\ handles' = handles \ {m}
  /\ \/ /\ modulesStarted
        /\ DropHandlers
        /\ stage' = "killing_to_exit"
     \/ /\ ~modulesStarted
        /\ UNCHANGED <<stage, readyVars, outManager>>
  /\ UNCHANGED <<next, modulesStarted, restartModules, threadVars, status, moduleVars, doomed,
                 managerSubs, bounds, early>>

\* restart_modules from the controller
RestartRequest ==
  /\ stage = "looping" /\ restarts < MaxRestarts
  /\ DropHandlers
  /\ stage' = "killing_to_restart" /\ restarts' = restarts + 1
  /\ UNCHANGED <<next, modulesStarted, restartModules, handles, threadVars, status, moduleVars,
                 doomed, managerSubs, deaths, early>>

\* Mutant of SignalChildren: the children are not signalled.
SignalNobody ==
  /\ \/ stage = "killing_to_exit" /\ stage' = "exiting"
     \/ stage = "killing_to_restart" /\ stage' = "reloading"
  /\ UNCHANGED <<next, modulesStarted, restartModules, handles, readyVars, threadVars, status,
                 moduleVars, doomed, outManager, managerSubs, bounds, early>>

\* shutdown_modules, without the mutex: SIGTERM to all children.
SignalChildren ==
  /\ \/ stage = "killing_to_exit" /\ stage' = "exiting"
     \/ stage = "killing_to_restart" /\ stage' = "reloading"
  /\ doomed' = doomed \cup handles
  /\ UNCHANGED <<next, modulesStarted, restartModules, handles, readyVars, threadVars, status,
                 moduleVars, outManager, managerSubs, bounds, early>>

\* boot returns after a module has died.
ExitManager ==
  /\ stage = "exiting"
  /\ ManagerEnds("exited")
  /\ modulesStarted' = FALSE
  /\ UNCHANGED <<next, restartModules, handles, readyVars, threadVars, status, moduleVars,
                 outManager, managerSubs, bounds, early>>

\* The config for the restart is read; a config that does not load throws out
\* of boot.
ReloadConfig ==
  /\ stage = "reloading"
  /\ \/ /\ stage' = "looping" /\ modulesStarted' = FALSE /\ restartModules' = TRUE
        /\ UNCHANGED doomed
     \/ /\ ManagerEnds("exited")
        /\ UNCHANGED <<modulesStarted, restartModules>>
  /\ UNCHANGED <<next, handles, readyVars, threadVars, status, moduleVars, outManager,
                 managerSubs, bounds, early>>

\* Mutant of StartAgain: does not wait for the old processes.
StartAgainAtOnce ==
  /\ stage = "looping" /\ restartModules
  /\ stage' = "starting" /\ next' = 1
  /\ UNCHANGED <<modulesStarted, restartModules, handles, readyVars, threadVars, status,
                 moduleVars, doomed, outManager, managerSubs, bounds, early>>

\* Every old process has been waited for: start_modules once more.
StartAgain ==
  /\ stage = "looping" /\ handles = {} /\ restartModules
  /\ stage' = "starting" /\ next' = 1
  /\ UNCHANGED <<modulesStarted, restartModules, handles, readyVars, threadVars, status,
                 moduleVars, doomed, outManager, managerSubs, bounds, early>>

\* The controller process exits, or its socket fails.
ControllerExits ==
  /\ stage = "looping"
  /\ ManagerEnds("exited")
  /\ UNCHANGED <<next, modulesStarted, restartModules, handles, readyVars, threadVars,
                 status, moduleVars, outManager, managerSubs, bounds, early>>

-----------------------------------------------------------------------------
(* The modules                                                             *)

\* Somebody starts a standalone module, again if it has died.
Launch(m) ==
  /\ m \in Standalone /\ ~Alive(m) /\ process[m].lives < MaxLives
  /\ process' = [process EXCEPT ![m] = Started(@)]
  /\ globalQueue' = [globalQueue EXCEPT ![m] = 0]
  /\ UNCHANGED <<mainVars, readyVars, threadVars, status, out, late, moduleSubs, doomed,
                 outManager, managerSubs, bounds, early>>

Advance(m, from, to) ==
  /\ process[m].stage = from
  /\ process' = [process EXCEPT ![m].stage = to]

\* The Everest object, connect, provide_cmd and the init callback; with the
\* main loop the subscriptions of the module start to flow.
Boot(m) ==
  /\ Advance(m, "spawned", "looping")
  /\ out' = [out EXCEPT ![m] = Append(@, "subscribe")]
  /\ UNCHANGED <<mainVars, readyVars, threadVars, status, globalQueue, late, moduleSubs, doomed,
                 outManager, managerSubs, bounds, early>>

\* register_on_ready_handler
SetOnReady(m) ==
  /\ process[m].stage \in {"looping", "signalled"} /\ ~process[m].onReady
  /\ process' = [process EXCEPT ![m].onReady = TRUE]
  /\ UNCHANGED <<mainVars, readyVars, threadVars, status, globalQueue, out, late, moduleSubs,
                 doomed, outManager, managerSubs, bounds, early>>

\* Mutant of SignalReady: signals before register_on_ready_handler.
SignalAnyTime(m) ==
  /\ Advance(m, "looping", "signalled")
  /\ out' = [out EXCEPT ![m] = Append(@, "ready")]
  /\ UNCHANGED <<mainVars, readyVars, threadVars, status, globalQueue, late, moduleSubs, doomed,
                 outManager, managerSubs, bounds, early>>

\* signal_ready, after register_on_ready_handler
SignalReady(m) ==
  /\ process[m].onReady
  /\ Advance(m, "looping", "signalled")
  /\ out' = [out EXCEPT ![m] = Append(@, "ready")]
  /\ UNCHANGED <<mainVars, readyVars, threadVars, status, globalQueue, late, moduleSubs, doomed,
                 outManager, managerSubs, bounds, early>>

\* handle_ready: only the first global ready counts, and it calls on_ready if
\* that has been registered by now.
HandleReady(m) ==
  /\ Alive(m) /\ globalQueue[m] > 0
  /\ globalQueue' = [globalQueue EXCEPT ![m] = @ - 1]
  /\ process' = IF process[m].readyReceived THEN process
                ELSE [process EXCEPT ![m].readyReceived = TRUE,
                        ![m].ran = process[m].onReady]
  /\ UNCHANGED <<mainVars, readyVars, threadVars, status, out, late, moduleSubs, doomed,
                 outManager, managerSubs, bounds, early>>

\* The process ends.  A ready message it has sent may still arrive, later than
\* those of its successor.
Ends(m) ==
  /\ Alive(m)
  /\ process' = [process EXCEPT ![m].stage = "dead"]
  /\ late' \in IF "ready" \in ToSet(out[m]) THEN {late, [late EXCEPT ![m] = @ + 1]} ELSE {late}
  /\ out' = [out EXCEPT ![m] = <<>>]
  /\ moduleSubs' = moduleSubs \ {m}
  /\ UNCHANGED <<mainVars, readyVars, threadVars, status, globalQueue, outManager,
                 managerSubs, restarts, early>>

Terminate(m) ==
  /\ m \in doomed /\ Ends(m)
  /\ doomed' = doomed \ {m}
  /\ UNCHANGED deaths

Die(m) ==
  /\ deaths < MaxDeaths /\ deaths' = deaths + 1
  /\ Ends(m)
  /\ UNCHANGED doomed

-----------------------------------------------------------------------------
(* The broker                                                              *)

Delivered(m) ==
  readyQueue' = IF m \in managerSubs THEN [readyQueue EXCEPT ![m] = @ + 1] ELSE readyQueue

\* The next packet of a module
BrokerFromModule(m) ==
  /\ out[m] # <<>>
  /\ out' = [out EXCEPT ![m] = Tail(@)]
  /\ \/ /\ Head(out[m]) = "subscribe"
        /\ moduleSubs' = moduleSubs \cup {m}
        /\ UNCHANGED readyQueue
     \/ /\ Head(out[m]) = "ready"
        /\ Delivered(m)
        /\ UNCHANGED moduleSubs
  /\ UNCHANGED <<mainVars, readyVars, holding, status, process, globalQueue, late, doomed,
                 outManager, managerSubs, bounds, early>>

\* The ready message of a process that is gone
BrokerLate(m) ==
  /\ late[m] > 0
  /\ late' = [late EXCEPT ![m] = @ - 1]
  /\ Delivered(m)
  /\ UNCHANGED <<mainVars, readyVars, holding, status, process, globalQueue, out, moduleSubs,
                 doomed, outManager, managerSubs, bounds, early>>

\* The next packet of the manager; global ready goes to the subscribed modules.
BrokerFromManager ==
  /\ outManager # <<>>
  /\ outManager' = Tail(outManager)
  /\ LET p == Head(outManager) IN
       \/ /\ p.kind = "subscribe"
          /\ managerSubs' = managerSubs \cup {p.module}
          /\ UNCHANGED globalQueue
       \/ /\ p.kind = "unsubscribe"
          /\ managerSubs' = managerSubs \ {p.module}
          /\ UNCHANGED globalQueue
       \/ /\ p.kind = "announce"
          /\ globalQueue' = [m \in Modules |->
                              IF m \in moduleSubs THEN globalQueue[m] + 1 ELSE globalQueue[m]]
          /\ UNCHANGED managerSubs
  /\ UNCHANGED <<mainVars, readyVars, threadVars, status, process, out, late, moduleSubs,
                 doomed, bounds, early>>

-----------------------------------------------------------------------------
ModuleStep(m) ==
  \/ Boot(m) \/ SetOnReady(m) \/ SignalReady(m) \/ HandleReady(m)

Next ==
  \/ RegisterModule \/ SpawnModules \/ SpawnFails
  \/ RestartRequest \/ SignalChildren \/ ExitManager \/ ReloadConfig
  \/ StartAgain \/ ControllerExits
  \/ BrokerFromManager
  \/ \E m \in Modules :
       \/ TakeReady(m) \/ RunReady(m) \/ MissesEntry(m) \/ ReapModule(m)
       \/ Launch(m) \/ ModuleStep(m) \/ Terminate(m) \/ Die(m)
       \/ BrokerFromModule(m) \/ BrokerLate(m)

Spec == Init /\ [][Next]_vars

\* Threads and processes that can run do, signals kill, packets arrive.  No
\* fairness for what users, failures and the controller may do.
Fairness ==
  /\ WF_vars(RegisterModule) /\ WF_vars(SpawnModules) /\ WF_vars(StartAgain)
  /\ WF_vars(SignalChildren) /\ WF_vars(ExitManager) /\ WF_vars(ReloadConfig)
  /\ WF_vars(BrokerFromManager)
  /\ \A m \in Modules :
       /\ WF_vars(TakeReady(m)) /\ WF_vars(RunReady(m) \/ MissesEntry(m)) /\ WF_vars(ReapModule(m))
       /\ WF_vars(Boot(m)) /\ WF_vars(SetOnReady(m)) /\ WF_vars(SignalReady(m))
       /\ WF_vars(HandleReady(m)) /\ WF_vars(Terminate(m))
       /\ WF_vars(BrokerFromModule(m)) /\ WF_vars(BrokerLate(m))

FairSpec == Spec /\ Fairness

-----------------------------------------------------------------------------
(* Properties                                                              *)

\* nothing has been restarted: neither all modules nor a standalone one
FirstRun == restarts = 0 /\ \A m \in Modules : process[m].lives <= 1

\* In the first run of the modules, once start_modules has gone through the
\* config, global ready is announced only when every module has signalled
\* ready and the broker has its subscriptions, so that its commands can be
\* called from then on.
AnnouncedWhenAllReady ==
  [][Len(outManager') > Len(outManager) /\ Last(outManager') = Announce
       /\ FirstRun /\ next > Len(Order) => EveryModuleReady]_vars

\* A module that has accepted the global ready runs its ready handler, unless
\* ready was announced too early or something was restarted.
ReadyHandlerRuns ==
  FirstRun /\ ~early => \A m \in Modules : process[m].readyReceived => process[m].ran

\* A restart spawns a module only after its old process is gone, so that no
\* two processes act for one module.
OneProcessPerModule ==
  [][\A m \in Modules : process'[m].lives > process[m].lives => ~Alive(m)]_vars

\* The race the code's FIXME names: a ready handler misses its entry, and its
\* exception ends the manager, only from shutdown_modules on: while a module's
\* death or a restart request is dealt with, or until a restart has registered
\* and spawned all modules again.
TerminatesOnlyAfterShutdown ==
  [][stage' = "terminated" /\ ManagerUp => ShuttingDown \/ (restarts > 0 /\ ~modulesStarted)]_vars

\* The manager's subscription for a module gets to the broker before the
\* module's ready signal, which nothing waits for.
SubscribedInTime ==
  FirstRun => \A m \in Modules : process[m].stage = "signalled" => m \in managerSubs

\* Where the ready signal of m is, from its connection to modules_ready
SignalOnItsWay(m) ==
  \/ "ready" \in ToSet(out[m]) \/ readyQueue[m] > 0 \/ m \in holding
  \/ m \in DOMAIN modulesReady /\ modulesReady[m]

\* Where global ready is, from the manager's connection to handle_ready of m
ReadyOnItsWay(m) ==
  Announce \in ToSet(outManager) \/ globalQueue[m] > 0 \/ process[m].readyReceived

\* In the first run no signal of the handshake is lost between the threads: the
\* ready signal of a module is on its way until its flag is set, and when all
\* flags are set global ready is on its way to each module until it accepts it.
SignalsAreKept ==
  []SubscribedInTime =>
    [](FirstRun /\ Serving => \A m \in Modules : process[m].stage = "signalled" =>
         /\ SignalOnItsWay(m)
         /\ registered # {} /\ AllReady(modulesReady) /\ ~early => ReadyOnItsWay(m))

\* Once the standalone modules are launched, all modules get to run, or the
\* manager ends; unless a module's ready signal overtakes the manager's
\* subscription for it, or ready is announced early.
EveryModuleRuns ==
  /\ []SubscribedInTime
  /\ <>[](\A m \in Standalone : Alive(m))
  => <>((\A m \in Modules : process[m].ran) \/ ~ManagerUp \/ ~FirstRun \/ early)

\* A restart request ends in modules that are started again, or in the end
\* of the manager.
RestartCompletes ==
  restartModules ~> modulesStarted \/ ~ManagerUp

\* What global readiness is documented to mean (lib/everest.cpp:754): all
\* modules are ready now.
GlobalReadyMeansAllReady == FirstRun => ~early

=============================================================================
