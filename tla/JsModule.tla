------------------------------ MODULE JsModule ------------------------------
(***************************************************************************)
(* A module written in JavaScript: boot_module and the handlers it offers  *)
(* (everestjs.cpp), EverestModule (index.js) and JsExecCtx, which hands a  *)
(* message from the handler thread of its topic to the JavaScript thread.  *)
(*                                                                         *)
(* A handler thread holds exec_mutex from before it posts its call until   *)
(* the promise of the handler has been fulfilled, so the handlers of a     *)
(* module take turns, also where they are asynchronous.  The JavaScript    *)
(* thread runs one task at a time; call_cmd blocks it.                     *)
(***************************************************************************)
EXTENDS Naturals, Sequences, Functions

CONSTANTS
  Descriptions, \* what manifest and config say of the module, see Boot below
  ErrorOrder,   \* error types in the order of the interface's json object
  MaxMessages,  \* bound: messages for all handlers
  MaxCalls,     \* bound: blocking calls the module makes
  MaxWaits,     \* bound: awaits of the module's code
  Setup,        \* the module's own code: boot_module, handler_setup and what follows
  Ready,        \* the framework's ready handler
  Now,          \* what an awaiting task waits for when it can go on
  None

-----------------------------------------------------------------------------
(* Boot: what boot_module makes of a description                           *)

Cmd(c)           == <<"cmd", c>>
Var(r, i, v)     == <<"var", r, i, v>>
Error(r, i, e)   == <<"error", r, i, e>>
Cleared(r, i, e) == <<"cleared", r, i, e>>
External(a)      == <<"mqtt", a>>

\* setup.provides: a register function for every command
Provides == [d \in Descriptions |-> {Cmd(c) : c \in d.cmds}]

\* The connections of a requirement; one without a list has one.
Routes == [d \in Descriptions |->
  UNION {{r} \X (1..d.requires[r].connections) : r \in DOMAIN d.requires}]

\* setup.uses and setup.uses_list: a subscribe function for every variable and
\* every error of a connection
VarsOf == [d \in Descriptions |->
  UNION {{Var(ri[1], ri[2], v) : v \in d.requires[ri[1]].vars} : ri \in Routes[d]}]
ErrorsOf == [d \in Descriptions |->
  UNION {{Error(ri[1], ri[2], e) : e \in d.requires[ri[1]].errors}
         \cup {Cleared(ri[1], ri[2], e) : e \in d.requires[ri[1]].errors} : ri \in Routes[d]}]

\* module.uses: the commands it may call
MayCall(d) == \E r \in DOMAIN d.requires : d.requires[r].callable

\* module.mqtt, there only with enable_external_mqtt
Mqtt == [d \in Descriptions |-> {External(a) : a \in d.aliases}]

Keys == UNION {Provides[d] \cup VarsOf[d] \cup ErrorsOf[d] \cup Mqtt[d] : d \in Descriptions}

\* All connections of a list share one object, on which "subscribe" and
\* "subscribe_error" cannot be defined a second time.
DefinedTwice(d) == \E r \in DOMAIN d.requires :
  /\ d.requires[r].connections > 1
  /\ d.requires[r].vars # {} \/ d.requires[r].errors # {}

\* The module id is not in the config, or a property cannot be defined.
BootThrows(d) == ~d.known \/ DefinedTwice(d)

\* Without a handler_setup function there must be no command to register.
SetupMissing(d) == ~d.setup /\ d.cmds # {}

-----------------------------------------------------------------------------
Handlers == Keys \cup {Ready}   \* topics, each with a handler thread
Tasks    == Handlers \cup {Setup}

NoCall == [by |-> None, to |-> None, back |-> None, due |-> 0]

ASSUME JsConstants ==
  /\ MaxMessages \in Nat /\ MaxCalls \in Nat /\ MaxWaits \in Nat
  /\ Setup \notin Handlers /\ Ready \notin Keys
  /\ None \notin Tasks /\ Now \notin Tasks /\ Now # None
  /\ None \notin {"provider", "manager"}

VARIABLES
  module,        \* the description of this module
  tolerant,      \* the module has made its process survive an uncaught error
  stage,         \* of the boot and the process
  onReady,       \* register_on_ready_handler has been called
  registered,    \* keys with a handler, in the binding and in the framework
  arrived,       \* messages that have reached the queue of a topic
  taken,         \* those its thread has popped
  readyReceived, \* handle_ready has accepted the global ready
  thread,        \* where the handler thread of a topic is
  mutex,         \* the thread that holds exec_mutex
  fields,        \* whose arg_func, res_func and promise JsExecCtx has
  fulfilled,     \* that promise is set
  posted,        \* calls in the queue of the thread-safe function
  job,           \* the JavaScript side of a task
  awaits,        \* what a suspended task awaits
  call,          \* the blocking call the JavaScript thread is in
  readyFlag,     \* framework_ready_flag, and the promise of boot_module
  calls, waits   \* counters of the bounds

bootVars  == <<module, tolerant, onReady>>
queueVars == <<arrived, taken, readyReceived>>
execVars  == <<thread, mutex, fields, fulfilled, posted>>
jsVars    == <<job, awaits, call, readyFlag>>
bounds    == <<calls, waits>>
vars == <<bootVars, stage, registered, queueVars, execVars, jsVars, bounds>>

TypeOK ==
  /\ module \in Descriptions /\ tolerant \in BOOLEAN
  /\ stage \in {"start", "connected", "looping", "signalled", "unbooted", "ended"}
  /\ onReady \in BOOLEAN /\ registered \subseteq Keys
  /\ arrived \in [Handlers -> Nat] /\ taken \in [Handlers -> Nat]
  /\ readyReceived \in BOOLEAN /\ readyFlag \in BOOLEAN
  /\ thread \in [Handlers -> {"idle", "waiting", "posted"}]
  /\ mutex \in Handlers \cup {None} /\ fields \in Handlers \cup {None}
  /\ fulfilled \in BOOLEAN /\ posted \in Nat
  /\ job \in [Tasks -> {"none", "running", "suspended", "fulfilled", "failed"}]
  /\ awaits \in [Tasks -> Handlers \cup {Now, None}]
  /\ call \in [by : Tasks \cup {None}, to : {"provider", "manager", None},
               back : Handlers \cup {None}, due : Nat]
  /\ calls \in 0..MaxCalls /\ waits \in 0..MaxWaits

Init ==
  /\ module \in Descriptions /\ tolerant \in BOOLEAN
  /\ stage = "start" /\ onReady = FALSE /\ registered = {}
  /\ arrived = [k \in Handlers |-> 0] /\ taken = [k \in Handlers |-> 0]
  /\ readyReceived = FALSE
  /\ thread = [k \in Handlers |-> "idle"] /\ mutex = None /\ fields = None
  /\ fulfilled = FALSE /\ posted = 0
  /\ job = [t \in Tasks |-> IF t = Setup THEN "running" ELSE "none"]
  /\ awaits = [t \in Tasks |-> None]
  /\ call = NoCall /\ readyFlag = FALSE
  /\ calls = 0 /\ waits = 0

\* The task the JavaScript thread runs, unless it is in a blocking call.
Runs(t) == job[t] = "running" /\ call.by # t /\ stage # "ended"
Idle    == (\A t \in Tasks : job[t] # "running") /\ stage # "ended"
Looping == stage \in {"looping", "signalled"}

MessageLeft == FoldFunction(+, 0, arrived) < MaxMessages

-----------------------------------------------------------------------------
(* boot_module                                                             *)

\* Up to connect(): the config, the module's properties, the Everest object,
\* which subscribes to the global ready topic.  The exception is JavaScript's.
BootModule ==
  /\ stage = "start"
  /\ \/ /\ BootThrows(module)
        /\ stage' = IF tolerant THEN "unbooted" ELSE "ended"
     \/ /\ ~BootThrows(module)
        /\ stage' = "connected"
  /\ UNCHANGED <<bootVars, registered, queueVars, execVars, jsVars, bounds>>

\* register_on_ready_handler(framework_ready_handler)
RegisterOnReady ==
  /\ stage \in {"connected", "looping"} /\ ~onReady
  /\ onReady' = TRUE
  /\ UNCHANGED <<module, tolerant, stage, registered, queueVars, execVars, jsVars, bounds>>

\* Mutant of SpawnMainLoop: the order of ModuleLoader::initialize.
SpawnMainLoopFirst ==
  /\ stage = "connected"
  /\ stage' = "looping"
  /\ UNCHANGED <<bootVars, registered, queueVars, execVars, jsVars, bounds>>

\* spawn_main_loop_thread; messages are taken from here on, before any handler
\* has been registered.
SpawnMainLoop ==
  /\ stage = "connected" /\ onReady
  /\ stage' = "looping"
  /\ UNCHANGED <<bootVars, registered, queueVars, execVars, jsVars, bounds>>

-----------------------------------------------------------------------------
(* What handler_setup may do.  A second handler for the same key is refused *)
(* with an exception and changes nothing.                                   *)

SettingUp == stage = "looping" /\ Runs(Setup) /\ module.setup

Register(keys) ==
  /\ registered' = registered \cup keys
  /\ UNCHANGED <<bootVars, stage, queueVars, execVars, jsVars, bounds>>

\* setup.provides.<impl>.register.<cmd>
SetupCmdHandler(k) ==
  /\ SettingUp /\ k \in Provides[module] \ registered
  /\ Register({k})

\* setup.uses.<req>.subscribe.<var>
SetVarSubscriptionHandler(k) ==
  /\ SettingUp /\ k \in VarsOf[module] \ registered
  /\ Register({k})

\* setup.uses.<req>.subscribe_error.<type>, with both of its handlers
SubscribeError(r, i, e) ==
  /\ SettingUp /\ <<r, i>> \in Routes[module] /\ e \in module.requires[r].errors
  /\ Error(r, i, e) \notin registered
  /\ Register({Error(r, i, e), Cleared(r, i, e)})

\* setup.uses.<req>.subscribe_all_errors goes through the types in order and
\* stops with the exception of the first that is subscribed already.
SubscribeAllErrors(r, i) ==
  /\ SettingUp /\ <<r, i>> \in Routes[module]
  /\ LET fresh   == {n \in 1..Len(ErrorOrder) :
                      \A m \in 1..n : Error(r, i, ErrorOrder[m]) \notin registered}
         reached == {ErrorOrder[n] : n \in fresh} \cap module.requires[r].errors
     IN  /\ reached # {}
         /\ Register({Error(r, i, e) : e \in reached} \cup {Cleared(r, i, e) : e \in reached})

\* mqtt.subscribe, which any code of the module may call
MqttSubscribe(t, k) ==
  /\ Looping /\ Runs(t) /\ k \in Mqtt[module] \ registered
  /\ t = Setup => module.setup
  /\ Register({k})

-----------------------------------------------------------------------------
(* Blocking calls                                                          *)

\* Both functions belong to the module object.  handler_setup has none, and the
\* handler of an external topic gets one once the framework is ready.
Calling(t) ==
  /\ Looping /\ Runs(t) /\ t # Ready /\ calls < MaxCalls
  /\ t = Setup => stage = "signalled"
  /\ t \in Mqtt[module] => readyFlag

Block(t, whom) ==
  /\ Calling(t)
  /\ call' = [NoCall EXCEPT !.by = t, !.to = whom]
  /\ calls' = calls + 1
  /\ UNCHANGED <<bootVars, stage, registered, queueVars, execVars, awaits, readyFlag, waits>>

\* Mutant of CallCmd: the JavaScript thread is free until the answer comes.
CallCmdAsync(t) ==
  /\ MayCall(module) /\ Block(t, "provider")
  /\ job' = [job EXCEPT ![t] = "suspended"]

\* uses.<req>.call.<cmd>
CallCmd(t) ==
  /\ MayCall(module) /\ Block(t, "provider")
  /\ UNCHANGED job

\* provides.<impl>.request_clear_error and its variants
RequestClearError(t) ==
  /\ module.raises /\ Block(t, "manager")
  /\ UNCHANGED job

\* To answer, the provider calls a command of this module and waits for it.
CallBack(k) ==
  /\ call.to = "provider" /\ call.back = None /\ stage # "ended"
  /\ k \in registered \cap Provides[module] /\ MessageLeft
  /\ arrived' = [arrived EXCEPT ![k] = @ + 1]
  /\ call' = [call EXCEPT !.back = k, !.due = arrived[k] + 1]
  /\ UNCHANGED <<bootVars, stage, registered, taken, readyReceived, execVars, job, awaits,
                 readyFlag, bounds>>

\* the messages of k whose handler has returned
Replied(k) == taken[k] - (IF thread[k] = "idle" THEN 0 ELSE 1)

Unblock ==
  /\ call # NoCall /\ stage # "ended"
  /\ call' = NoCall
  /\ UNCHANGED <<bootVars, stage, registered, queueVars, execVars, job, awaits, readyFlag, bounds>>

Answer  == (call.back # None => Replied(call.back) >= call.due) /\ Unblock
TimeOut == Unblock

-----------------------------------------------------------------------------
(* The JavaScript thread                                                   *)

\* It awaits what another handler resolves, the ready promise of boot_module,
\* or something the module does not need the framework for.
Await(t, on) ==
  /\ Looping /\ Runs(t) /\ t # Ready /\ waits < MaxWaits
  /\ t = Setup => module.setup \/ stage = "signalled"
  /\ job' = [job EXCEPT ![t] = "suspended"]
  /\ awaits' = [awaits EXCEPT ![t] = IF on = Ready /\ readyFlag THEN Now ELSE on]
  /\ waits' = waits + 1
  /\ UNCHANGED <<bootVars, stage, registered, queueVars, execVars, call, readyFlag, calls>>

Resume(t) ==
  /\ Idle /\ job[t] = "suspended" /\ awaits[t] = Now
  /\ job' = [job EXCEPT ![t] = "running"]
  /\ awaits' = [awaits EXCEPT ![t] = None]
  /\ UNCHANGED <<bootVars, stage, registered, queueVars, execVars, call, readyFlag, bounds>>

Woken(k) == [t \in Tasks |-> IF awaits[t] = k THEN Now ELSE awaits[t]]

\* The promise of a handler is fulfilled: on_fulfill.
Fulfil(k) ==
  /\ k \in Handlers /\ Runs(k)
  /\ job' = [job EXCEPT ![k] = "fulfilled"] /\ awaits' = Woken(k)
  /\ fulfilled' = TRUE
  /\ UNCHANGED <<bootVars, stage, registered, queueVars, thread, mutex, fields, posted, call,
                 readyFlag, bounds>>

\* It throws, rejects, or returns what is not JSON: the promise of exec is not
\* set, and the error is left to the process.
FailHandler(k) ==
  /\ k \in Keys /\ Runs(k)
  /\ job' = [job EXCEPT ![k] = "failed"]
  /\ stage' = IF tolerant THEN stage ELSE "ended"
  /\ UNCHANGED <<bootVars, registered, queueVars, execVars, awaits, call, readyFlag, bounds>>

\* signal_ready when handler_setup has succeeded; boot_module's caller goes on
\* when framework_ready_promise is resolved.
SignalReady ==
  /\ stage = "looping" /\ Runs(Setup) /\ ~SetupMissing(module)
  /\ stage' = "signalled"
  /\ job' = [job EXCEPT ![Setup] = "suspended"]
  /\ awaits' = [awaits EXCEPT ![Setup] = IF readyFlag THEN Now ELSE Ready]
  /\ UNCHANGED <<bootVars, registered, queueVars, execVars, call, readyFlag, bounds>>

\* The module's code leaves the rest to its handlers.
Finish ==
  /\ stage = "signalled" /\ Runs(Setup)
  /\ job' = [job EXCEPT ![Setup] = "fulfilled"]
  /\ UNCHANGED <<bootVars, stage, registered, queueVars, execVars, awaits, call, readyFlag, bounds>>

\* It throws, or handler_setup is missing or rejects; who catches that goes on
\* without signal_ready.
FailSetup ==
  /\ Looping /\ Runs(Setup)
  /\ module.setup \/ SetupMissing(module) \/ stage = "signalled"
  /\ job' = [job EXCEPT ![Setup] = "failed"]
  /\ \/ UNCHANGED stage
     \/ ~tolerant /\ stage' = "ended"
  /\ UNCHANGED <<bootVars, registered, queueVars, execVars, awaits, call, readyFlag, bounds>>

-----------------------------------------------------------------------------
(* The framework's threads and JsExecCtx                                   *)

Arrive(k) ==
  /\ stage \in {"connected", "looping", "signalled"}
  /\ k \in registered \cup {Ready} /\ MessageLeft
  /\ arrived' = [arrived EXCEPT ![k] = @ + 1]
  /\ UNCHANGED <<bootVars, stage, registered, taken, readyReceived, execVars, jsVars, bounds>>

\* The handler thread pops a message and goes to exec; handle_ready only for
\* the first ready signal, and if a ready handler has been registered by then.
Take(k) ==
  /\ Looping /\ thread[k] = "idle" /\ taken[k] < arrived[k]
  /\ taken' = [taken EXCEPT ![k] = @ + 1]
  /\ readyReceived' = (readyReceived \/ k = Ready)
  /\ thread' = IF k = Ready /\ (readyReceived \/ ~onReady) THEN thread
               ELSE [thread EXCEPT ![k] = "waiting"]
  /\ UNCHANGED <<bootVars, stage, registered, arrived, mutex, fields, fulfilled, posted, jsVars,
                 bounds>>

Post(k) ==
  /\ Looping /\ thread[k] = "waiting"
  /\ thread' = [thread EXCEPT ![k] = "posted"]
  /\ mutex' = k /\ fields' = k
  /\ fulfilled' = FALSE /\ posted' = posted + 1
  /\ UNCHANGED <<bootVars, stage, registered, queueVars, jsVars, bounds>>

\* Mutant of Enter: exec without exec_mutex.
EnterUnlocked(k) == Post(k)

\* exec: the mutex, the two functions and a new promise, BlockingCall
Enter(k) == mutex = None /\ Post(k)

\* tramp: the JavaScript thread calls what the fields say.  handle_ready_js
\* resolves the ready promise.
Tramp ==
  /\ Looping /\ Idle /\ posted > 0
  /\ posted' = posted - 1
  /\ job' = [job EXCEPT ![fields] = "running"]
  /\ \/ /\ fields = Ready
        /\ readyFlag' = TRUE /\ awaits' = Woken(Ready)
     \/ /\ fields # Ready
        /\ UNCHANGED <<readyFlag, awaits>>
  /\ UNCHANGED <<bootVars, stage, registered, queueVars, thread, mutex, fields, fulfilled, call,
                 bounds>>

\* The future is ready: exec returns, and the command's result is sent.
Return(k) ==
  /\ Looping /\ thread[k] = "posted" /\ fulfilled
  /\ thread' = [thread EXCEPT ![k] = "idle"]
  /\ mutex' = None
  /\ job' = [job EXCEPT ![k] = "none"]
  /\ UNCHANGED <<bootVars, stage, registered, queueVars, fields, fulfilled, posted, awaits, call,
                 readyFlag, bounds>>

-----------------------------------------------------------------------------
Boot == BootModule \/ RegisterOnReady \/ SpawnMainLoop

SetupStep ==
  \/ \E k \in Keys : SetupCmdHandler(k) \/ SetVarSubscriptionHandler(k)
  \/ \E r \in DOMAIN module.requires : \E i \in 1..module.requires[r].connections :
       \/ SubscribeAllErrors(r, i)
       \/ \E e \in module.requires[r].errors : SubscribeError(r, i, e)
  \/ SignalReady \/ Finish \/ FailSetup

TaskStep(t) ==
  \/ \E k \in Keys : MqttSubscribe(t, k)
  \/ \E on \in registered \cup {Ready, Now} : Await(t, on)
  \/ CallCmd(t) \/ RequestClearError(t)
  \/ Fulfil(t) \/ FailHandler(t)

\* A thread of the process goes on, or a call ends.
Progress ==
  \/ Boot \/ SetupStep \/ Tramp
  \/ Answer \/ TimeOut
  \/ \E t \in Tasks : TaskStep(t) \/ Resume(t)
  \/ \E k \in Handlers : Take(k) \/ Enter(k) \/ Return(k)

Next == Progress \/ \E k \in Handlers : CallBack(k) \/ Arrive(k)

Spec == Init /\ [][Next]_vars

\* Threads that can run do: the module's code goes on until it awaits, returns
\* or throws, a call ends by its timeout.  As the bounds leave each of them
\* finitely many steps, this one condition is fair to all.
Fairness == WF_vars(Progress)

FairSpec == Spec /\ Fairness

-----------------------------------------------------------------------------
(* Properties                                                              *)

Active(k) == job[k] \in {"running", "suspended"}

\* exec keeps its functions and its promise in the object, shared by all
\* handler threads: the call a thread waits for is its own until it returns,
\* also while the handler is suspended, so that on_fulfill sets the promise and
\* fills the result of that thread (js_exec_ctx.cpp:52).
OwnHandler ==
  /\ \A k, l \in Handlers : Active(k) /\ Active(l) => k = l
  /\ \A k \in Handlers :
       /\ thread[k] = "posted" => fields = k
       /\ job[k] # "none" => thread[k] = "posted"

\* A command that the provider of a call needs from this module is not executed
\* while call_cmd blocks the JavaScript thread: the call can only time out.
CallBacksOnlyTimeOut ==
  call.back # None => Replied(call.back) < call.due

\* A handler has failed and the process lives, or it awaits what only another
\* handler can bring about: exec_mutex is held for good.
Jammed ==
  \E k \in Handlers : job[k] = "failed" \/ (job[k] = "suspended" /\ awaits[k] # Now)

\* No promise is lost: while a handler thread waits, for exec_mutex or for its
\* handler, and no handler has jammed the others, some step brings it on; and
\* a global ready signal that was accepted still reaches boot_module's promise.
WaitersAreServed ==
  Looping /\ ~Jammed =>
    /\ (\E k \in Handlers : thread[k] # "idle") =>
         \/ mutex = None \/ posted > 0
         \/ \E t \in Tasks : job[t] = "running" \/ (job[t] = "suspended" /\ awaits[t] = Now)
         \/ thread[mutex] = "posted" /\ fulfilled
    /\ readyReceived /\ ~readyFlag => thread[Ready] # "idle" /\ job[Ready] = "none"

\* Every handler thread returns, and who has seen the global ready signal gets
\* its promise resolved; unless a handler has jammed the others or the process
\* has ended.
HandlersReturn ==
  \/ <>(Jammed \/ stage = "ended")
  \/ <>[]((\A k \in Handlers : thread[k] = "idle") /\ (readyReceived => readyFlag))

=============================================================================
