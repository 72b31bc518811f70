--------------------------- MODULE JsModuleProofs ---------------------------
(* Theorems about JsModule for every description of a module, every number *)
(* of messages, calls and awaits.                                          *)
EXTENDS JsModule, TLAPS

-----------------------------------------------------------------------------
(* The inductive invariant                                                 *)

\* exec_mutex belongs to the thread that has posted its call.  Its fields are
\* of that call, only its handler is on the JavaScript side, at most one call is
\* in the queue, and the promise is set only when the handler is through.
TurnInv ==
  /\ \A k \in Handlers : thread[k] = "posted" <=> mutex = k
  /\ mutex # None => fields = mutex
  /\ \A k \in Handlers : job[k] # "none" => mutex = k
  /\ posted \in {0, 1}
  /\ posted = 1 => mutex # None /\ ~fulfilled /\ \A k \in Handlers : job[k] = "none"
  /\ fulfilled /\ mutex # None => job[mutex] = "fulfilled"
  /\ \A s, t \in Tasks : job[s] = "running" /\ job[t] = "running" => s = t

\* The task in a blocking call is the one that occupies the JavaScript thread.
\* The message the call waits for has not been taken, or its thread waits.
CallInv ==
  /\ call # NoCall => call.by \in Tasks /\ job[call.by] = "running"
  /\ \A k \in Handlers : taken[k] <= arrived[k]
  /\ call.back # None =>
       /\ call # NoCall /\ call.back \in Keys
       /\ taken[call.back] <= call.due
       /\ taken[call.back] = call.due =>
            thread[call.back] = "waiting" \/ (thread[call.back] = "posted" /\ ~fulfilled)

\* Whoever holds exec_mutex has its call queued or its handler started, and the
\* promise is set when the handler is through.  The ready handler is registered
\* before messages are taken, so the first global ready signal goes to exec.
ServedInv ==
  /\ mutex # None => posted = 1 \/ job[mutex] # "none"
  /\ \A k \in Handlers : job[k] = "fulfilled" => fulfilled
  /\ Looping => onReady
  /\ readyReceived /\ ~readyFlag => thread[Ready] # "idle" /\ job[Ready] = "none"

IInv == TypeOK /\ TurnInv /\ CallInv /\ ServedInv

-----------------------------------------------------------------------------
(* Types                                                                   *)

LEMMA KeyTypes ==
  /\ Keys \subseteq Handlers /\ Handlers \subseteq Tasks
  /\ Ready \in Handlers /\ Setup \in Tasks /\ Setup \notin Handlers /\ Ready \notin Keys
  /\ None \notin Tasks /\ Now \notin Tasks /\ Now # None
BY JsConstants DEF Handlers, Tasks

\* Whatever a module can register is a key.
LEMMA KeysOfModule ==
  ASSUME NEW d \in Descriptions
  PROVE  /\ Provides[d] \subseteq Keys /\ VarsOf[d] \subseteq Keys /\ Mqtt[d] \subseteq Keys
         /\ \A r, i, e : <<r, i>> \in Routes[d] /\ e \in d.requires[r].errors =>
              Error(r, i, e) \in Keys /\ Cleared(r, i, e) \in Keys
<1>1. Provides[d] \cup VarsOf[d] \cup ErrorsOf[d] \cup Mqtt[d] \subseteq Keys
  BY DEF Keys
<1>2. ASSUME NEW r, NEW i, NEW e, <<r, i>> \in Routes[d], e \in d.requires[r].errors
      PROVE  Error(r, i, e) \in ErrorsOf[d] /\ Cleared(r, i, e) \in ErrorsOf[d]
  <2> DEFINE F(ri) == {Error(ri[1], ri[2], x) : x \in d.requires[ri[1]].errors}
                      \cup {Cleared(ri[1], ri[2], x) : x \in d.requires[ri[1]].errors}
  <2>1. ErrorsOf[d] = UNION {F(ri) : ri \in Routes[d]}
    BY DEF ErrorsOf
  <2>2. Error(r, i, e) \in F(<<r, i>>) /\ Cleared(r, i, e) \in F(<<r, i>>)
    BY <1>2
  <2> HIDE DEF F
  <2> QED
    BY <1>2, <2>1, <2>2
<1> QED
  BY <1>1, <1>2

LEMMA NoCallType ==
  NoCall \in [by : Tasks \cup {None}, to : {"provider", "manager", None},
              back : Handlers \cup {None}, due : Nat]
BY DEF NoCall

LEMMA InitTypes == Init => TypeOK
<1> SUFFICES ASSUME Init PROVE TypeOK
  OBVIOUS
<1>1. /\ call \in [by : Tasks \cup {None}, to : {"provider", "manager", None},
                   back : Handlers \cup {None}, due : Nat]
      /\ calls \in 0..MaxCalls /\ waits \in 0..MaxWaits
  BY NoCallType, JsConstants DEF Init
<1>2. /\ job \in [Tasks -> {"none", "running", "suspended", "fulfilled", "failed"}]
      /\ awaits \in [Tasks -> Handlers \cup {Now, None}]
      /\ thread \in [Handlers -> {"idle", "waiting", "posted"}]
      /\ arrived \in [Handlers -> Nat] /\ taken \in [Handlers -> Nat]
  BY DEF Init
<1> QED
  BY <1>1, <1>2 DEF Init, TypeOK

LEMMA RegisterTypes ==
  ASSUME TypeOK, NEW keys \in SUBSET Keys, Register(keys)
  PROVE  TypeOK'
BY DEF TypeOK, Register, bootVars, queueVars, execVars, jsVars, bounds

LEMMA SetupTypes ==
  ASSUME TypeOK, SetupStep
  PROVE  TypeOK'
<1>0. module \in Descriptions
  BY DEF TypeOK
<1>1. CASE \E k \in Keys : SetupCmdHandler(k) \/ SetVarSubscriptionHandler(k)
  BY <1>0, <1>1, KeysOfModule, RegisterTypes DEF SetupCmdHandler, SetVarSubscriptionHandler
<1>2. ASSUME NEW r, NEW i, SubscribeAllErrors(r, i)
      PROVE  TypeOK'
  <2>1. PICK reached \in SUBSET module.requires[r].errors :
          Register({Error(r, i, e) : e \in reached} \cup {Cleared(r, i, e) : e \in reached})
    BY <1>2 DEF SubscribeAllErrors
  <2>2. {Error(r, i, e) : e \in reached} \cup {Cleared(r, i, e) : e \in reached} \subseteq Keys
    BY <1>0, <1>2, KeysOfModule DEF SubscribeAllErrors
  <2> QED
    BY <2>1, <2>2, RegisterTypes
<1>3. ASSUME NEW r, NEW i, NEW e, SubscribeError(r, i, e)
      PROVE  TypeOK'
  <2>1. {Error(r, i, e), Cleared(r, i, e)} \subseteq Keys
    BY <1>0, <1>3, KeysOfModule DEF SubscribeError
  <2> QED
    BY <1>3, <2>1, RegisterTypes DEF SubscribeError
<1>4. CASE SignalReady
  BY <1>4, KeyTypes DEF TypeOK, SignalReady, bootVars, queueVars, execVars, bounds
<1>5. CASE Finish \/ FailSetup
  BY <1>5, KeyTypes DEF TypeOK, Finish, FailSetup, Looping, bootVars, queueVars, execVars, bounds
<1> QED
  BY <1>1, <1>2, <1>3, <1>4, <1>5 DEF SetupStep

LEMMA TaskTypes ==
  ASSUME TypeOK, NEW t \in Tasks, TaskStep(t) \/ Resume(t)
  PROVE  TypeOK'
<1>0. module \in Descriptions
  BY DEF TypeOK
<1>1. ASSUME NEW k \in Keys, MqttSubscribe(t, k)
      PROVE  TypeOK'
  BY <1>0, <1>1, KeysOfModule, RegisterTypes DEF MqttSubscribe
<1>2. ASSUME NEW on \in registered \cup {Ready, Now}, Await(t, on)
      PROVE  TypeOK'
  <2>1. on \in Handlers \cup {Now, None}
    BY KeyTypes DEF TypeOK
  <2> QED
    BY <1>2, <2>1, JsConstants DEF TypeOK, Await, bootVars, queueVars, execVars
<1>3. CASE CallCmd(t) \/ RequestClearError(t)
  <2>1. PICK whom \in {"provider", "manager"} : call' = [NoCall EXCEPT !.by = t, !.to = whom]
    BY <1>3 DEF CallCmd, RequestClearError, Block
  <2>2. call' \in [by : Tasks \cup {None}, to : {"provider", "manager", None},
                   back : Handlers \cup {None}, due : Nat]
    BY <2>1 DEF NoCall
  <2>3. calls' \in 0..MaxCalls
    BY <1>3, JsConstants DEF TypeOK, CallCmd, RequestClearError, Block, Calling
  <2> QED
    BY <1>3, <2>2, <2>3
    DEF TypeOK, CallCmd, RequestClearError, Block, bootVars, queueVars, execVars
<1>4. CASE Fulfil(t)
  BY <1>4, KeyTypes DEF TypeOK, Fulfil, Woken, bootVars, queueVars, bounds
<1>5. CASE FailHandler(t)
  BY <1>5, KeyTypes DEF TypeOK, FailHandler, bootVars, queueVars, execVars, bounds
<1>6. CASE Resume(t)
  BY <1>6, KeyTypes DEF TypeOK, Resume, bootVars, queueVars, execVars, bounds
<1> QED
  BY <1>1, <1>2, <1>3, <1>4, <1>5, <1>6 DEF TaskStep

LEMMA ThreadTypes ==
  ASSUME TypeOK, NEW k \in Handlers,
         Take(k) \/ Enter(k) \/ Return(k) \/ CallBack(k) \/ Arrive(k)
  PROVE  TypeOK'
<1>1. CASE Take(k)
  <2>1. taken' \in [Handlers -> Nat] /\ readyReceived' \in BOOLEAN
        /\ thread' \in [Handlers -> {"idle", "waiting", "posted"}]
    BY <1>1 DEF TypeOK, Take
  <2> QED
    BY <1>1, <2>1 DEF TypeOK, Take, bootVars, jsVars, bounds
<1>2. CASE Enter(k)
  <2>0. posted \in Nat /\ posted' = posted + 1 /\ fulfilled' = FALSE
    BY <1>2 DEF TypeOK, Enter, Post
  <2>1. posted' \in Nat
    BY <2>0
  <2>3. fulfilled' \in BOOLEAN
    BY <2>0, Zenon
  <2>2. thread' \in [Handlers -> {"idle", "waiting", "posted"}]
    BY <1>2 DEF TypeOK, Enter, Post
  <2> QED
    BY <1>2, <2>1, <2>2, <2>3 DEF TypeOK, Enter, Post, bootVars, queueVars, jsVars, bounds
<1>3. CASE Return(k)
  BY <1>3, KeyTypes DEF TypeOK, Return, bootVars, queueVars, bounds
<1>4. CASE CallBack(k)
  <2>1. arrived[k] + 1 \in Nat
    BY DEF TypeOK
  <2>2. call' \in [by : Tasks \cup {None}, to : {"provider", "manager", None},
                   back : Handlers \cup {None}, due : Nat]
    BY <1>4, <2>1 DEF TypeOK, CallBack
  <2>3. arrived' \in [Handlers -> Nat]
    BY <1>4, <2>1 DEF TypeOK, CallBack
  <2> QED
    BY <1>4, <2>2, <2>3 DEF TypeOK, CallBack, bootVars, execVars, bounds
<1>5. CASE Arrive(k)
  BY <1>5 DEF TypeOK, Arrive, bootVars, execVars, jsVars, bounds
<1> QED
  BY <1>1, <1>2, <1>3, <1>4, <1>5

LEMMA OtherTypes ==
  ASSUME TypeOK, TurnInv, Boot \/ Tramp \/ Answer \/ TimeOut
  PROVE  TypeOK'
<1>1. CASE Boot
  BY <1>1 DEF TypeOK, Boot, BootModule, RegisterOnReady, SpawnMainLoop, bootVars, queueVars,
              execVars, jsVars, bounds
<1>2. CASE Tramp
  <2>0. posted = 1
    BY <1>2 DEF TurnInv, Tramp
  <2>1. fields \in Handlers /\ posted - 1 \in Nat
    BY <2>0 DEF TypeOK, TurnInv
  <2>2. job' \in [Tasks -> {"none", "running", "suspended", "fulfilled", "failed"}]
    BY <1>2, <2>1, KeyTypes DEF TypeOK, Tramp
  <2>3. awaits' \in [Tasks -> Handlers \cup {Now, None}] /\ readyFlag' \in BOOLEAN
    BY <1>2 DEF TypeOK, Tramp, Woken
  <2>4. posted' \in Nat
    BY <1>2, <2>1 DEF Tramp
  <2> QED
    BY <1>2, <2>2, <2>3, <2>4 DEF TypeOK, Tramp, bootVars, queueVars, bounds
<1>3. CASE Answer \/ TimeOut
  BY <1>3, NoCallType DEF TypeOK, Answer, TimeOut, Unblock, bootVars, queueVars, execVars, bounds
<1> QED
  BY <1>1, <1>2, <1>3

-----------------------------------------------------------------------------
(* The handlers take turns                                                 *)

LEMMA InitTurn == Init => TurnInv
BY KeyTypes DEF Init, TurnInv

\* Steps that touch neither exec nor the jobs of tasks.
LEMMA TurnQuiet ==
  ASSUME TurnInv, UNCHANGED <<execVars, job>>
  PROVE  TurnInv'
BY DEF TurnInv, execVars

\* A task that stops running, or changes from one way of not running to another,
\* has no effect on who holds the mutex.
LEMMA TurnJob ==
  ASSUME TypeOK, TurnInv, NEW t \in Tasks, job[t] = "running",
         NEW to \in {"suspended", "failed", "fulfilled"}, job' = [job EXCEPT ![t] = to],
         UNCHANGED execVars
  PROVE  TurnInv'
<1>1. \A k \in Handlers : job'[k] # "none" <=> job[k] # "none"
  BY KeyTypes DEF TypeOK
<1>2. \A s \in Tasks : job'[s] = "running" => job[s] = "running"
  BY DEF TypeOK
<1>3. fulfilled /\ mutex # None => job'[mutex] = "fulfilled"
  BY KeyTypes DEF TypeOK, TurnInv
<1> QED
  BY <1>1, <1>2, <1>3 DEF TurnInv, execVars

LEMMA SetupTurn ==
  ASSUME TypeOK, TurnInv, SetupStep
  PROVE  TurnInv'
<1>1. CASE UNCHANGED <<execVars, job>>
  BY <1>1, TurnQuiet
<1>2. CASE SignalReady \/ Finish \/ FailSetup
  <2>1. PICK to \in {"suspended", "failed", "fulfilled"} : job' = [job EXCEPT ![Setup] = to]
    BY <1>2 DEF SignalReady, Finish, FailSetup
  <2>2. job[Setup] = "running" /\ UNCHANGED execVars
    BY <1>2 DEF SignalReady, Finish, FailSetup, Runs
  <2> QED
    BY <2>1, <2>2, TurnJob, KeyTypes
<1> QED
  BY <1>1, <1>2 DEF SetupStep, SetupCmdHandler, SetVarSubscriptionHandler, SubscribeError,
                    SubscribeAllErrors, Register, jsVars

LEMMA TaskTurn ==
  ASSUME TypeOK, TurnInv, NEW t \in Tasks, TaskStep(t) \/ Resume(t)
  PROVE  TurnInv'
<1>1. CASE UNCHANGED <<execVars, job>>
  BY <1>1, TurnQuiet
<1>2. CASE FailHandler(t) \/ \E on \in registered \cup {Ready, Now} : Await(t, on)
  <2>1. PICK to \in {"suspended", "failed", "fulfilled"} : job' = [job EXCEPT ![t] = to]
    BY <1>2 DEF FailHandler, Await
  <2>2. job[t] = "running" /\ UNCHANGED execVars
    BY <1>2 DEF FailHandler, Await, Runs
  <2> QED
    BY <2>1, <2>2, TurnJob
<1>3. CASE Fulfil(t)
  <2>1. mutex = t /\ job[t] = "running" /\ t \in Handlers
    BY <1>3 DEF Fulfil, Runs, TurnInv
  <2>2. posted = 0
    BY <2>1 DEF TurnInv
  <2>3. job'[t] = "fulfilled" /\ \A s \in Tasks : s # t => job'[s] = job[s]
    BY <1>3 DEF Fulfil, TypeOK
  <2> QED
    BY <1>3, <2>1, <2>2, <2>3, KeyTypes DEF Fulfil, TurnInv
<1>4. CASE Resume(t)
  <2>1. job[t] = "suspended" /\ job' = [job EXCEPT ![t] = "running"] /\ UNCHANGED execVars
    BY <1>4 DEF Resume
  <2>2. \A s \in Tasks : job[s] # "running"
    BY <1>4 DEF Resume, Idle
  <2>3. \A k \in Handlers : job'[k] # "none" <=> job[k] # "none"
    BY <2>1, KeyTypes DEF TypeOK
  <2>4. fulfilled /\ mutex # None => job'[mutex] = "fulfilled"
    BY <2>1, KeyTypes DEF TypeOK, TurnInv
  <2>5. \A s \in Tasks : job'[s] = "running" => s = t
    BY <2>1, <2>2 DEF TypeOK
  <2> QED
    BY <2>1, <2>3, <2>4, <2>5 DEF TurnInv, execVars
<1> QED
  BY <1>1, <1>2, <1>3, <1>4
  DEF TaskStep, MqttSubscribe, Register, CallCmd, RequestClearError, Block, jsVars

LEMMA ThreadTurn ==
  ASSUME TypeOK, TurnInv, NEW k \in Handlers,
         Take(k) \/ Enter(k) \/ Return(k) \/ CallBack(k) \/ Arrive(k)
  PROVE  TurnInv'
<1>1. CASE Take(k)
  <2>1. \A j \in Handlers : thread'[j] = "posted" <=> thread[j] = "posted"
    BY <1>1 DEF Take, TypeOK
  <2> QED
    BY <1>1, <2>1 DEF Take, TurnInv, jsVars
<1>2. CASE Enter(k)
  <2>1. mutex = None /\ \A j \in Handlers : thread[j] # "posted" /\ job[j] = "none"
    BY <1>2, KeyTypes DEF Enter, TurnInv
  <2>2. \A j \in Handlers : thread'[j] = "posted" <=> k = j
    BY <1>2, <2>1 DEF Enter, Post, TypeOK
  <2>3. posted = 0 /\ posted' = 1
    BY <1>2, <2>1 DEF Enter, Post, TurnInv
  <2>4. mutex' = k /\ fields' = k /\ fulfilled' = FALSE /\ job' = job
    BY <1>2 DEF Enter, Post, jsVars
  <2> QED
    BY <2>1, <2>2, <2>3, <2>4, KeyTypes DEF TurnInv
<1>3. CASE Return(k)
  <2>1. mutex = k /\ posted = 0
    BY <1>3 DEF Return, TurnInv
  <2>2. \A j \in Handlers : thread'[j] # "posted" /\ job'[j] = "none"
    BY <1>3, <2>1, KeyTypes DEF Return, TypeOK, TurnInv
  <2>3. \A s \in Tasks : job'[s] = "running" => job[s] = "running"
    BY <1>3, KeyTypes DEF Return, TypeOK
  <2>4. mutex' = None /\ posted' = posted
    BY <1>3 DEF Return
  <2> QED
    BY <2>1, <2>2, <2>3, <2>4, KeyTypes DEF TurnInv
<1>4. CASE CallBack(k) \/ Arrive(k)
  BY <1>4, TurnQuiet DEF CallBack, Arrive, jsVars
<1> QED
  BY <1>1, <1>2, <1>3, <1>4

LEMMA OtherTurn ==
  ASSUME TypeOK, TurnInv, Boot \/ Tramp \/ Answer \/ TimeOut
  PROVE  TurnInv'
<1>1. CASE Boot \/ Answer \/ TimeOut
  BY <1>1, TurnQuiet DEF Boot, BootModule, RegisterOnReady, SpawnMainLoop, Answer, TimeOut,
                         Unblock, jsVars
<1>2. CASE Tramp
  <2>1. posted = 1 /\ mutex # None /\ fields = mutex /\ ~fulfilled
    BY <1>2 DEF Tramp, TurnInv
  <2>2. mutex \in Handlers /\ posted' = 0
    BY <1>2, <2>1 DEF TypeOK, Tramp
  <2>3. \A k \in Handlers : job'[k] # "none" => k = mutex
    BY <1>2, <2>1, <2>2, KeyTypes DEF Tramp, TypeOK, TurnInv
  <2>4. \A s \in Tasks : job'[s] = "running" => s = mutex
    BY <1>2, <2>1, <2>2, KeyTypes DEF Tramp, TypeOK, Idle
  <2>5. UNCHANGED <<thread, mutex, fields, fulfilled>>
    BY <1>2 DEF Tramp
  <2> QED
    BY <2>1, <2>2, <2>3, <2>4, <2>5 DEF TurnInv
<1> QED
  BY <1>1, <1>2

-----------------------------------------------------------------------------
(* Call backs                                                              *)

LEMMA InitCall == Init => CallInv
BY DEF Init, CallInv, NoCall

\* While a call blocks the JavaScript thread, no task goes on.
LEMMA Blocked ==
  ASSUME TurnInv, CallInv, call # NoCall
  PROVE  ~Idle /\ \A t \in Tasks : ~Runs(t)
BY DEF TurnInv, CallInv, Idle, Runs

\* Steps that are neither of the call nor of the handlers and their messages.
LEMMA CallQuiet ==
  ASSUME CallInv, UNCHANGED <<arrived, taken, thread, fulfilled, call>>,
         call = NoCall \/ job' = job
  PROVE  CallInv'
BY DEF CallInv, NoCall

LEMMA SetupCall ==
  ASSUME TurnInv, CallInv, SetupStep
  PROVE  CallInv'
<1>1. UNCHANGED <<arrived, taken, thread, fulfilled, call>>
  BY DEF SetupStep, SetupCmdHandler, SetVarSubscriptionHandler, SubscribeError, SubscribeAllErrors,
         Register, SignalReady, Finish, FailSetup, queueVars, execVars, jsVars
<1>2. Runs(Setup)
  BY DEF SetupStep, SetupCmdHandler, SetVarSubscriptionHandler, SubscribeError, SubscribeAllErrors,
         SettingUp, SignalReady, Finish, FailSetup
<1>3. call = NoCall
  BY <1>2, Blocked, KeyTypes
<1> QED
  BY <1>1, <1>3, CallQuiet

LEMMA TaskCall ==
  ASSUME TypeOK, TurnInv, CallInv, NEW t \in Tasks, TaskStep(t) \/ Resume(t)
  PROVE  CallInv'
<1>0. call = NoCall
  BY Blocked DEF TaskStep, MqttSubscribe, Await, CallCmd, RequestClearError, Block, Calling, Fulfil,
                 FailHandler, Resume
<1>1. CASE CallCmd(t) \/ RequestClearError(t)
  <2>1. PICK whom : call' = [NoCall EXCEPT !.by = t, !.to = whom]
    BY <1>1 DEF CallCmd, RequestClearError, Block
  <2>2. call'.by = t /\ call'.back = None
    BY <2>1 DEF NoCall
  <2>3. job'[t] = "running" /\ UNCHANGED <<arrived, taken>>
    BY <1>1 DEF CallCmd, RequestClearError, Block, Calling, Runs, queueVars
  <2> QED
    BY <2>2, <2>3 DEF CallInv
<1>2. CASE Fulfil(t)
  BY <1>0, <1>2 DEF Fulfil, CallInv, NoCall, queueVars
<1>3. CASE UNCHANGED <<arrived, taken, thread, fulfilled, call>>
  BY <1>0, <1>3, CallQuiet
<1> QED
  BY <1>1, <1>2, <1>3
  DEF TaskStep, MqttSubscribe, Register, Await, FailHandler, Resume, queueVars, execVars, jsVars

LEMMA ThreadCall ==
  ASSUME TypeOK, TurnInv, CallInv, NEW k \in Handlers,
         Take(k) \/ Enter(k) \/ Return(k) \/ CallBack(k) \/ Arrive(k)
  PROVE  CallInv'
<1>1. CASE Take(k)
  <2>1. UNCHANGED <<arrived, fulfilled, call, job>>
    BY <1>1 DEF Take, jsVars
  <2>2. \A j \in Handlers : taken'[j] <= arrived[j]
    BY <1>1 DEF Take, TypeOK, CallInv
  <2>3. ASSUME call.back # None
        PROVE  /\ taken'[call.back] <= call.due
               /\ taken'[call.back] = call.due =>
                    thread'[call.back] = "waiting" \/ (thread'[call.back] = "posted" /\ ~fulfilled)
    <3>1. CASE call.back # k
      BY <1>1, <2>3, <3>1, KeyTypes DEF Take, TypeOK, CallInv
    <3>2. CASE call.back = k
      <4>1. k # Ready /\ thread[k] = "idle" /\ thread' = [thread EXCEPT ![k] = "waiting"]
        BY <1>1, <2>3, <3>2, KeyTypes DEF Take, CallInv
      <4>2. taken[k] # call.due /\ taken[k] <= call.due
        BY <2>3, <3>2, <4>1 DEF CallInv
      <4> QED
        BY <1>1, <3>2, <4>1, <4>2 DEF Take, TypeOK
    <3> QED
      BY <3>1, <3>2
  <2> QED
    BY <2>1, <2>2, <2>3 DEF CallInv
<1>2. CASE Enter(k)
  <2>1. UNCHANGED <<arrived, taken, call, job>> /\ fulfilled' = FALSE
    BY <1>2 DEF Enter, Post, queueVars, jsVars
  <2>2. \A j \in Handlers : thread[j] \in {"waiting", "posted"} => thread'[j] \in {"waiting", "posted"}
    BY <1>2 DEF Enter, Post, TypeOK
  <2> QED
    BY <2>1, <2>2, KeyTypes DEF CallInv
<1>3. CASE Return(k)
  <2>1. UNCHANGED <<arrived, taken, call, fulfilled>> /\ fulfilled
    BY <1>3 DEF Return, queueVars
  <2>2. mutex = k /\ job[k] = "fulfilled"
    BY <1>3, <2>1, KeyTypes DEF Return, TurnInv
  <2>3. \A t \in Tasks : job[t] = "running" => job'[t] = "running"
    BY <1>3, <2>2 DEF Return, TypeOK
  <2>4. \A j \in Handlers : thread[j] = "waiting" => thread'[j] = "waiting"
    BY <1>3 DEF Return, TypeOK
  <2> QED
    BY <2>1, <2>3, <2>4, KeyTypes DEF CallInv
<1>4. CASE CallBack(k)
  <2>1. UNCHANGED <<taken, thread, fulfilled, job>>
    BY <1>4 DEF CallBack, execVars
  <2>2. call'.by = call.by /\ call'.back = k /\ call'.due = arrived[k] + 1
    BY <1>4 DEF CallBack, TypeOK
  <2>3. call # NoCall
    BY <1>4, JsConstants DEF CallBack, NoCall
  <2>4. call' # NoCall /\ k \in Keys
    BY <1>4, <2>2, KeyTypes DEF NoCall, CallBack, TypeOK
  <2>5. taken[k] < arrived[k] + 1 /\ \A j \in Handlers : taken[j] <= arrived'[j]
    BY <1>4 DEF CallBack, TypeOK, CallInv
  <2> QED
    BY <2>1, <2>2, <2>3, <2>4, <2>5 DEF CallInv, TypeOK
<1>5. CASE Arrive(k)
  <2>1. UNCHANGED <<taken, thread, fulfilled, job, call>>
    BY <1>5 DEF Arrive, execVars, jsVars
  <2>2. \A j \in Handlers : taken[j] <= arrived'[j]
    BY <1>5 DEF Arrive, TypeOK, CallInv
  <2> QED
    BY <2>1, <2>2 DEF CallInv
<1> QED
  BY <1>1, <1>2, <1>3, <1>4, <1>5

LEMMA OtherCall ==
  ASSUME TypeOK, TurnInv, CallInv, Boot \/ Tramp \/ Answer \/ TimeOut
  PROVE  CallInv'
<1>1. CASE Boot
  BY <1>1, CallQuiet DEF Boot, BootModule, RegisterOnReady, SpawnMainLoop, queueVars, execVars, jsVars
<1>2. CASE Tramp
  <2>1. call = NoCall
    BY <1>2, Blocked DEF Tramp
  <2> QED
    BY <1>2, <2>1, CallQuiet DEF Tramp, queueVars
<1>3. CASE Answer \/ TimeOut
  BY <1>3 DEF Answer, TimeOut, Unblock, CallInv, NoCall, queueVars
<1> QED
  BY <1>1, <1>2, <1>3

-----------------------------------------------------------------------------
(* No waiting thread is forgotten                                          *)

LEMMA InitServed == Init => ServedInv
BY KeyTypes DEF Init, ServedInv, Looping

\* Steps that touch neither exec nor the jobs of handlers nor the ready signal
LEMMA ServedQuiet ==
  ASSUME ServedInv, UNCHANGED <<execVars, readyReceived, readyFlag>>, \A k \in Handlers : job'[k] = job[k],
         mutex \in Handlers \cup {None}, Looping' => onReady'
  PROVE  ServedInv'
BY KeyTypes DEF ServedInv, execVars

LEMMA SetupServed ==
  ASSUME TypeOK, ServedInv, SetupStep
  PROVE  ServedInv'
<1>1. UNCHANGED <<execVars, readyReceived, readyFlag, onReady>> /\ (Looping' => Looping)
  BY DEF SetupStep, SetupCmdHandler, SetVarSubscriptionHandler, SubscribeError, SubscribeAllErrors,
         Register, SignalReady, Finish, FailSetup, jsVars, bootVars, queueVars, Looping
<1>2. job' = job \/ \E to : job' = [job EXCEPT ![Setup] = to]
  BY DEF SetupStep, SetupCmdHandler, SetVarSubscriptionHandler, SubscribeError, SubscribeAllErrors,
         Register, SignalReady, Finish, FailSetup, jsVars
<1>3. \A k \in Handlers : job'[k] = job[k]
  BY <1>2, KeyTypes DEF TypeOK
<1> QED
  BY <1>1, <1>3, ServedQuiet DEF TypeOK, ServedInv

LEMMA TaskServed ==
  ASSUME TypeOK, TurnInv, ServedInv, NEW t \in Tasks, TaskStep(t) \/ Resume(t)
  PROVE  ServedInv'
<1>1. UNCHANGED <<thread, mutex, posted, readyReceived, readyFlag, onReady>> /\ (Looping' => Looping)
  BY DEF TaskStep, MqttSubscribe, Register, Await, CallCmd, RequestClearError, Block, Fulfil, FailHandler,
         Resume, execVars, jsVars, bootVars, queueVars, Looping
<1>2. /\ fulfilled => fulfilled'
      /\ job' = job \/ \E to \in {"running", "suspended", "failed", "fulfilled"} :
           job[t] # "none" /\ job' = [job EXCEPT ![t] = to] /\ (to = "fulfilled" => fulfilled')
  BY DEF TaskStep, MqttSubscribe, Register, Await, CallCmd, RequestClearError, Block, Fulfil, FailHandler,
         Resume, execVars, jsVars, Runs
<1>3. \A k \in Handlers : /\ job'[k] # "none" <=> job[k] # "none"
                          /\ job'[k] = "fulfilled" => job[k] = "fulfilled" \/ fulfilled'
  BY <1>2, KeyTypes DEF TypeOK
<1> QED
  BY <1>1, <1>2, <1>3, KeyTypes DEF ServedInv, TypeOK

LEMMA ThreadServed ==
  ASSUME TypeOK, TurnInv, ServedInv, NEW k \in Handlers,
         Take(k) \/ Enter(k) \/ Return(k) \/ CallBack(k) \/ Arrive(k)
  PROVE  ServedInv'
<1>0. UNCHANGED <<stage, onReady, readyFlag>>
  BY DEF Take, Enter, Post, Return, CallBack, Arrive, bootVars, jsVars
<1>1. CASE Take(k)
  <2>1. UNCHANGED <<mutex, posted, fulfilled, job>> /\ Looping
    BY <1>1 DEF Take, jsVars
  <2>2. readyReceived' /\ ~readyFlag' => thread'[Ready] # "idle" /\ job'[Ready] = "none"
    <3>1. CASE readyReceived
      BY <1>0, <1>1, <2>1, <3>1, KeyTypes DEF Take, ServedInv, TypeOK
    <3>2. CASE ~readyReceived /\ k = Ready
      <4>1. onReady /\ thread' = [thread EXCEPT ![Ready] = "waiting"] /\ thread[Ready] = "idle"
        BY <1>1, <2>1, <3>2 DEF Take, ServedInv
      <4>2. thread'[Ready] = "waiting"
        BY <4>1, KeyTypes DEF TypeOK
      <4>3. mutex # Ready
        BY <4>1, KeyTypes DEF TurnInv
      <4> QED
        BY <2>1, <4>2, <4>3, KeyTypes DEF TurnInv
    <3>3. CASE ~readyReceived /\ k # Ready
      BY <1>1, <3>3 DEF Take
    <3> QED
      BY <3>1, <3>2, <3>3
  <2> QED
    BY <1>0, <2>1, <2>2 DEF ServedInv, Looping
<1>2. CASE Enter(k)
  <2>1. mutex = None /\ posted = 0 /\ \A j \in Handlers : job[j] = "none"
    BY <1>2, KeyTypes DEF Enter, TurnInv
  <2>2. /\ mutex' = k /\ posted' = 1 /\ job' = job /\ readyReceived' = readyReceived
        /\ thread' = [thread EXCEPT ![k] = "posted"]
    BY <1>2, <2>1 DEF Enter, Post, jsVars, queueVars
  <2>3. thread[Ready] # "idle" => thread'[Ready] # "idle"
    BY <2>2, KeyTypes DEF TypeOK
  <2> QED
    BY <1>0, <2>1, <2>2, <2>3, KeyTypes DEF ServedInv, Looping
<1>3. CASE Return(k)
  <2>1. mutex = k /\ fulfilled /\ job[k] = "fulfilled" /\ mutex' = None
    BY <1>3, KeyTypes DEF Return, TurnInv
  <2>2. /\ fulfilled' = fulfilled /\ readyReceived' = readyReceived
        /\ thread' = [thread EXCEPT ![k] = "idle"] /\ job' = [job EXCEPT ![k] = "none"]
    BY <1>3 DEF Return, queueVars
  <2>3. readyReceived /\ ~readyFlag => k # Ready
    BY <2>1 DEF ServedInv
  <2>4. \A j \in Handlers : job'[j] = "fulfilled" => job[j] = "fulfilled"
    BY <2>2, KeyTypes DEF TypeOK
  <2>5. k # Ready => thread'[Ready] = thread[Ready] /\ job'[Ready] = job[Ready]
    BY <2>2, KeyTypes DEF TypeOK
  <2> QED
    BY <1>0, <2>1, <2>2, <2>3, <2>4, <2>5 DEF ServedInv, Looping
<1>4. CASE CallBack(k) \/ Arrive(k)
  BY <1>0, <1>4, ServedQuiet DEF CallBack, Arrive, jsVars, TypeOK, ServedInv, Looping
<1> QED
  BY <1>1, <1>2, <1>3, <1>4

LEMMA OtherServed ==
  ASSUME TypeOK, TurnInv, ServedInv, Boot \/ Tramp \/ Answer \/ TimeOut
  PROVE  ServedInv'
<1>1. CASE Boot \/ Answer \/ TimeOut
  <2>1. UNCHANGED <<execVars, readyReceived, readyFlag, job>>
    BY <1>1 DEF Boot, BootModule, RegisterOnReady, SpawnMainLoop, Answer, TimeOut, Unblock, jsVars, queueVars
  <2>2. Looping' => onReady'
    BY <1>1 DEF Boot, BootModule, RegisterOnReady, SpawnMainLoop, Answer, TimeOut, Unblock, bootVars,
                Looping, ServedInv
  <2> QED
    BY <2>1, <2>2, ServedQuiet DEF TypeOK
<1>2. CASE Tramp
  <2>1. posted = 1 /\ mutex \in Handlers /\ fields = mutex /\ ~fulfilled
    BY <1>2 DEF Tramp, TurnInv, TypeOK
  <2>2. /\ UNCHANGED <<thread, mutex, fulfilled, readyReceived, stage, onReady>>
        /\ job' = [job EXCEPT ![mutex] = "running"]
        /\ IF mutex = Ready THEN readyFlag' = TRUE ELSE readyFlag' = readyFlag
    BY <1>2, <2>1 DEF Tramp, queueVars, bootVars
  <2>3. job'[mutex] = "running" /\ \A j \in Handlers : j # mutex => job'[j] = job[j]
    BY <2>1, <2>2, KeyTypes DEF TypeOK
  <2> QED
    BY <2>1, <2>2, <2>3, KeyTypes DEF ServedInv, Looping
<1> QED
  BY <1>1, <1>2

-----------------------------------------------------------------------------
(* Theorems                                                                *)

LEMMA Unchanged ==
  ASSUME IInv, UNCHANGED vars
  PROVE  IInv'
BY DEF IInv, TypeOK, TurnInv, CallInv, ServedInv, Looping, vars, bootVars, queueVars, execVars, jsVars, bounds

LEMMA Inductive == IInv /\ [Next]_vars => IInv'
<1> SUFFICES ASSUME IInv, [Next]_vars
             PROVE  IInv'
  OBVIOUS
<1> USE DEF IInv
<1>1. CASE Boot \/ Tramp \/ Answer \/ TimeOut
  BY <1>1, OtherTypes, OtherTurn, OtherCall, OtherServed
<1>2. CASE SetupStep
  BY <1>2, SetupTypes, SetupTurn, SetupCall, SetupServed
<1>3. ASSUME NEW t \in Tasks, TaskStep(t) \/ Resume(t)
      PROVE  IInv'
  BY <1>3, TaskTypes, TaskTurn, TaskCall, TaskServed
<1>4. ASSUME NEW k \in Handlers, Take(k) \/ Enter(k) \/ Return(k) \/ CallBack(k) \/ Arrive(k)
      PROVE  IInv'
  BY <1>4, ThreadTypes, ThreadTurn, ThreadCall, ThreadServed
<1>5. CASE UNCHANGED vars
  BY <1>5, Unchanged
<1> QED
  BY <1>1, <1>2, <1>3, <1>4, <1>5 DEF Next, Progress

LEMMA Invariance == Spec => []IInv
<1>1. Init => IInv
  BY InitTypes, InitTurn, InitCall, InitServed DEF IInv
<1> QED
  BY <1>1, Inductive, PTL DEF Spec

\* Every variable keeps its type, for every number of messages, calls and awaits.
THEOREM TypeCorrect == Spec => []TypeOK
<1>1. IInv => TypeOK
  BY DEF IInv
<1> QED
  BY <1>1, Invariance, PTL

\* The functions and the promise in the shared JsExecCtx belong to the thread
\* that waits for them, whatever the handlers await and however they end.
THEOREM HandlersTakeTurns == Spec => []OwnHandler
<1>1. IInv => OwnHandler
  <2> SUFFICES ASSUME IInv PROVE OwnHandler
    OBVIOUS
  <2>1. \A k \in Handlers : job[k] # "none" => mutex = k
    BY DEF IInv, TurnInv
  <2>2. \A k \in Handlers : thread[k] = "posted" => fields = k
    BY KeyTypes DEF IInv, TurnInv
  <2> QED
    BY <2>1, <2>2 DEF IInv, TurnInv, OwnHandler, Active
<1> QED
  BY <1>1, Invariance, PTL

\* A call whose provider needs an answer of this module first is never answered.
THEOREM CallBacksTimeOut == Spec => []CallBacksOnlyTimeOut
<1>1. IInv => CallBacksOnlyTimeOut
  <2> SUFFICES ASSUME IInv, call.back # None
               PROVE  Replied(call.back) < call.due
    BY DEF CallBacksOnlyTimeOut
  <2>1. call.back \in Handlers /\ call.due \in Nat /\ taken[call.back] \in Nat
    BY KeyTypes DEF IInv, TypeOK, CallInv
  <2>2. /\ taken[call.back] <= call.due
        /\ taken[call.back] = call.due => thread[call.back] # "idle"
    BY DEF IInv, CallInv
  <2> QED
    BY <2>1, <2>2 DEF Replied
<1> QED
  BY <1>1, Invariance, PTL

\* A thread that waits for exec_mutex or for its handler is brought on by some
\* step, unless a handler that failed or awaits another one holds the mutex.
THEOREM NoThreadIsForgotten == Spec => []WaitersAreServed
<1>1. IInv => WaitersAreServed
  <2> SUFFICES ASSUME IInv, Looping, ~Jammed
               PROVE  /\ \/ mutex = None \/ posted > 0
                         \/ \E t \in Tasks : job[t] = "running" \/ (job[t] = "suspended" /\ awaits[t] = Now)
                         \/ thread[mutex] = "posted" /\ fulfilled
                      /\ readyReceived /\ ~readyFlag => thread[Ready] # "idle" /\ job[Ready] = "none"
    BY DEF WaitersAreServed
  <2>1. CASE mutex # None /\ posted # 1
    <3>1. mutex \in Handlers /\ mutex \in Tasks /\ thread[mutex] = "posted" /\ job[mutex] # "none"
      BY <2>1, KeyTypes DEF IInv, TypeOK, TurnInv, ServedInv
    <3>2. job[mutex] \in {"running", "suspended", "fulfilled", "failed"}
      BY <3>1 DEF IInv, TypeOK
    <3>3. job[mutex] # "failed" /\ (job[mutex] = "suspended" => awaits[mutex] = Now)
      BY <3>1 DEF Jammed
    <3>4. job[mutex] = "fulfilled" => fulfilled
      BY <3>1 DEF IInv, ServedInv
    <3> QED
      BY <3>1, <3>2, <3>3, <3>4 DEF IInv, ServedInv
  <2>2. CASE mutex = None \/ posted = 1
    BY <2>2 DEF IInv, ServedInv
  <2> QED
    BY <2>1, <2>2
<1> QED
  BY <1>1, Invariance, PTL
=============================================================================
