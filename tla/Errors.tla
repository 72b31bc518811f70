------------------------------- MODULE Errors -------------------------------
(***************************************************************************)
(* Errors that modules raise and have cleared: Everest::raise_error and    *)
(* request_clear_error at the module, the ErrorCommBridge, ErrorManager    *)
(* and ErrorDatabaseMap of the manager, and a module that subscribes to    *)
(* errors and their clearing.                                              *)
(*                                                                         *)
(* Every topic has its MessageHandler thread: in the manager one for each  *)
(* error topic and one for the requests, in the subscriber one for each    *)
(* error topic and one for each topic of cleared errors.  Connections keep *)
(* the order of packets (MqttAbstraction), threads do not.                 *)
(*                                                                         *)
(* The broker keeps nothing: what reaches it before the SUBSCRIBE of a     *)
(* receiver is lost to that receiver.                                      *)
(***************************************************************************)
EXTENDS Naturals, FiniteSets, SequencesExt

CONSTANTS
  Uuids,     \* handles of errors, each raised at most once
  TypeOf,    \* the error type of an error
  From,      \* the implementation that raises it
  ModuleOf,  \* the module of an implementation
  Requests,  \* executions of request_clear_error, each at most once
  Request,   \* their arguments: mode, implementation, error and type
  Earlier,   \* for each subscription those that its connection asks for before
  MaxStarts, \* bound: executions of start_modules
  None

Impls   == DOMAIN ModuleOf
Modules == {ModuleOf[i] : i \in Impls}
Topic(e) == <<From[e], TypeOf[e]>>
Topics   == {Topic(e) : e \in Uuids}

\* The manager receives errors and requests, the subscriber errors and clearings.
AllRequests   == <<"requests", None>>
Subscriptions == DOMAIN Earlier

ASSUME ErrorConstants ==
  /\ From \in [Uuids -> Impls] /\ DOMAIN TypeOf = Uuids
  /\ \A r \in Requests :
       /\ Request[r].impl \in Impls
       /\ Request[r].mode \in {"ClearUUID", "ClearAllOfTypeOfModule", "ClearAllOfModule"}
       /\ Request[r].mode = "ClearUUID" => Request[r].uuid \in Uuids
  /\ Subscriptions \subseteq ({"manager", "errors", "cleared"} \X Topics) \cup {AllRequests}
  /\ Earlier \in [Subscriptions -> SUBSET Subscriptions]
  /\ MaxStarts \in Nat \ {0}
  /\ None \notin Uuids

VARIABLES
  raised,       \* errors raise_error has returned for
  request,      \* the state of request_clear_error
  out,          \* packets on the connection of each module, in order
  starts,       \* executions of start_modules; each adds handlers for all error topics
  subscribed,   \* the subscriptions at the broker: a receiver and a topic
  errorQueue,   \* errors queued at the manager, for each error topic
  adding,       \* the error each of these threads hands to its copy of the handlers
  handlersLeft, \* and how many of them it has still to call
  requestQueue, \* clear requests queued at the manager
  database,     \* ErrorDatabaseMap::errors
  outManager,   \* packets on the manager's connection, in order
  errorsIn,     \* error messages queued at the subscriber, for each topic
  clearedIn,    \* messages of cleared errors queued at the subscriber
  seen,         \* errors the subscriber's error callback has been called with
  seenCleared,  \* errors its error-cleared callback has been called with
  terminated,   \* an exception has left a thread of the manager
  lost          \* history: receivers and what reached the broker before they subscribed

moduleVars == <<raised, request, out>>
brokerVars == <<subscribed, lost>>
bridgeVars == <<starts, errorQueue, adding, handlersLeft, requestQueue, database, terminated>>
subscriber == <<errorsIn, clearedIn, seen, seenCleared>>
vars == <<moduleVars, brokerVars, bridgeVars, outManager, subscriber>>

Error(e)         == [kind |-> "error", id |-> e]
ClearRequest(r)  == [kind |-> "request", id |-> r]
Cleared(e)       == [kind |-> "cleared", id |-> e]
Result(r, found) == [kind |-> "result", id |-> r, success |-> found]

ModulePackets  == [kind : {"error"}, id : Uuids] \cup [kind : {"request"}, id : Requests]
ManagerPackets == [kind : {"cleared"}, id : Uuids]
                    \cup [kind : {"result"}, id : Requests, success : BOOLEAN]

Losses == ({"manager", "errors", "cleared"} \X Uuids) \cup ({"requests"} \X Requests)

TypeOK ==
  /\ raised \subseteq Uuids
  /\ request \in [Requests -> {"idle", "waiting", "success", "failure"}]
  /\ out \in [Modules -> Seq(ModulePackets)]
  /\ starts \in 0..MaxStarts
  /\ errorQueue \in [Topics -> Seq(Uuids)]
  /\ adding \in [Topics -> Uuids \cup {None}]
  /\ handlersLeft \in [Topics -> 0..MaxStarts]
  /\ \A t \in Topics : adding[t] = None <=> handlersLeft[t] = 0
  /\ requestQueue \in Seq(Requests)
  /\ database \subseteq raised
  /\ outManager \in Seq(ManagerPackets)
  /\ errorsIn \in [Topics -> Seq(Uuids)] /\ clearedIn \in [Topics -> Seq(Uuids)]
  /\ seen \subseteq Uuids /\ seenCleared \subseteq Uuids
  /\ terminated \in BOOLEAN
  /\ subscribed \subseteq Subscriptions /\ lost \subseteq Losses

Init ==
  /\ raised = {} /\ request = [r \in Requests |-> "idle"]
  /\ out = [m \in Modules |-> <<>>]
  /\ starts = 0 /\ subscribed = {} /\ lost = {}
  /\ errorQueue = [t \in Topics |-> <<>>]
  /\ adding = [t \in Topics |-> None] /\ handlersLeft = [t \in Topics |-> 0]
  /\ requestQueue = <<>> /\ database = {} /\ outManager = <<>>
  /\ errorsIn = [t \in Topics |-> <<>>] /\ clearedIn = [t \in Topics |-> <<>>]
  /\ seen = {} /\ seenCleared = {}
  /\ terminated = FALSE

-----------------------------------------------------------------------------
(* The modules that raise errors                                           *)

Send(i, packet) == out' = [out EXCEPT ![ModuleOf[i]] = Append(@, packet)]

\* raise_error: publish on the error topic, return the handle.
Raise(e) ==
  /\ e \notin raised
  /\ raised' = raised \cup {e}
  /\ Send(From[e], Error(e))
  /\ UNCHANGED <<request, brokerVars, bridgeVars, outManager, subscriber>>

\* request_clear_error, its arguments in order: publish the request and wait for
\* its result.  A handle is known once raise_error has returned it.
RequestClear(r) ==
  /\ request[r] = "idle"
  /\ Request[r].mode = "ClearUUID" => Request[r].uuid \in raised
  /\ request' = [request EXCEPT ![r] = "waiting"]
  /\ Send(Request[r].impl, ClearRequest(r))
  /\ UNCHANGED <<raised, brokerVars, bridgeVars, outManager, subscriber>>

-----------------------------------------------------------------------------
(* The broker                                                              *)

\* A SUBSCRIBE arrives, after those its connection has sent before.  The manager
\* registers its handler of requests when it constructs the ErrorCommBridge and
\* those of errors in start_modules; the subscriber calls subscribe_error and
\* subscribe_error_cleared, or those for all errors, whenever its init likes to.
Subscribe(s) ==
  /\ s \notin subscribed /\ Earlier[s] \subseteq subscribed
  /\ s[1] = "manager" => starts > 0
  /\ subscribed' = subscribed \cup {s}
  /\ UNCHANGED <<moduleVars, lost, bridgeVars, outManager, subscriber>>

\* a packet for a receiver's topic: queued if it has subscribed
Queue(queues, receiver, t, id) ==
  IF <<receiver, t>> \in subscribed THEN [queues EXCEPT ![t] = Append(@, id)] ELSE queues
Loss(receiver, t, id) == IF <<receiver, t>> \in subscribed THEN {} ELSE {<<receiver, id>>}

\* The broker passes the next packet of a module on: errors to the manager and
\* the subscriber, requests to the manager.
BrokerFromModule(m) ==
  /\ out[m] # <<>>
  /\ out' = [out EXCEPT ![m] = Tail(@)]
  /\ LET p == Head(out[m]) IN
       \/ /\ p.kind = "error"
          /\ errorQueue' = Queue(errorQueue, "manager", Topic(p.id), p.id)
          /\ errorsIn' = Queue(errorsIn, "errors", Topic(p.id), p.id)
          /\ lost' = lost \cup Loss("manager", Topic(p.id), p.id) \cup Loss("errors", Topic(p.id), p.id)
          /\ UNCHANGED requestQueue
       \/ /\ p.kind = "request"
          /\ requestQueue' = IF AllRequests \in subscribed THEN Append(requestQueue, p.id)
                             ELSE requestQueue
          /\ lost' = lost \cup Loss("requests", None, p.id)
          /\ UNCHANGED <<errorQueue, errorsIn>>
  /\ UNCHANGED <<raised, request, subscribed, starts, adding, handlersLeft, database, terminated,
                 outManager, clearedIn, seen, seenCleared>>

-----------------------------------------------------------------------------
(* The error communication bridge of the manager                           *)

\* Mutant of HandlersOf: the topic is added for every type it is declared in.
HandlersTwice(t) == starts + 1

\* add_error_topic is called for every topic by every start_modules, and its
\* handlers are never unregistered.
HandlersOf(t) == starts

\* The start of the modules, and every restart
StartModules ==
  /\ ~terminated /\ starts < MaxStarts
  /\ starts' = starts + 1
  /\ UNCHANGED <<moduleVars, brokerVars, errorQueue, adding, handlersLeft, requestQueue, database,
                 terminated, outManager, subscriber>>

\* The thread of an error topic pops an error and copies the handler list.
TakeError(t) ==
  /\ ~terminated /\ adding[t] = None /\ errorQueue[t] # <<>>
  /\ adding' = [adding EXCEPT ![t] = Head(errorQueue[t])]
  /\ handlersLeft' = [handlersLeft EXCEPT ![t] = HandlersOf(t)]
  /\ errorQueue' = [errorQueue EXCEPT ![t] = Tail(@)]
  /\ UNCHANGED <<moduleVars, brokerVars, starts, requestQueue, database, terminated, outManager, subscriber>>

\* add_error throws if the handle exists, out of the handler thread.
AddError(e) ==
  \/ /\ e \notin database
     /\ database' = database \cup {e}
     /\ UNCHANGED terminated
  \/ /\ e \in database
     /\ terminated' = TRUE
     /\ UNCHANGED database

\* handle_error, one of the handlers
HandleError(t) ==
  /\ ~terminated /\ adding[t] # None
  /\ AddError(adding[t])
  /\ handlersLeft' = [handlersLeft EXCEPT ![t] = @ - 1]
  /\ adding' = [adding EXCEPT ![t] = IF handlersLeft[t] = 1 THEN None ELSE @]
  /\ UNCHANGED <<moduleVars, brokerVars, starts, errorQueue, requestQueue, outManager, subscriber>>

\* what the mode and its argument select
Selects(r, e) ==
  CASE Request[r].mode = "ClearUUID"              -> e = Request[r].uuid
    [] Request[r].mode = "ClearAllOfTypeOfModule" -> TypeOf[e] = Request[r].type
    [] Request[r].mode = "ClearAllOfModule"       -> TRUE

\* Mutant of ClearedBy: without the OriginFilter.
ClearedFromAnyOrigin(r) == {e \in database : Selects(r, e)}

\* ErrorManager::clear_errors: the errors of that origin that the mode selects
ClearedBy(r) == {e \in database : From[e] = Request[r].impl /\ Selects(r, e)}

\* Mutant of Answer: the result goes out before the cleared errors.
AnswerFirst(r, errors) ==
  <<Result(r, errors # {})>> \o [i \in 1..Cardinality(errors) |-> Cleared(SetToSeq(errors)[i])]

\* one message for each cleared error, then the result
Answer(r, errors) ==
  [i \in 1..Cardinality(errors) |-> Cleared(SetToSeq(errors)[i])] \o <<Result(r, errors # {})>>

\* Mutant of HandleRequest: a request that matches no error is not answered.
HandleRequestIfAny ==
  /\ ~terminated /\ requestQueue # <<>>
  /\ LET r == Head(requestQueue) IN
       /\ database' = database \ ClearedBy(r)
       /\ outManager' = IF ClearedBy(r) = {} THEN outManager
                        ELSE outManager \o Answer(r, ClearedBy(r))
  /\ requestQueue' = Tail(requestQueue)
  /\ UNCHANGED <<moduleVars, brokerVars, starts, errorQueue, adding, handlersLeft, terminated, subscriber>>

\* Mutant of HandleRequest: the errors are reported and stay in the database.
HandleRequestKeeps ==
  /\ ~terminated /\ requestQueue # <<>>
  /\ LET r == Head(requestQueue) IN outManager' = outManager \o Answer(r, ClearedBy(r))
  /\ requestQueue' = Tail(requestQueue)
  /\ UNCHANGED <<moduleVars, brokerVars, starts, errorQueue, adding, handlersLeft, terminated, database,
                 subscriber>>

\* handle_request_clear_error, on the thread of the request topic.
HandleRequest ==
  /\ ~terminated /\ requestQueue # <<>>
  /\ LET r == Head(requestQueue) IN
       /\ database' = database \ ClearedBy(r)
       /\ outManager' = outManager \o Answer(r, ClearedBy(r))
  /\ requestQueue' = Tail(requestQueue)
  /\ UNCHANGED <<moduleVars, brokerVars, starts, errorQueue, adding, handlersLeft, terminated, subscriber>>

\* The broker passes the manager's next packet on.  How a result gets from
\* there to its request_clear_error is what CmdCall is about.
BrokerFromManager ==
  /\ outManager # <<>>
  /\ outManager' = Tail(outManager)
  /\ LET p == Head(outManager) IN
       \/ /\ p.kind = "cleared"
          /\ clearedIn' = Queue(clearedIn, "cleared", Topic(p.id), p.id)
          /\ lost' = lost \cup Loss("cleared", Topic(p.id), p.id)
          /\ UNCHANGED request
       \/ /\ p.kind = "result"
          /\ request' = [request EXCEPT ![p.id] = IF p.success THEN "success" ELSE "failure"]
          /\ UNCHANGED <<clearedIn, lost>>
  /\ UNCHANGED <<raised, out, subscribed, bridgeVars, errorsIn, seen, seenCleared>>

-----------------------------------------------------------------------------
(* The subscriber                                                          *)

\* the callback of subscribe_error or subscribe_all_errors
RunErrorCallback(t) ==
  /\ errorsIn[t] # <<>>
  /\ seen' = seen \cup {Head(errorsIn[t])}
  /\ errorsIn' = [errorsIn EXCEPT ![t] = Tail(@)]
  /\ UNCHANGED <<moduleVars, brokerVars, bridgeVars, outManager, clearedIn, seenCleared>>

\* the callback of subscribe_error_cleared or subscribe_all_errors_cleared
RunClearedCallback(t) ==
  /\ clearedIn[t] # <<>>
  /\ seenCleared' = seenCleared \cup {Head(clearedIn[t])}
  /\ clearedIn' = [clearedIn EXCEPT ![t] = Tail(@)]
  /\ UNCHANGED <<moduleVars, brokerVars, bridgeVars, outManager, errorsIn, seen>>

-----------------------------------------------------------------------------
Next ==
  \/ \E e \in Uuids : Raise(e)
  \/ \E r \in Requests : RequestClear(r)
  \/ \E m \in Modules : BrokerFromModule(m)
  \/ \E s \in Subscriptions : Subscribe(s)
  \/ StartModules \/ HandleRequest \/ BrokerFromManager
  \/ \E t \in Topics :
       TakeError(t) \/ HandleError(t) \/ RunErrorCallback(t) \/ RunClearedCallback(t)

Spec == Init /\ [][Next]_vars

\* Packets arrive and handler threads run.
Fairness ==
  /\ \A m \in Modules : WF_vars(BrokerFromModule(m))
  /\ WF_vars(HandleRequest) /\ WF_vars(BrokerFromManager)
  /\ \A t \in Topics : WF_vars(TakeError(t)) /\ WF_vars(HandleError(t))

FairSpec == Spec /\ Fairness

-----------------------------------------------------------------------------
(* Properties                                                              *)

\* no message is on its way and no handler is running
Quiet ==
  /\ \A m \in Modules : out[m] = <<>>
  /\ \A t \in Topics : /\ errorQueue[t] = <<>> /\ adding[t] = None
                       /\ errorsIn[t] = <<>> /\ clearedIn[t] = <<>>
  /\ requestQueue = <<>> /\ outManager = <<>>

\* errors that the manager has reported as cleared, to whoever has subscribed
Reported ==
  {e \in Uuids : \/ Cleared(e) \in ToSet(outManager)
                 \/ e \in ToSet(clearedIn[Topic(e)])
                 \/ e \in seenCleared
                 \/ <<"cleared", e>> \in lost}

Received(receiver) == {e \in raised : <<receiver, e>> \notin lost}

\* When everything has settled, the manager's database and the subscriber's
\* callbacks agree with what was raised and cleared, although errors, requests
\* and clearings travel on different topics.  Missing are exactly the errors
\* that reached the broker before the subscription of the one who misses them.
NothingElseLost ==
  Quiet /\ ~terminated /\ starts <= 1 =>
    /\ seen = Received("errors")
    /\ database = (Received("manager") \cap Received("cleared")) \ seenCleared

\* An error that was reported as cleared never becomes active again: until a
\* restart of the modules, when a second handler may add it once more.
ClearedStaysCleared ==
  starts <= 1 => database \cap Reported = {}

\* Only the modules' errors that a request has named are cleared, and only by
\* the implementation that raised them.
ClearedOnlyOnRequest ==
  \A e \in Reported : \E r \in Requests :
    request[r] # "idle" /\ Request[r].impl = From[e] /\ Selects(r, e)

\* The result of a successful request reaches the module after the broker has
\* passed on the clearing of the error it names to the subscriber, if there is one.
SuccessMeansCleared ==
  \A r \in Requests :
    request[r] = "success" /\ Request[r].mode = "ClearUUID" =>
      LET e == Request[r].uuid IN
        e \in ToSet(clearedIn[Topic(e)]) \/ e \in seenCleared \/ <<"cleared", e>> \in lost

\* add_error finds a handle twice only after the modules were restarted, when
\* every error topic has two handlers.
TerminatesOnlyAfterRestart == terminated => starts > 1

Occurrences(x, s) == Cardinality({i \in 1..Len(s) : s[i] = x})

\* Until its result is there, a clear request is in exactly one place: on its
\* module's connection, in the manager's queue, or its result on the manager's
\* connection.  It is neither lost between two threads nor answered twice; only
\* a request ahead of the bridge's own subscription is lost at the broker.
RequestsInOnePlace ==
  \A r \in Requests :
    Occurrences(ClearRequest(r), out[ModuleOf[Request[r].impl]]) + Occurrences(r, requestQueue)
      + Occurrences(Result(r, TRUE), outManager) + Occurrences(Result(r, FALSE), outManager)
      + Cardinality({l \in lost : l = <<"requests", r>>})
      = IF request[r] = "waiting" THEN 1 ELSE 0

\* Every request that the bridge has subscribed for is answered while the manager
\* lives, also one that comes too early or too late and matches nothing.
RequestsAnswered ==
  \A r \in Requests :
    request[r] = "waiting" ~> request[r] # "waiting" \/ terminated \/ <<"requests", r>> \in lost

=============================================================================
