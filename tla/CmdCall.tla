------------------------------ MODULE CmdCall ------------------------------
(***************************************************************************)
(* Commands between modules: Everest::call_cmd at the caller and the       *)
(* wrapper of Everest::provide_cmd at the provider, over the command topic *)
(* of the implementation, on which calls and results travel both.          *)
(*                                                                         *)
(* Every process has one MessageHandler thread per topic.  The provider's  *)
(* handler runs on that thread, and a handler that calls other commands    *)
(* blocks it until they return or time out.  The result handler of a call  *)
(* refers to a promise in the stack frame of call_cmd.                     *)
(*                                                                         *)
(* MqttAbstraction justifies the transport used here: packets of a process *)
(* reach the broker in order, the SUBSCRIBE of a result handler before the *)
(* call it belongs to, and the broker's messages reach the queue of their  *)
(* topic in order and once.                                                *)
(***************************************************************************)
EXTENDS Naturals, Sequences, FiniteSets

CONSTANTS
  Processes,      \* module processes
  Topics,         \* command topics, one per implementation
  Calls,          \* executions of call_cmd, each at most once
  ProviderOf,     \* the process that provides the commands of a topic
  CallerOf,       \* the calling process
  TopicOf,        \* the topic of the called command
  ParentOf,       \* the call whose handler makes this call, or None
  Validates,      \* processes that run with validate_data_with_schema
  InvalidArgs,    \* calls whose arguments do not match the manifest
  InvalidResult,  \* calls whose handler returns what the manifest forbids
  TimeoutsHappen, \* whether remote_cmd_res_timeout may expire
  None

ASSUME ConstantsTyped ==
  /\ ProviderOf \in [Topics -> Processes]
  /\ CallerOf \in [Calls -> Processes]
  /\ TopicOf \in [Calls -> Topics]
  /\ ParentOf \in [Calls -> Calls \cup {None}]
  /\ Validates \subseteq Processes
  /\ InvalidArgs \subseteq Calls /\ InvalidResult \subseteq Calls
  /\ TimeoutsHappen \in BOOLEAN
  /\ None \notin Calls

\* A nested call is made by the process that provides its parent's command.
ASSUME NestedCallsAreLocal ==
  \A c \in Calls : ParentOf[c] # None => CallerOf[c] = ProviderOf[TopicOf[ParentOf[c]]]

VARIABLES
  provided,    \* topics whose provider has registered its command handlers
  frame,       \* the stack frame of call_cmd, with its promise
  registered,  \* calls whose result handler is in the caller's handler list
  execution,   \* what the provider's wrapper has done with a call
  out,         \* messages a process has published, in order
  queue,       \* message queue of each process and topic
  busy,        \* message its thread is dispatching, with a handler for it
  crashed      \* processes that have terminated

vars == <<provided, frame, registered, execution, out, queue, busy, crashed>>

Message == [type : {"call", "result"}, id : Calls]
Call(c)   == [type |-> "call", id |-> c]
Result(c) == [type |-> "result", id |-> c]

ASSUME NoneIsNoMessage == None \notin Message

Provider(c) == ProviderOf[TopicOf[c]]
Up(p) == p \notin crashed

\* result handlers of a process on a topic
ResultHandlers(p, t) == {c \in registered : CallerOf[c] = p /\ TopicOf[c] = t}

\* the broker sends the topic to the processes that have handlers for it
Subscribed(p, t) ==
  /\ Up(p)
  /\ (t \in provided /\ ProviderOf[t] = p) \/ ResultHandlers(p, t) # {}

\* A call waits on the thread it was made on.
Waiting(c) == frame[c] \in {"waiting", "ready"}
Blocked(c) == \E d \in Calls : ParentOf[d] = c /\ Waiting(d)

TypeOK ==
  /\ provided \subseteq Topics
  /\ frame \in [Calls -> {"idle", "rejected", "waiting", "ready", "returned", "timed_out"}]
  /\ registered \subseteq Calls
  /\ execution \in [Calls -> {"none", "running", "ignored", "refused", "replied"}]
  /\ out \in [Processes -> Seq(Message)]
  /\ queue \in [Processes -> [Topics -> Seq(Message)]]
  /\ busy \in [Processes -> [Topics -> Message \cup {None}]]
  /\ crashed \subseteq Processes

Init ==
  /\ provided = {} /\ registered = {} /\ crashed = {}
  /\ frame = [c \in Calls |-> "idle"]
  /\ execution = [c \in Calls |-> "none"]
  /\ out = [p \in Processes |-> <<>>]
  /\ queue = [p \in Processes |-> [t \in Topics |-> <<>>]]
  /\ busy = [p \in Processes |-> [t \in Topics |-> None]]

-----------------------------------------------------------------------------
(* call_cmd, up to its wait                                                *)

\* provide_cmd, while the module initialises
Provide(t) ==
  /\ t \notin provided /\ Up(ProviderOf[t])
  /\ provided' = provided \cup {t}
  /\ UNCHANGED <<frame, registered, execution, out, queue, busy, crashed>>

\* A call is made from a thread of the module, or by the handler of its parent
\* between two of its own calls.
MayCall(c) ==
  /\ frame[c] = "idle" /\ Up(CallerOf[c])
  /\ ParentOf[c] # None => execution[ParentOf[c]] = "running" /\ ~Blocked(ParentOf[c])

\* An exception of call_cmd that the module does not catch leaves a thread of
\* the framework and terminates the process.
Thrown(c) == crashed' = crashed \/ crashed' = crashed \cup {CallerOf[c]}

\* The arguments do not match the manifest: EverestApiError.
RejectCall(c) ==
  /\ MayCall(c)
  /\ c \in InvalidArgs /\ CallerOf[c] \in Validates
  /\ frame' = [frame EXCEPT ![c] = "rejected"]
  /\ Thrown(c)
  /\ UNCHANGED <<provided, registered, execution, out, queue, busy>>

\* register_handler, publish, and the wait begins.
BeginCall(c) ==
  /\ MayCall(c)
  /\ c \in InvalidArgs => CallerOf[c] \notin Validates
  /\ frame' = [frame EXCEPT ![c] = "waiting"]
  /\ registered' = registered \cup {c}
  /\ out' = [out EXCEPT ![CallerOf[c]] = Append(@, Call(c))]
  /\ UNCHANGED <<provided, execution, queue, busy, crashed>>

-----------------------------------------------------------------------------
(* The broker and the MessageHandler threads                               *)

\* The broker passes the oldest message of p on to everyone subscribed now.
Transmit(p) ==
  /\ out[p] # <<>> /\ Up(p)
  /\ LET m == Head(out[p]) IN
     LET t == TopicOf[m.id] IN
       queue' = [q \in Processes |->
                  IF Subscribed(q, t) THEN [queue[q] EXCEPT ![t] = Append(@, m)] ELSE queue[q]]
  /\ out' = [out EXCEPT ![p] = Tail(@)]
  /\ UNCHANGED <<provided, frame, registered, execution, busy, crashed>>

\* The thread finds a handler for m in its copy of the handler list: the Call
\* handler of the provider, or the Result handler with the same id.
Handles(p, t, m) ==
  \/ m.type = "call" /\ t \in provided /\ ProviderOf[t] = p
  \/ m.type = "result" /\ m.id \in ResultHandlers(p, t)

\* A message is popped, the handler list is copied and filtered.
Take(p, t) ==
  /\ Up(p) /\ busy[p][t] = None /\ queue[p][t] # <<>>
  /\ LET m == Head(queue[p][t]) IN
       busy' = [busy EXCEPT ![p][t] = IF Handles(p, t, m) THEN m ELSE None]
  /\ queue' = [queue EXCEPT ![p][t] = Tail(@)]
  /\ UNCHANGED <<provided, frame, registered, execution, out, crashed>>

-----------------------------------------------------------------------------
(* The wrapper of provide_cmd, on the thread of the provider's topic       *)

\* Arguments that do not match the manifest are ignored: there is no reply.
IgnoreCall(c) ==
  /\ Up(Provider(c)) /\ busy[Provider(c)][TopicOf[c]] = Call(c) /\ execution[c] # "running"
  /\ c \in InvalidArgs /\ Provider(c) \in Validates
  /\ execution' = [execution EXCEPT ![c] = "ignored"]
  /\ busy' = [busy EXCEPT ![Provider(c)][TopicOf[c]] = None]
  /\ UNCHANGED <<provided, frame, registered, out, queue, crashed>>

\* Mutant of ExecuteCall: a reply is published before the handler has run.
ReplyFirst(c) ==
  /\ Up(Provider(c)) /\ busy[Provider(c)][TopicOf[c]] = Call(c) /\ execution[c] # "running"
  /\ c \in InvalidArgs => Provider(c) \notin Validates
  /\ execution' = [execution EXCEPT ![c] = "running"]
  /\ out' = [out EXCEPT ![Provider(c)] = Append(@, Result(c))]
  /\ UNCHANGED <<provided, frame, registered, queue, busy, crashed>>

\* The command handler starts.
ExecuteCall(c) ==
  /\ Up(Provider(c)) /\ busy[Provider(c)][TopicOf[c]] = Call(c) /\ execution[c] # "running"
  /\ c \in InvalidArgs => Provider(c) \notin Validates
  /\ execution' = [execution EXCEPT ![c] = "running"]
  /\ UNCHANGED <<provided, frame, registered, out, queue, busy, crashed>>

Refused(c) == c \in InvalidResult /\ Provider(c) \in Validates

\* The handler returns: an invalid result is dropped, a valid one published.
FinishCall(c) ==
  /\ Up(Provider(c)) /\ execution[c] = "running" /\ ~Blocked(c)
  /\ execution' = [execution EXCEPT ![c] = IF Refused(c) THEN "refused" ELSE "replied"]
  /\ out' = IF Refused(c) THEN out ELSE [out EXCEPT ![Provider(c)] = Append(@, Result(c))]
  /\ busy' = [busy EXCEPT ![Provider(c)][TopicOf[c]] = None]
  /\ UNCHANGED <<provided, frame, registered, queue, crashed>>

\* The handler throws: nothing above it on its topic's thread catches that.
HandlerThrows(c) ==
  /\ Up(Provider(c)) /\ execution[c] = "running" /\ ~Blocked(c)
  /\ crashed' = crashed \cup {Provider(c)}
  /\ UNCHANGED <<provided, frame, registered, execution, out, queue, busy>>

-----------------------------------------------------------------------------
(* The result handler and the end of call_cmd                              *)

\* The result handler sets the promise, if it is still there to be set.  A
\* second value throws out of the thread.  Once call_cmd has left its frame the
\* reference dangles: the process may crash or seem to go on.
RunResult(c) ==
  LET p == CallerOf[c] IN
  /\ Up(p) /\ busy[p][TopicOf[c]] = Result(c)
  /\ busy' = [busy EXCEPT ![p][TopicOf[c]] = None]
  /\ \/ /\ frame[c] = "waiting"
        /\ frame' = [frame EXCEPT ![c] = "ready"]
        /\ UNCHANGED crashed
     \/ /\ frame[c] = "ready"
        /\ crashed' = crashed \cup {p}
        /\ UNCHANGED frame
     \/ /\ frame[c] \in {"returned", "timed_out"}
        /\ crashed' \in {crashed, crashed \cup {p}}
        /\ UNCHANGED frame
  /\ UNCHANGED <<provided, registered, execution, out, queue>>

\* Mutant of ReturnCall: the result handler stays registered.
ReturnKeepsHandler(c) ==
  /\ frame[c] = "ready" /\ Up(CallerOf[c])
  /\ frame' = [frame EXCEPT ![c] = "returned"]
  /\ UNCHANGED <<provided, registered, execution, out, queue, busy, crashed>>

\* Mutant of ReturnCall: unregisters every result handler of the topic.
ReturnUnregistersTopic(c) ==
  /\ frame[c] = "ready" /\ Up(CallerOf[c])
  /\ frame' = [frame EXCEPT ![c] = "returned"]
  /\ registered' = registered \ ResultHandlers(CallerOf[c], TopicOf[c])
  /\ UNCHANGED <<provided, execution, out, queue, busy, crashed>>

\* wait_until reports ready: take the result, unregister, return.
ReturnCall(c) ==
  /\ frame[c] = "ready" /\ Up(CallerOf[c])
  /\ frame' = [frame EXCEPT ![c] = "returned"]
  /\ registered' = registered \ {c}
  /\ UNCHANGED <<provided, execution, out, queue, busy, crashed>>

\* wait_until reports timeout: EverestTimeoutError, and the result handler
\* stays registered.
TimeoutCall(c) ==
  /\ TimeoutsHappen
  /\ frame[c] = "waiting" /\ Up(CallerOf[c])
  /\ frame' = [frame EXCEPT ![c] = "timed_out"]
  /\ Thrown(c)
  /\ UNCHANGED <<provided, registered, execution, out, queue, busy>>

-----------------------------------------------------------------------------
CallStep(c) ==
  \/ RejectCall(c) \/ BeginCall(c)
  \/ IgnoreCall(c) \/ ExecuteCall(c) \/ FinishCall(c) \/ HandlerThrows(c)
  \/ RunResult(c) \/ ReturnCall(c) \/ TimeoutCall(c)

Next ==
  \/ \E t \in Topics : Provide(t)
  \/ \E c \in Calls : CallStep(c)
  \/ \E p \in Processes : Transmit(p)
  \/ \E p \in Processes, t \in Topics : Take(p, t)

Spec == Init /\ [][Next]_vars

\* Every thread runs: the broker transmits, handler threads take and finish
\* their messages (command handlers terminate), and waits end.
Fairness ==
  /\ \A p \in Processes : WF_vars(Transmit(p))
  /\ \A p \in Processes, t \in Topics : WF_vars(Take(p, t))
  /\ \A c \in Calls : WF_vars(IgnoreCall(c) \/ ExecuteCall(c) \/ FinishCall(c))
  /\ \A c \in Calls : WF_vars(RunResult(c)) /\ WF_vars(ReturnCall(c))

FairSpec == Spec /\ Fairness

-----------------------------------------------------------------------------
(* Properties                                                              *)

\* The state of a call as RemoteCall sees it.
ClientOf(c) ==
  CASE frame[c] = "idle"                   -> "idle"
    [] frame[c] \in {"waiting", "ready"}   -> "waiting"
    [] frame[c] = "returned"               -> "returned"
    [] OTHER                               -> "failed"

ServerOf(c) ==
  CASE execution[c] \in {"none", "ignored"}    -> "none"
    [] execution[c] \in {"running", "refused"} -> "running"
    [] execution[c] = "replied"                -> "done"

Promise == INSTANCE RemoteCall WITH
  client <- [c \in Calls |-> ClientOf(c)],
  server <- [c \in Calls |-> ServerOf(c)]

\* Whatever the interleaving of threads, queues, timeouts and crashes, a
\* command runs at most once per call, and a call that returns does so with
\* the result of its own execution.
ImplementsRemoteCall == Promise!Spec

\* A result handler that runs after its call_cmd has left the frame refers to
\* a dead promise.  That takes a timeout: neither a handler list copied before
\* unregister_handler nor a second result ever reaches a call that returned.
NoResultAfterReturn ==
  \A p \in Processes, t \in Topics : \A c \in Calls :
    busy[p][t] = Result(c) /\ CallerOf[c] = p => frame[c] \in {"waiting", "timed_out"}

\* The result handlers left in the handler lists are those of calls that wait,
\* and those that a timeout has leaked, one for each.
OnlyTimeoutsLeak ==
  registered = {c \in Calls : frame[c] \in {"waiting", "ready", "timed_out"}}

=============================================================================
