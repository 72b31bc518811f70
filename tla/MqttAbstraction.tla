-------------------------- MODULE MqttAbstraction --------------------------
(***************************************************************************)
(* The MQTT client that every EVerest process (manager or module) talks    *)
(* through: class MQTTAbstractionImpl with its MessageQueue, from the      *)
(* publish() calls of the process's threads to the broker, and from the    *)
(* broker back to the per-topic MessageHandler queues.                     *)
(*                                                                         *)
(* One process is modelled.  The broker keeps this client's subscriptions  *)
(* and forwards what they cover; the rest of the system is the set of      *)
(* messages whose author is Remote.                                        *)
(*                                                                         *)
(* Locks: handlers_mutex is held by on_mqtt_connect from its first         *)
(* subscription to the end of the flush (phase "subscribing"/"flushing")   *)
(* and messages_before_connected_mutex during the flush.  Every other      *)
(* critical section is one action.                                         *)
(***************************************************************************)
EXTENDS Naturals, Sequences, FiniteSets

CONSTANTS
  Threads,        \* threads of the process that publish
  Messages,       \* the messages of a behaviour, each published at most once
  Topics,         \* concrete topics
  Filters,        \* what a handler can be registered for (handler_topic)
  Handlers,       \* handler tokens
  EverestTopics,  \* topics that start with mqtt_everest_prefix
  Covers,         \* Covers[f]: the topics that filter f covers at the broker
  TopicOf,        \* topic of a message
  AuthorOf,       \* the publishing thread, or Remote
  Parses,         \* messages whose payload is JSON
  FilterOf,       \* the filter a handler is registered for
  Remote,         \* "thread" of every other process
  None,           \* no message
  MaxPackets,     \* bound on packets waiting when handlers come and go
  MaxRefused      \* bound on packets the client library has refused

ASSUME ConstantsTyped ==
  /\ Topics \subseteq Filters
  /\ EverestTopics \subseteq Topics
  /\ Covers \in [Filters -> SUBSET Topics]
  /\ TopicOf \in [Messages -> Topics]
  /\ AuthorOf \in [Messages -> Threads \cup {Remote}]
  /\ Parses \subseteq Messages
  /\ FilterOf \in [Handlers -> Filters]
  /\ Remote \notin Threads
  /\ None \notin Messages
  /\ MaxPackets \in Nat /\ MaxRefused \in Nat

\* A concrete topic, used as a filter, covers exactly itself.
ASSUME TopicsCoverThemselves == \A t \in Topics : Covers[t] = {t}

VARIABLES
  phase,      \* progress of connect()
  todo,       \* filters on_mqtt_connect has still to subscribe
  connected,  \* mqtt_is_connected
  mainloop,   \* the thread of spawn_main_loop_thread
  entries,    \* keys of message_handlers
  handlers,   \* handlers registered per filter
  before,     \* messages_before_connected
  flushed,    \* how many of them on_mqtt_connect has published
  holding,    \* a message whose publish() has read "not connected"
  out,        \* packets from the client to the broker, in order
  refused,    \* packets the client library did not take when last asked (history)
  subs,       \* the broker's subscriptions of this client
  inbound,    \* messages from the broker to the client, in order
  queue,      \* MessageQueue::message_queue
  current,    \* the message its worker is distributing
  handed,     \* what each MessageHandler has been given (history)
  published,  \* messages whose publish() has begun
  arrived,    \* this client's messages the broker has received (history)
  forwarded,  \* what the broker has sent to this client (history)
  exited      \* why the process has called exit(1), if it has

connectVars  == <<phase, todo, connected, mainloop>>
handlerVars  == <<entries, handlers>>
publishVars  == <<before, flushed, holding, published>>
sendVars     == <<out, refused>>
brokerVars   == <<subs, inbound, arrived, forwarded>>
incomingVars == <<queue, current, handed>>
vars == <<connectVars, handlerVars, publishVars, sendVars, brokerVars, incomingVars, exited>>

Packet == [op : {"subscribe", "unsubscribe"}, arg : Filters]
            \cup [op : {"publish"}, arg : Messages]

Subscribe(f)   == [op |-> "subscribe", arg |-> f]
Unsubscribe(f) == [op |-> "unsubscribe", arg |-> f]
PublishOf(m)   == [op |-> "publish", arg |-> m]

Running == exited = "no"

\* std::mutex handlers_mutex is free
HandlersMutexFree == phase \notin {"subscribing", "flushing"}

\* the broker sends m to a client with these subscriptions, once
BrokerForwards(m, to) == \E f \in to : TopicOf[m] \in Covers[f]

\* on_mqtt_message gives m to the MessageHandler of f: exact comparison for
\* topics under the EVerest prefix, check_topic_matches for the others
TopicMatches(f, m) ==
  IF TopicOf[m] \in EverestTopics THEN f = TopicOf[m] ELSE TopicOf[m] \in Covers[f]

TypeOK ==
  /\ phase \in {"none", "subscribing", "flushing", "done", "failed"}
  /\ todo \subseteq Filters
  /\ connected \in BOOLEAN
  /\ mainloop \in {"none", "running", "ended"}
  /\ entries \subseteq Filters
  /\ handlers \in [Filters -> SUBSET Handlers]
  /\ before \in Seq(Messages)
  /\ flushed \in Nat
  /\ holding \in [Threads -> Messages \cup {None}]
  /\ out \in Seq(Packet)
  /\ refused \subseteq Packet
  /\ subs \subseteq Filters
  /\ inbound \in Seq(Messages)
  /\ queue \in Seq(Messages)
  /\ current \in Messages \cup {None}
  /\ handed \in [Filters -> Seq(Messages)]
  /\ published \subseteq Messages
  /\ arrived \in Seq(Messages)
  /\ forwarded \in Seq(Messages)
  /\ exited \in {"no", "unhandled", "disconnected"}

\* The constructor: not connected, no handlers, the worker waiting.
Init ==
  /\ phase = "none" /\ todo = {} /\ connected = FALSE /\ mainloop = "none"
  /\ entries = {} /\ handlers = [f \in Filters |-> {}]
  /\ before = <<>> /\ flushed = 0 /\ holding = [t \in Threads |-> None]
  /\ out = <<>> /\ refused = {} /\ subs = {} /\ inbound = <<>>
  /\ queue = <<>> /\ current = None /\ handed = [f \in Filters |-> <<>>]
  /\ published = {} /\ arrived = <<>> /\ forwarded = <<>>
  /\ exited = "no"

-----------------------------------------------------------------------------
(* The MQTT client library                                                 *)

\* mqtt_publish, mqtt_subscribe and mqtt_unsubscribe: the library queues the
\* packet, or returns an error, as it does when its send buffer is full.  The
\* error is logged or ignored, and the caller goes on as if it were sent.
Send(p) ==
  \/ /\ out' = Append(out, p)
     /\ refused' = refused \ {p}
  \/ /\ Cardinality(refused) < MaxRefused
     /\ refused' = refused \cup {p}
     /\ UNCHANGED out

SendIf(condition, p) ==
  \/ condition /\ Send(p)
  \/ ~condition /\ UNCHANGED sendVars

-----------------------------------------------------------------------------
(* connect(): connectBroker and on_mqtt_connect                            *)

\* connectBroker finds no broker: connect() returns false.
ConnectFail ==
  /\ phase = "none"
  /\ phase' = "failed"
  /\ UNCHANGED <<todo, connected, mainloop, handlerVars, publishVars, sendVars,
                 brokerVars, incomingVars, exited>>

\* on_mqtt_connect takes handlers_mutex and starts with the filters known now.
ConnectBegin ==
  /\ phase = "none"
  /\ phase' = "subscribing"
  /\ todo' = entries
  /\ UNCHANGED <<connected, mainloop, handlerVars, publishVars, sendVars,
                 brokerVars, incomingVars, exited>>

ConnectSubscribe(f) ==
  /\ phase = "subscribing" /\ f \in todo
  /\ todo' = todo \ {f}
  /\ Send(Subscribe(f))
  /\ UNCHANGED <<phase, connected, mainloop, handlerVars, publishVars,
                 brokerVars, incomingVars, exited>>

\* messages_before_connected_mutex is taken and the flag is set.
SetConnected ==
  /\ phase = "subscribing" /\ todo = {}
  /\ phase' = "flushing"
  /\ connected' = TRUE
  /\ UNCHANGED <<todo, mainloop, handlerVars, publishVars, sendVars, brokerVars,
                 incomingVars, exited>>

\* One turn of the flush loop; publish() sees the flag set, and what the
\* library refuses is not kept.
FlushOne ==
  /\ phase = "flushing" /\ flushed < Len(before)
  /\ Send(PublishOf(before[flushed + 1]))
  /\ flushed' = flushed + 1
  /\ UNCHANGED <<connectVars, handlerVars, before, holding, published,
                 brokerVars, incomingVars, exited>>

\* Mutant of FlushEnd: the buffer is not cleared.
FlushEndKeepsBuffer ==
  /\ phase = "flushing" /\ flushed = Len(before)
  /\ phase' = "done"
  /\ flushed' = 0
  /\ UNCHANGED <<todo, connected, mainloop, handlerVars, before, holding, published,
                 sendVars, brokerVars, incomingVars, exited>>

\* The buffer is cleared and both mutexes are released.
FlushEnd ==
  /\ phase = "flushing" /\ flushed = Len(before)
  /\ phase' = "done"
  /\ before' = <<>> /\ flushed' = 0
  /\ UNCHANGED <<todo, connected, mainloop, handlerVars, holding, published,
                 sendVars, brokerVars, incomingVars, exited>>

\* disconnect(), which only the destructor calls.
Disconnect ==
  /\ phase = "done" /\ connected
  /\ connected' = FALSE
  /\ UNCHANGED <<phase, todo, mainloop, handlerVars, publishVars, sendVars,
                 brokerVars, incomingVars, exited>>

-----------------------------------------------------------------------------
(* publish(topic, data, qos), called by the process's threads              *)

\* The flag is read without a lock: connected publishes at once ...
PublishDirect(t, m) ==
  /\ AuthorOf[m] = t /\ m \notin published /\ holding[t] = None
  /\ connected
  /\ published' = published \cup {m}
  /\ Send(PublishOf(m))
  /\ UNCHANGED <<connectVars, handlerVars, before, flushed, holding,
                 brokerVars, incomingVars, exited>>

\* Mutant of ReadsNotConnected: the flag is not looked at.
AlwaysBuffers(t) == holding[t] = None

ReadsNotConnected(t) == holding[t] = None /\ ~connected

\* ... and not connected goes on to lock messages_before_connected_mutex.
PublishReadsFlag(t, m) ==
  /\ AuthorOf[m] = t /\ m \notin published
  /\ ReadsNotConnected(t)
  /\ published' = published \cup {m}
  /\ holding' = [holding EXCEPT ![t] = m]
  /\ UNCHANGED <<connectVars, handlerVars, before, flushed, sendVars, brokerVars,
                 incomingVars, exited>>

PublishBuffer(t) ==
  /\ holding[t] # None
  /\ phase # "flushing"
  /\ before' = Append(before, holding[t])
  /\ holding' = [holding EXCEPT ![t] = None]
  /\ UNCHANGED <<connectVars, handlerVars, flushed, published, sendVars,
                 brokerVars, incomingVars, exited>>

-----------------------------------------------------------------------------
(* register_handler and unregister_handler                                 *)

\* Mutant of FirstHandler: only the creation of the entry subscribes.
NewEntry(f) == f \notin entries

\* count_handlers() is 1 after the insertion
FirstHandler(f) == handlers[f] = {}

RegisterHandler(h) ==
  LET f == FilterOf[h] IN
  /\ HandlersMutexFree
  /\ h \notin handlers[f] /\ Len(out) < MaxPackets
  /\ entries' = entries \cup {f}
  /\ handlers' = [handlers EXCEPT ![f] = @ \cup {h}]
  /\ SendIf(connected /\ FirstHandler(f), Subscribe(f))
  /\ UNCHANGED <<connectVars, publishVars, brokerVars, incomingVars, exited>>

\* Mutant of UnregisterHandler: the entry goes with its last handler.
UnregisterDropsEntry(h) ==
  LET f == FilterOf[h] IN
  /\ HandlersMutexFree
  /\ h \in handlers[f] /\ Len(out) < MaxPackets
  /\ handlers' = [handlers EXCEPT ![f] = @ \ {h}]
  /\ entries' = IF handlers[f] = {h} THEN entries \ {f} ELSE entries
  /\ SendIf(connected /\ handlers[f] = {h}, Unsubscribe(f))
  /\ UNCHANGED <<connectVars, publishVars, brokerVars, incomingVars, exited>>

\* The entry of the filter stays in message_handlers.
UnregisterHandler(h) ==
  LET f == FilterOf[h] IN
  /\ HandlersMutexFree
  /\ h \in handlers[f] /\ Len(out) < MaxPackets
  /\ handlers' = [handlers EXCEPT ![f] = @ \ {h}]
  /\ SendIf(connected /\ handlers[f] = {h}, Unsubscribe(f))
  /\ UNCHANGED <<connectVars, entries, publishVars, brokerVars, incomingVars, exited>>

-----------------------------------------------------------------------------
(* The main loop thread and the broker                                     *)

\* spawn_main_loop_thread: the callers have connected before
SpawnMainLoop ==
  /\ mainloop = "none" /\ phase = "done"
  /\ mainloop' = "running"
  /\ UNCHANGED <<phase, todo, connected, handlerVars, publishVars, sendVars,
                 brokerVars, incomingVars, exited>>

\* The loop condition is read false.
MainLoopEnd ==
  /\ mainloop = "running" /\ ~connected
  /\ mainloop' = "ended"
  /\ UNCHANGED <<phase, todo, connected, handlerVars, publishVars, sendVars,
                 brokerVars, incomingVars, exited>>

\* The broker passes on a message, to this client if it is subscribed.
Forward(m) ==
  IF BrokerForwards(m, subs)
    THEN /\ inbound' = Append(inbound, m)
         /\ forwarded' = Append(forwarded, m)
    ELSE UNCHANGED <<inbound, forwarded>>

\* mqtt_sync sends the oldest packet, and the broker acts on it.
SyncSend ==
  /\ mainloop = "running" /\ out # <<>>
  /\ out' = Tail(out)
  /\ LET p == Head(out) IN
       \/ /\ p.op = "subscribe"
          /\ subs' = subs \cup {p.arg}
          /\ UNCHANGED <<inbound, arrived, forwarded>>
       \/ /\ p.op = "unsubscribe"
          /\ subs' = subs \ {p.arg}
          /\ UNCHANGED <<inbound, arrived, forwarded>>
       \/ /\ p.op = "publish"
          /\ arrived' = Append(arrived, p.arg)
          /\ Forward(p.arg)
          /\ UNCHANGED subs
  /\ UNCHANGED <<connectVars, handlerVars, publishVars, refused, incomingVars, exited>>

\* Another process publishes.
RemotePublish(m) ==
  /\ AuthorOf[m] = Remote /\ m \notin published
  /\ published' = published \cup {m}
  /\ Forward(m)
  /\ UNCHANGED <<connectVars, handlerVars, before, flushed, holding, sendVars, subs,
                 arrived, incomingVars, exited>>

\* mqtt_sync reads a message: publish_callback adds it to the MessageQueue.
SyncReceive ==
  /\ mainloop = "running" /\ inbound # <<>>
  /\ inbound' = Tail(inbound)
  /\ queue' = Append(queue, Head(inbound))
  /\ UNCHANGED <<connectVars, handlerVars, publishVars, sendVars, subs, arrived,
                 forwarded, current, handed, exited>>

\* mqtt_sync fails: on_mqtt_disconnect throws and the process exits.
LoseConnection ==
  /\ mainloop = "running"
  /\ exited' = "disconnected"
  /\ UNCHANGED <<connectVars, handlerVars, publishVars, sendVars, brokerVars, incomingVars>>

-----------------------------------------------------------------------------
(* The worker of the MessageQueue                                          *)

\* Mutants of TakeMessage: the newest message first; a wait for a second one.
TakeNewest ==
  /\ current = None /\ queue # <<>>
  /\ current' = queue[Len(queue)]
  /\ queue' = SubSeq(queue, 1, Len(queue) - 1)
  /\ UNCHANGED <<connectVars, handlerVars, publishVars, sendVars, brokerVars, handed, exited>>

TakeWaitsForTwo ==
  /\ current = None /\ Len(queue) > 1
  /\ current' = Head(queue)
  /\ queue' = Tail(queue)
  /\ UNCHANGED <<connectVars, handlerVars, publishVars, sendVars, brokerVars, handed, exited>>

TakeMessage ==
  /\ current = None /\ queue # <<>>
  /\ current' = Head(queue)
  /\ queue' = Tail(queue)
  /\ UNCHANGED <<connectVars, handlerVars, publishVars, sendVars, brokerVars, handed, exited>>

\* An EVerest topic with a payload that is no JSON: warn and drop.
DropUnparsable ==
  /\ current # None
  /\ TopicOf[current] \in EverestTopics /\ current \notin Parses
  /\ current' = None
  /\ UNCHANGED <<connectVars, handlerVars, publishVars, sendVars, brokerVars, queue, handed, exited>>

\* on_mqtt_message under handlers_mutex: every matching entry gets the
\* message; a message that finds none ends the process.
Distribute ==
  /\ current # None /\ HandlersMutexFree
  /\ TopicOf[current] \in EverestTopics => current \in Parses
  /\ LET found == {f \in entries : TopicMatches(f, current)} IN
       /\ handed' = [f \in Filters |-> IF f \in found THEN Append(handed[f], current)
                                                      ELSE handed[f]]
       /\ exited' = IF found = {} THEN "unhandled" ELSE exited
  /\ current' = None
  /\ UNCHANGED <<connectVars, handlerVars, publishVars, sendVars, brokerVars, queue>>

-----------------------------------------------------------------------------
Connecting ==
  \/ ConnectFail \/ ConnectBegin \/ SetConnected \/ FlushOne \/ FlushEnd
  \/ \E f \in Filters : ConnectSubscribe(f)

Publishing ==
  \E t \in Threads :
    \/ PublishBuffer(t)
    \/ \E m \in Messages : PublishDirect(t, m) \/ PublishReadsFlag(t, m)

Registering == \E h \in Handlers : RegisterHandler(h) \/ UnregisterHandler(h)

MainLoop == SpawnMainLoop \/ MainLoopEnd \/ SyncSend \/ SyncReceive \/ LoseConnection

Worker == TakeMessage \/ DropUnparsable \/ Distribute

Next ==
  /\ Running
  /\ \/ Connecting
     \/ Disconnect
     \/ Publishing
     \/ Registering
     \/ MainLoop
     \/ \E m \in Messages : RemotePublish(m)
     \/ Worker

Spec == Init /\ [][Next]_vars

\* The threads of the client keep running: connect() returns, the main loop
\* polls, the worker waits on its condition variable, publish() finishes.
Fairness ==
  /\ WF_vars(Running /\ Connecting)
  /\ WF_vars(Running /\ SyncSend)
  /\ WF_vars(Running /\ SyncReceive)
  /\ WF_vars(Running /\ Worker)
  /\ \A t \in Threads : WF_vars(Running /\ PublishBuffer(t))

FairSpec == Spec /\ Fairness

-----------------------------------------------------------------------------
(* Properties                                                              *)

\* The wildcard handlers of external MQTT stay out of the EVerest prefix, so
\* that only its own topic covers an EVerest topic.  runtime.cpp asks for
\* different prefixes but not for this.
PrefixesDisjoint ==
  \A f \in Filters, t \in EverestTopics : t \in Covers[f] => f = t

\* Whatever the interleaving of registrations, unsubscriptions and messages in
\* flight, a message that reaches on_mqtt_message finds an entry, and the
\* process never exits with "topic ... should have a matching handler".
EveryMessageHasAnEntry == exited # "unhandled"

\* f is subscribed once a broker with the subscriptions s has read packets
SubscribedAfter(f, s, packets) ==
  \/ /\ f \in s
     /\ \A i \in 1..Len(packets) : packets[i] # Unsubscribe(f)
  \/ \E i \in 1..Len(packets) :
       /\ packets[i] = Subscribe(f)
       /\ \A j \in (i + 1)..Len(packets) : packets[j] # Unsubscribe(f)

\* No handler is deaf: once on_mqtt_connect has set the flag, a filter with a
\* registered handler is subscribed or its SUBSCRIBE is on the way with no
\* UNSUBSCRIBE behind it, whichever thread connected, registered or
\* unregistered in between; unless the library has refused that SUBSCRIBE,
\* which nobody looks at.
NoDeafHandler ==
  connected => \A f \in Filters :
    handlers[f] # {} /\ Subscribe(f) \notin refused => SubscribedAfter(f, subs, out)

Occurrences(m, s) == Cardinality({i \in 1..Len(s) : s[i] = m})

\* A message given to publish() is in exactly one place: in its thread's hand,
\* in messages_before_connected, on the way to the broker or at the broker; or
\* it is lost, and then because the library has refused it.  The flush sends
\* nothing twice, and loses nothing that the library takes.
PublishedExactlyOnce ==
  \A m \in Messages : AuthorOf[m] # Remote =>
    Cardinality({t \in Threads : holding[t] = m})
      + Occurrences(m, SubSeq(before, flushed + 1, Len(before)))
      + Occurrences(PublishOf(m), out)
      + Occurrences(m, arrived)
      + (IF PublishOf(m) \in refused THEN 1 ELSE 0) = IF m \in published THEN 1 ELSE 0

\* The unlocked read of mqtt_is_connected in publish() can leave a message in
\* messages_before_connected for good, but each thread strands at most one:
\* its next publish() sees the flag set.
OneStrandedPerThread ==
  connected /\ phase = "done" =>
    \A t \in Threads :
      Cardinality({m \in Messages : AuthorOf[m] = t /\ Occurrences(m, before) > 0}
                    \cup ({holding[t]} \ {None})) <= 1

WorkLeft == (IF current = None THEN <<>> ELSE <<current>>) \o queue \o inbound

\* how many of the messages sent to this client its worker is through with
Distributed == Len(forwarded) - Len(WorkLeft)

\* r holds the members of T among the first n elements of s, in their order
IsFilterOf(r, s, n, T) ==
  LET Places == {i \in 1..n : s[i] \in T}
  IN /\ Len(r) = Cardinality(Places)
     /\ \A i \in Places : r[Cardinality({j \in Places : j <= i})] = s[i]

\* The handler queue of an EVerest topic gets every parsable message that the
\* broker has sent to this client on it, once and in the order they were sent;
\* what it has not been given yet is still on its way, in that order.
HandedInOrder ==
  exited # "unhandled" =>
    /\ Len(WorkLeft) <= Len(forwarded)
    /\ WorkLeft = SubSeq(forwarded, Distributed + 1, Len(forwarded))
    /\ \A t \in EverestTopics :
         IsFilterOf(handed[t], forwarded, Distributed, {m \in Parses : TopicOf[m] = t})

\* A parsable message that the broker has sent on an EVerest topic is handed
\* to its MessageHandler, unless the connection is lost or given up.
ForwardedIsHanded ==
  \A m \in Messages : m \in Parses /\ TopicOf[m] \in EverestTopics =>
    (Occurrences(m, forwarded) > 0 /\ connected)
      ~> (Occurrences(m, handed[TopicOf[m]]) > 0 \/ ~connected \/ ~Running)

=============================================================================
