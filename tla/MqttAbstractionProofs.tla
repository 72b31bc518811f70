----------------------- MODULE MqttAbstractionProofs -----------------------
(* Theorems about MqttAbstraction for every set of threads, messages,      *)
(* topics, filters and handlers, and every bound on the packets in flight. *)
EXTENDS MqttAbstraction, SequenceTheorems, FiniteSetTheorems, TLAPS

-----------------------------------------------------------------------------
(* Packets in flight                                                       *)

\* The three kinds of packets are packets, and distinct.
LEMMA PacketKinds ==
  /\ \A f \in Filters : Subscribe(f) \in Packet /\ Unsubscribe(f) \in Packet
  /\ \A m \in Messages : PublishOf(m) \in Packet
  /\ \A f, g : Subscribe(f) # Unsubscribe(g)
  /\ \A f, g : Subscribe(f) = Subscribe(g) => f = g
  /\ \A f, g : Unsubscribe(f) = Unsubscribe(g) => f = g
  /\ \A m, f : PublishOf(m) # Unsubscribe(f) /\ PublishOf(m) # Subscribe(f)
BY DEF Packet, Subscribe, Unsubscribe, PublishOf

\* A packet sent after the others cannot end a subscription unless it is the
\* UNSUBSCRIBE of that filter.
LEMMA AppendKeepsSubscribed ==
  ASSUME NEW f, NEW s, NEW o \in Seq(Packet), NEW p \in Packet,
         SubscribedAfter(f, s, o), p # Unsubscribe(f)
  PROVE  SubscribedAfter(f, s, Append(o, p))
<1>1. /\ Len(Append(o, p)) = Len(o) + 1
      /\ \A i \in 1..Len(o) : Append(o, p)[i] = o[i]
      /\ Append(o, p)[Len(o) + 1] = p
      /\ Len(o) \in Nat
  OBVIOUS
<1>2. CASE f \in s /\ \A i \in 1..Len(o) : o[i] # Unsubscribe(f)
  <2>1. \A i \in 1..Len(Append(o, p)) : Append(o, p)[i] # Unsubscribe(f)
    BY <1>1, <1>2
  <2>2. QED BY <1>2, <2>1 DEF SubscribedAfter
<1>3. CASE \E i \in 1..Len(o) :
             /\ o[i] = Subscribe(f)
             /\ \A j \in (i + 1)..Len(o) : o[j] # Unsubscribe(f)
  <2>1. PICK i \in 1..Len(o) :
               /\ o[i] = Subscribe(f)
               /\ \A j \in (i + 1)..Len(o) : o[j] # Unsubscribe(f)
    BY <1>3
  <2>2. /\ i \in 1..Len(Append(o, p))
        /\ Append(o, p)[i] = Subscribe(f)
        /\ \A j \in (i + 1)..Len(Append(o, p)) : Append(o, p)[j] # Unsubscribe(f)
    BY <1>1, <2>1
  <2>3. QED BY <2>2 DEF SubscribedAfter
<1>4. QED BY <1>2, <1>3 DEF SubscribedAfter

\* A SUBSCRIBE sent last is not undone.
LEMMA AppendSubscribe ==
  ASSUME NEW f \in Filters, NEW s, NEW o \in Seq(Packet)
  PROVE  SubscribedAfter(f, s, Append(o, Subscribe(f)))
<1>1. /\ Subscribe(f) \in Packet
      /\ Len(Append(o, Subscribe(f))) = Len(o) + 1
      /\ Append(o, Subscribe(f))[Len(o) + 1] = Subscribe(f)
      /\ Len(o) \in Nat
  BY PacketKinds
<1>2. /\ Len(o) + 1 \in 1..Len(Append(o, Subscribe(f)))
      /\ ((Len(o) + 1) + 1)..Len(Append(o, Subscribe(f))) = {}
  BY <1>1
<1>3. QED BY <1>1, <1>2 DEF SubscribedAfter

\* The broker's reading of the oldest packet changes nothing of what the
\* client will be subscribed to.
LEMMA ReadKeepsSubscribed ==
  ASSUME NEW f, NEW s, NEW t, NEW o \in Seq(Packet), o # <<>>,
         SubscribedAfter(f, s, o),
         f \in s /\ Head(o) # Unsubscribe(f) => f \in t,
         Head(o) = Subscribe(f) => f \in t
  PROVE  SubscribedAfter(f, t, Tail(o))
<1>1. /\ Len(o) \in Nat /\ Len(o) >= 1
      /\ Len(Tail(o)) = Len(o) - 1
      /\ \A i \in 1..Len(Tail(o)) : Tail(o)[i] = o[i + 1]
      /\ Head(o) = o[1]
  BY HeadTailProperties, EmptySeq
<1>2. CASE f \in s /\ \A i \in 1..Len(o) : o[i] # Unsubscribe(f)
  <2>1. f \in t
    BY <1>1, <1>2
  <2>2. \A i \in 1..Len(Tail(o)) : Tail(o)[i] # Unsubscribe(f)
    BY <1>1, <1>2
  <2>3. QED BY <2>1, <2>2 DEF SubscribedAfter
<1>3. CASE \E i \in 1..Len(o) :
             /\ o[i] = Subscribe(f)
             /\ \A j \in (i + 1)..Len(o) : o[j] # Unsubscribe(f)
  <2>1. PICK i \in 1..Len(o) :
               /\ o[i] = Subscribe(f)
               /\ \A j \in (i + 1)..Len(o) : o[j] # Unsubscribe(f)
    BY <1>3
  <2>2. CASE i = 1
    <3>1. f \in t
      BY <1>1, <2>1, <2>2
    <3>2. \A j \in 1..Len(Tail(o)) : Tail(o)[j] # Unsubscribe(f)
      BY <1>1, <2>1, <2>2
    <3>3. QED BY <3>1, <3>2 DEF SubscribedAfter
  <2>3. CASE i # 1
    <3>1. /\ i - 1 \in 1..Len(Tail(o))
          /\ Tail(o)[i - 1] = Subscribe(f)
          /\ \A j \in ((i - 1) + 1)..Len(Tail(o)) : Tail(o)[j] # Unsubscribe(f)
      BY <1>1, <2>1, <2>3
    <3>2. QED BY <3>1 DEF SubscribedAfter
  <2>4. QED BY <2>2, <2>3
<1>4. QED BY <1>2, <1>3 DEF SubscribedAfter

-----------------------------------------------------------------------------
(* Types                                                                   *)

\* Sequences stay sequences under the operations the client uses.
LEMMA SeqOps ==
  ASSUME NEW S, NEW s \in Seq(S)
  PROVE  /\ Len(s) \in Nat
         /\ \A e \in S : Append(s, e) \in Seq(S)
         /\ s # <<>> => Head(s) \in S /\ Tail(s) \in Seq(S)
         /\ \A i \in 1..Len(s) : s[i] \in S
         /\ <<>> \in Seq(S)
BY HeadTailProperties, ElementOfSeq, EmptySeq

\* The broker forwards nothing, or exactly the message it was given.
LEMMA ForwardEffect ==
  ASSUME NEW m \in Messages, Forward(m)
  PROVE  \/ /\ BrokerForwards(m, subs)
            /\ inbound' = Append(inbound, m) /\ forwarded' = Append(forwarded, m)
         \/ inbound' = inbound /\ forwarded' = forwarded
BY Zenon DEF Forward

\* A packet is queued, or refused.
LEMMA SendEffect ==
  ASSUME NEW p, Send(p)
  PROVE  \/ out' = Append(out, p) /\ refused' = refused \ {p}
         \/ out' = out /\ refused' = refused \cup {p}
BY DEF Send

\* Either way the types stay.
LEMMA SendTypes ==
  ASSUME TypeOK, NEW p \in Packet, Send(p)
  PROVE  out' \in Seq(Packet) /\ refused' \subseteq Packet
<1>1. out \in Seq(Packet) /\ Append(out, p) \in Seq(Packet) /\ refused \subseteq Packet
  BY SeqOps DEF TypeOK
<1> QED BY <1>1, SendEffect

\* Every value the client and the broker keep has its type: in particular no
\* thread pushes anything but a message it holds into messages_before_connected.
THEOREM TypeCorrect == Spec => []TypeOK
<1>1. Init => TypeOK
  <2>1. <<>> \in Seq(Messages) /\ <<>> \in Seq(Packet)
    BY EmptySeq
  <2>2. [f \in Filters |-> <<>>] \in [Filters -> Seq(Messages)]
    BY <2>1
  <2>3. /\ [f \in Filters |-> {}] \in [Filters -> SUBSET Handlers]
        /\ [t \in Threads |-> None] \in [Threads -> Messages \cup {None}]
    OBVIOUS
  <2> SUFFICES ASSUME Init PROVE TypeOK
    OBVIOUS
  <2>4. handlers \in [Filters -> SUBSET Handlers] /\ holding \in [Threads -> Messages \cup {None}]
    BY <2>3 DEF Init
  <2>5. handed \in [Filters -> Seq(Messages)]
    BY <2>2 DEF Init
  <2>6. /\ before \in Seq(Messages) /\ out \in Seq(Packet) /\ inbound \in Seq(Messages)
        /\ queue \in Seq(Messages) /\ arrived \in Seq(Messages) /\ forwarded \in Seq(Messages)
    BY <2>1 DEF Init
  <2>7. QED BY <2>4, <2>5, <2>6 DEF Init, TypeOK
<1>2. TypeOK /\ [Next]_vars => TypeOK'
  <2> SUFFICES ASSUME TypeOK, [Next]_vars PROVE TypeOK'
    OBVIOUS
  <2> USE ConstantsTyped DEF vars, connectVars, handlerVars, publishVars, sendVars, brokerVars, incomingVars
  <2>1. CASE ConnectFail
    BY <2>1 DEF ConnectFail, TypeOK
  <2>2. CASE ConnectBegin
    BY <2>2 DEF ConnectBegin, TypeOK
  <2>3. CASE SetConnected
    BY <2>3 DEF SetConnected, TypeOK
  <2>4. CASE FlushOne
    <3>1. /\ before[flushed + 1] \in Messages
          /\ flushed' \in Nat
      BY <2>4, SeqOps DEF FlushOne, TypeOK
    <3>2. out' \in Seq(Packet) /\ refused' \subseteq Packet
      BY <2>4, <3>1, SendTypes, PacketKinds DEF FlushOne
    <3>3. QED BY <2>4, <3>1, <3>2 DEF FlushOne, TypeOK
  <2>5. CASE FlushEnd
    BY <2>5, SeqOps DEF FlushEnd, TypeOK
  <2>6. ASSUME NEW f \in Filters, ConnectSubscribe(f) PROVE TypeOK'
    <3>1. out' \in Seq(Packet) /\ refused' \subseteq Packet
      BY <2>6, SendTypes, PacketKinds DEF ConnectSubscribe
    <3>2. QED BY <2>6, <3>1 DEF ConnectSubscribe, TypeOK
  <2>7. CASE Disconnect
    BY <2>7 DEF Disconnect, TypeOK
  <2>8. ASSUME NEW t \in Threads, PublishBuffer(t) PROVE TypeOK'
    <3>1. holding[t] \in Messages
      BY <2>8 DEF PublishBuffer, TypeOK
    <3>2. before' \in Seq(Messages)
      BY <2>8, <3>1, SeqOps DEF PublishBuffer, TypeOK
    <3>3. QED BY <2>8, <3>2 DEF PublishBuffer, TypeOK
  <2>9. ASSUME NEW t \in Threads, NEW m \in Messages, PublishDirect(t, m) PROVE TypeOK'
    <3>1. out' \in Seq(Packet) /\ refused' \subseteq Packet
      BY <2>9, SendTypes, PacketKinds DEF PublishDirect
    <3>2. QED BY <2>9, <3>1 DEF PublishDirect, TypeOK
  <2>10. ASSUME NEW t \in Threads, NEW m \in Messages, PublishReadsFlag(t, m) PROVE TypeOK'
    BY <2>10 DEF PublishReadsFlag, TypeOK
  <2>11. ASSUME NEW h \in Handlers, RegisterHandler(h) PROVE TypeOK'
    <3>1. FilterOf[h] \in Filters
      OBVIOUS
    <3>2. out' \in Seq(Packet) /\ refused' \subseteq Packet
      BY <2>11, <3>1, SendTypes, PacketKinds DEF RegisterHandler, SendIf, TypeOK
    <3>3. QED BY <2>11, <3>1, <3>2 DEF RegisterHandler, TypeOK
  <2>12. ASSUME NEW h \in Handlers, UnregisterHandler(h) PROVE TypeOK'
    <3>1. FilterOf[h] \in Filters
      OBVIOUS
    <3>2. out' \in Seq(Packet) /\ refused' \subseteq Packet
      BY <2>12, <3>1, SendTypes, PacketKinds DEF UnregisterHandler, SendIf, TypeOK
    <3>3. QED BY <2>12, <3>1, <3>2 DEF UnregisterHandler, TypeOK
  <2>13. CASE SpawnMainLoop
    BY <2>13 DEF SpawnMainLoop, TypeOK
  <2>14. CASE MainLoopEnd
    BY <2>14 DEF MainLoopEnd, TypeOK
  <2>15. CASE SyncSend
    <3>1. Head(out) \in Packet /\ out' \in Seq(Packet)
      BY <2>15, SeqOps DEF SyncSend, TypeOK
    <3>2. CASE Head(out).op = "subscribe" /\ subs' = subs \cup {Head(out).arg}
                 /\ UNCHANGED <<inbound, arrived, forwarded>>
      <4>1. Head(out).arg \in Filters
        BY <3>1, <3>2 DEF Packet
      <4>2. QED BY <2>15, <3>1, <3>2, <4>1 DEF SyncSend, TypeOK
    <3>3. CASE Head(out).op = "unsubscribe" /\ subs' = subs \ {Head(out).arg}
                 /\ UNCHANGED <<inbound, arrived, forwarded>>
      BY <2>15, <3>1, <3>3 DEF SyncSend, TypeOK
    <3>4. CASE Head(out).op = "publish" /\ arrived' = Append(arrived, Head(out).arg)
                 /\ Forward(Head(out).arg) /\ UNCHANGED subs
      <4>1. Head(out).arg \in Messages
        BY <3>1, <3>4 DEF Packet
      <4>2. arrived' \in Seq(Messages) /\ inbound' \in Seq(Messages) /\ forwarded' \in Seq(Messages)
        <5>1. arrived' \in Seq(Messages)
          BY <3>4, <4>1, SeqOps DEF TypeOK
        <5>2. Append(inbound, Head(out).arg) \in Seq(Messages)
              /\ Append(forwarded, Head(out).arg) \in Seq(Messages)
          BY <4>1, SeqOps DEF TypeOK
        <5>3. QED BY <3>4, <4>1, <5>1, <5>2, ForwardEffect DEF TypeOK
      <4>3. QED BY <2>15, <3>1, <3>4, <4>2 DEF SyncSend, TypeOK
    <3>5. QED BY <2>15, <3>2, <3>3, <3>4 DEF SyncSend
  <2>16. CASE SyncReceive
    <3>1. inbound' \in Seq(Messages) /\ queue' \in Seq(Messages)
      BY <2>16, SeqOps DEF SyncReceive, TypeOK
    <3>2. QED BY <2>16, <3>1 DEF SyncReceive, TypeOK
  <2>17. CASE LoseConnection
    BY <2>17 DEF LoseConnection, TypeOK
  <2>18. ASSUME NEW m \in Messages, RemotePublish(m) PROVE TypeOK'
    <3>1. inbound' \in Seq(Messages) /\ forwarded' \in Seq(Messages)
      <4>1. Append(inbound, m) \in Seq(Messages) /\ Append(forwarded, m) \in Seq(Messages)
        BY SeqOps DEF TypeOK
      <4>2. Forward(m)
        BY <2>18 DEF RemotePublish
      <4>3. QED BY <4>1, <4>2, ForwardEffect DEF TypeOK
    <3>2. QED BY <2>18, <3>1 DEF RemotePublish, TypeOK
  <2>19. CASE TakeMessage
    <3>1. current' \in Messages /\ queue' \in Seq(Messages)
      BY <2>19, SeqOps DEF TakeMessage, TypeOK
    <3>2. QED BY <2>19, <3>1 DEF TakeMessage, TypeOK
  <2>20. CASE DropUnparsable
    BY <2>20 DEF DropUnparsable, TypeOK
  <2>21. CASE Distribute
    <3>1. current \in Messages
      BY <2>21 DEF Distribute, TypeOK
    <3>2. \A f \in Filters : handed[f] \in Seq(Messages) /\ Append(handed[f], current) \in Seq(Messages)
      BY <3>1, SeqOps DEF TypeOK
    <3>3. handed' \in [Filters -> Seq(Messages)]
      BY <2>21, <3>2 DEF Distribute
    <3>4. QED BY <2>21, <3>3 DEF Distribute, TypeOK
  <2>22. CASE UNCHANGED vars
    BY <2>22 DEF TypeOK
  <2>23. QED
    BY <2>1, <2>2, <2>3, <2>4, <2>5, <2>6, <2>7, <2>8, <2>9, <2>10, <2>11, <2>12, <2>13,
       <2>14, <2>15, <2>16, <2>17, <2>18, <2>19, <2>20, <2>21, <2>22
       DEF Next, Connecting, Publishing, Registering, MainLoop, Worker
<1>3. QED BY <1>1, <1>2, PTL DEF Spec

-----------------------------------------------------------------------------
(* Every message finds an entry                                            *)

HasEntry(m) == \E f \in entries : TopicMatches(f, m)

\* The inductive invariant: whatever is subscribed, or about to be, has an
\* entry, hence so has every message on its way to the worker.
EntryInv ==
  /\ todo \subseteq entries
  /\ subs \subseteq entries
  /\ \A i \in 1..Len(out) : \A f \in Filters : out[i] = Subscribe(f) => f \in entries
  /\ \A i \in 1..Len(inbound) : HasEntry(inbound[i])
  /\ \A i \in 1..Len(queue) : HasEntry(queue[i])
  /\ current # None => HasEntry(current)
  /\ EveryMessageHasAnEntry

\* What the broker forwards has an entry, if subscriptions have.
LEMMA ForwardedHasEntry ==
  ASSUME PrefixesDisjoint, TypeOK, subs \subseteq entries,
         NEW m \in Messages, BrokerForwards(m, subs)
  PROVE  HasEntry(m)
<1>1. PICK f \in subs : TopicOf[m] \in Covers[f]
  BY DEF BrokerForwards
<1>2. f \in Filters /\ f \in entries
  BY DEF TypeOK
<1>3. TopicOf[m] \in EverestTopics => f = TopicOf[m]
  BY <1>1, <1>2 DEF PrefixesDisjoint
<1>4. TopicMatches(f, m)
  BY <1>1, <1>3 DEF TopicMatches
<1>5. QED BY <1>2, <1>4 DEF HasEntry

\* Forwarding keeps the entry of everything in transit.
LEMMA ForwardKeepsInbound ==
  ASSUME PrefixesDisjoint, TypeOK, subs \subseteq entries,
         \A i \in 1..Len(inbound) : HasEntry(inbound[i]),
         UNCHANGED entries,
         NEW m \in Messages, Forward(m)
  PROVE  (\A i \in 1..Len(inbound) : HasEntry(inbound[i]))'
<1>1. inbound \in Seq(Messages)
  BY DEF TypeOK
<1>2. CASE BrokerForwards(m, subs) /\ inbound' = Append(inbound, m)
  <2>1. HasEntry(m)
    BY <1>2, ForwardedHasEntry
  <2>2. \A i \in 1..Len(inbound') : HasEntry(inbound'[i])
    BY <1>1, <1>2, <2>1
  <2>3. QED BY <2>2 DEF HasEntry, TopicMatches
<1>3. CASE inbound' = inbound
  BY <1>3 DEF HasEntry, TopicMatches
<1>4. QED BY <1>2, <1>3, ForwardEffect

\* What a step that neither removes entries nor touches the rest preserves.
LEMMA EntriesGrow ==
  ASSUME entries \subseteq entries', NEW m, HasEntry(m)
  PROVE  HasEntry(m)'
BY DEF HasEntry, TopicMatches

\* Every step of the system preserves EntryInv.
LEMMA EntryStep ==
  ASSUME PrefixesDisjoint, TypeOK, EntryInv, [Next]_vars
  PROVE  EntryInv'
<1> USE DEF vars, connectVars, handlerVars, publishVars, sendVars, brokerVars, incomingVars
<1> DEFINE Sent  == \A i \in 1..Len(out) : \A f \in Filters : out[i] = Subscribe(f) => f \in entries
           Coming == \A i \in 1..Len(inbound) : HasEntry(inbound[i])
           Queued == \A i \in 1..Len(queue) : HasEntry(queue[i])
           Worked == current # None => HasEntry(current)
<1>0. /\ out \in Seq(Packet) /\ inbound \in Seq(Messages) /\ queue \in Seq(Messages)
      /\ Sent /\ Coming /\ Queued /\ Worked /\ todo \subseteq entries /\ subs \subseteq entries
      /\ EveryMessageHasAnEntry
  BY DEF TypeOK, EntryInv
<1>a. ASSUME UNCHANGED <<entries, out>> PROVE Sent'
  BY <1>0, <1>a
<1>b. ASSUME UNCHANGED <<entries, inbound>> PROVE Coming'
  BY <1>0, <1>b DEF HasEntry, TopicMatches
<1>c. ASSUME UNCHANGED <<entries, queue>> PROVE Queued'
  BY <1>0, <1>c DEF HasEntry, TopicMatches
<1>d. ASSUME UNCHANGED <<entries, current>> PROVE Worked'
  BY <1>0, <1>d DEF HasEntry, TopicMatches
<1>e. ASSUME NEW p \in Packet, UNCHANGED entries, out' = Append(out, p),
             \A f \in Filters : p = Subscribe(f) => f \in entries
      PROVE  Sent'
  BY <1>0, <1>e
<1> HIDE DEF Sent, Coming, Queued, Worked
<1>q. ASSUME Sent', Coming', Queued', Worked', (todo \subseteq entries)',
             (subs \subseteq entries)', EveryMessageHasAnEntry'
      PROVE  EntryInv'
  BY <1>q DEF EntryInv, Sent, Coming, Queued, Worked
<1>1. CASE UNCHANGED <<entries, out, brokerVars, incomingVars, exited>> /\ todo' \subseteq entries
  BY <1>1, <1>0, <1>a, <1>b, <1>c, <1>d, <1>q DEF EveryMessageHasAnEntry
<1>2. ASSUME NEW p \in Packet, Send(p),
             UNCHANGED <<entries, brokerVars, incomingVars, exited>>, todo' \subseteq entries,
             \A f \in Filters : p = Subscribe(f) => f \in entries
      PROVE  EntryInv'
  <2>1. Sent'
    <3>1. CASE out' = Append(out, p)
      BY <1>2, <1>e, <3>1
    <3>2. CASE out' = out
      BY <1>2, <1>a, <3>2
    <3> QED BY <1>2, <3>1, <3>2, SendEffect
  <2> QED BY <1>2, <1>0, <1>b, <1>c, <1>d, <1>q, <2>1 DEF EveryMessageHasAnEntry
<1>3. CASE FlushOne
  <2>1. before[flushed + 1] \in Messages
    BY <1>3, SeqOps DEF FlushOne, TypeOK
  <2>2. QED BY <1>3, <1>2, <1>0, <2>1, PacketKinds DEF FlushOne
<1>4. ASSUME NEW f \in Filters, ConnectSubscribe(f) PROVE EntryInv'
  BY <1>4, <1>2, <1>0, PacketKinds DEF ConnectSubscribe
<1>5. ASSUME NEW t \in Threads, NEW m \in Messages, PublishDirect(t, m) PROVE EntryInv'
  BY <1>5, <1>2, <1>0, PacketKinds DEF PublishDirect
<1>6. ASSUME NEW h \in Handlers, RegisterHandler(h) PROVE EntryInv'
  <2>1. /\ FilterOf[h] \in Filters
        /\ entries \subseteq entries' /\ FilterOf[h] \in entries'
        /\ out' = out \/ out' = Append(out, Subscribe(FilterOf[h]))
        /\ UNCHANGED <<todo, brokerVars, incomingVars, exited>>
    BY <1>6, ConstantsTyped, SendEffect DEF RegisterHandler, SendIf
  <2>2. Sent'
    <3>1. CASE out' = out
      BY <1>0, <2>1, <3>1 DEF Sent
    <3>2. CASE out' = Append(out, Subscribe(FilterOf[h]))
      BY <1>0, <2>1, <3>2, PacketKinds DEF Sent
    <3>3. QED BY <2>1, <3>1, <3>2
  <2>3. Coming' /\ Queued' /\ Worked'
    BY <1>0, <2>1, EntriesGrow DEF Coming, Queued, Worked
  <2>4. QED BY <1>0, <2>1, <2>2, <2>3, <1>q DEF EveryMessageHasAnEntry
<1>7. ASSUME NEW h \in Handlers, UnregisterHandler(h) PROVE EntryInv'
  <2>1. /\ FilterOf[h] \in Filters
        /\ UNCHANGED sendVars \/ Send(Unsubscribe(FilterOf[h]))
        /\ UNCHANGED <<todo, entries, brokerVars, incomingVars, exited>>
    BY <1>7, ConstantsTyped DEF UnregisterHandler, SendIf
  <2>2. CASE UNCHANGED sendVars
    BY <1>0, <1>1, <2>1, <2>2
  <2>3. CASE Send(Unsubscribe(FilterOf[h]))
    BY <1>0, <1>2, <2>1, <2>3, PacketKinds
  <2>4. QED BY <2>1, <2>2, <2>3
<1>8. CASE SyncSend
  <2>1. /\ out # <<>> /\ out' = Tail(out) /\ Head(out) \in Packet
        /\ UNCHANGED <<todo, entries, incomingVars, exited>>
    BY <1>8, <1>0, SeqOps DEF SyncSend
  <2>2. Sent'
    BY <1>0, <2>1, HeadTailProperties DEF Sent
  <2>3. Queued' /\ Worked' /\ todo' \subseteq entries' /\ EveryMessageHasAnEntry'
    BY <1>0, <1>c, <1>d, <2>1 DEF EveryMessageHasAnEntry
  <2>4. CASE Head(out).op = "subscribe" /\ subs' = subs \cup {Head(out).arg}
               /\ UNCHANGED <<inbound, arrived, forwarded>>
    <3>1. /\ Head(out).arg \in Filters /\ Head(out) = Subscribe(Head(out).arg)
          /\ Head(out) = out[1] /\ 1 \in 1..Len(out)
      BY <1>0, <2>1, <2>4, EmptySeq DEF Packet, Subscribe
    <3>2. Head(out).arg \in entries
      BY <1>0, <3>1 DEF Sent
    <3>3. QED BY <1>0, <1>b, <1>q, <2>1, <2>2, <2>3, <2>4, <3>2
  <2>5. CASE Head(out).op = "unsubscribe" /\ subs' = subs \ {Head(out).arg}
               /\ UNCHANGED <<inbound, arrived, forwarded>>
    BY <1>0, <1>b, <1>q, <2>1, <2>2, <2>3, <2>5
  <2>6. CASE Head(out).op = "publish" /\ Forward(Head(out).arg) /\ UNCHANGED subs
    <3>1. Head(out).arg \in Messages
      BY <2>1, <2>6 DEF Packet
    <3>2. Coming'
      BY <1>0, <2>1, <2>6, <3>1, ForwardKeepsInbound DEF Coming
    <3>3. QED BY <1>0, <1>q, <2>1, <2>2, <2>3, <2>6, <3>2
  <2>7. QED BY <1>8, <2>4, <2>5, <2>6 DEF SyncSend
<1>9. CASE SyncReceive
  <2>1. /\ inbound # <<>> /\ inbound' = Tail(inbound) /\ queue' = Append(queue, Head(inbound))
        /\ UNCHANGED <<todo, entries, out, subs, current, exited>>
    BY <1>9 DEF SyncReceive
  <2>2. /\ Head(inbound) = inbound[1] /\ 1 \in 1..Len(inbound) /\ Head(inbound) \in Messages
        /\ Len(Tail(inbound)) = Len(inbound) - 1
        /\ \A i \in 1..Len(Tail(inbound)) : Tail(inbound)[i] = inbound[i + 1]
    BY <1>0, <2>1, EmptySeq, HeadTailProperties
  <2>3. HasEntry(Head(inbound)) /\ \A i \in 1..Len(Tail(inbound)) : HasEntry(Tail(inbound)[i])
    BY <1>0, <2>2 DEF Coming
  <2>4. \A i \in 1..Len(Append(queue, Head(inbound))) : HasEntry(Append(queue, Head(inbound))[i])
    BY <1>0, <2>2, <2>3 DEF Queued
  <2>5. Coming' /\ Queued'
    BY <2>1, <2>3, <2>4, EntriesGrow DEF Coming, Queued
  <2>6. QED BY <1>0, <1>a, <1>d, <1>q, <2>1, <2>5 DEF EveryMessageHasAnEntry
<1>10. ASSUME NEW m \in Messages, RemotePublish(m) PROVE EntryInv'
  <2>1. Forward(m) /\ UNCHANGED <<todo, entries, out, subs, incomingVars, exited>>
    BY <1>10 DEF RemotePublish
  <2>2. Coming'
    BY <1>0, <2>1, ForwardKeepsInbound DEF Coming
  <2>3. QED BY <1>0, <1>a, <1>c, <1>d, <1>q, <2>1, <2>2 DEF EveryMessageHasAnEntry
<1>11. CASE TakeMessage
  <2>1. /\ queue # <<>> /\ current' = Head(queue) /\ queue' = Tail(queue)
        /\ UNCHANGED <<todo, entries, out, inbound, subs, exited>>
    BY <1>11 DEF TakeMessage
  <2>2. /\ Head(queue) = queue[1] /\ 1 \in 1..Len(queue)
        /\ Len(Tail(queue)) = Len(queue) - 1
        /\ \A i \in 1..Len(Tail(queue)) : Tail(queue)[i] = queue[i + 1]
    BY <1>0, <2>1, EmptySeq, HeadTailProperties
  <2>3. HasEntry(Head(queue)) /\ \A i \in 1..Len(Tail(queue)) : HasEntry(Tail(queue)[i])
    BY <1>0, <2>2 DEF Queued
  <2>4. Queued' /\ Worked'
    BY <2>1, <2>3, EntriesGrow DEF Queued, Worked
  <2>5. QED BY <1>0, <1>a, <1>b, <1>q, <2>1, <2>4 DEF EveryMessageHasAnEntry
<1>12. CASE DropUnparsable
  <2>1. current' = None /\ UNCHANGED <<todo, entries, out, inbound, subs, queue, exited>>
    BY <1>12 DEF DropUnparsable
  <2>2. Worked'
    BY <2>1 DEF Worked
  <2>3. QED BY <1>0, <1>a, <1>b, <1>c, <1>q, <2>1, <2>2 DEF EveryMessageHasAnEntry
<1>13. CASE Distribute
  <2>1. current # None /\ current' = None
        /\ UNCHANGED <<todo, entries, out, inbound, subs, queue>>
        /\ exited' = IF {f \in entries : TopicMatches(f, current)} = {} THEN "unhandled" ELSE exited
    BY <1>13 DEF Distribute
  <2>2. HasEntry(current)
    BY <1>0, <2>1 DEF Worked
  <2>3. exited' = exited
    BY <2>1, <2>2 DEF HasEntry
  <2>4. Worked'
    BY <2>1 DEF Worked
  <2>5. QED BY <1>0, <1>a, <1>b, <1>c, <1>q, <2>1, <2>3, <2>4 DEF EveryMessageHasAnEntry
<1>14. CASE LoseConnection
  <2>1. EveryMessageHasAnEntry' /\ UNCHANGED <<todo, entries, out, brokerVars, incomingVars>>
    BY <1>14 DEF LoseConnection, EveryMessageHasAnEntry
  <2>2. QED BY <1>0, <1>a, <1>b, <1>c, <1>d, <1>q, <2>1
<1>15. CASE \/ ConnectFail \/ ConnectBegin \/ SetConnected \/ FlushEnd \/ Disconnect
            \/ SpawnMainLoop \/ MainLoopEnd \/ UNCHANGED vars
  BY <1>15, <1>0, <1>1 DEF ConnectFail, ConnectBegin, SetConnected, FlushEnd, Disconnect,
     SpawnMainLoop, MainLoopEnd
<1>16. ASSUME NEW t \in Threads,
              PublishBuffer(t) \/ \E m \in Messages : PublishReadsFlag(t, m)
       PROVE  EntryInv'
  BY <1>16, <1>0, <1>1 DEF PublishBuffer, PublishReadsFlag
<1>17. QED
  BY <1>3, <1>4, <1>5, <1>6, <1>7, <1>8, <1>9, <1>10, <1>11, <1>12, <1>13, <1>14, <1>15, <1>16
     DEF Next, Connecting, Publishing, Registering, MainLoop, Worker

\* If no external wildcard reaches into the EVerest prefix, no process ever
\* exits because a message finds no entry in message_handlers: not when its
\* last handler is unregistered with messages still in flight, and not when it
\* is registered while others arrive.
THEOREM NeverUnhandled ==
  ASSUME PrefixesDisjoint
  PROVE  Spec => []EveryMessageHasAnEntry
<1>1. Init => EntryInv
  BY DEF Init, EntryInv, EveryMessageHasAnEntry
<1>2. TypeOK /\ EntryInv /\ [Next]_vars => EntryInv'
  BY EntryStep
<1>3. EntryInv => EveryMessageHasAnEntry
  BY DEF EntryInv
<1>4. QED BY <1>1, <1>2, <1>3, TypeCorrect, PTL DEF Spec

-----------------------------------------------------------------------------
(* No handler is deaf                                                      *)

\* The inductive invariant.  While on_mqtt_connect subscribes, a filter with a
\* handler is still to do or already subscribed; register_handler and
\* unregister_handler wait for handlers_mutex until it has finished.
DeafInv ==
  /\ \A f \in Filters : handlers[f] # {} => f \in entries
  /\ connected => phase \in {"flushing", "done"}
  /\ phase = "flushing" => connected
  /\ phase = "subscribing" =>
       \A f \in Filters : handlers[f] # {} /\ Subscribe(f) \notin refused =>
         f \in todo \/ SubscribedAfter(f, subs, out)
  /\ NoDeafHandler

\* Every step of the system preserves DeafInv.
LEMMA DeafStep ==
  ASSUME TypeOK, DeafInv, [Next]_vars
  PROVE  DeafInv'
<1> USE DEF vars, connectVars, handlerVars, publishVars, sendVars, brokerVars, incomingVars
<1>0. /\ out \in Seq(Packet) /\ handlers \in [Filters -> SUBSET Handlers]
      /\ phase \in {"none", "subscribing", "flushing", "done", "failed"}
  BY DEF TypeOK
<1>1. CASE UNCHANGED <<phase, todo, connected, handlerVars, sendVars, subs>>
  BY <1>1 DEF DeafInv, NoDeafHandler
<1>a. ASSUME NEW f \in Filters, NEW p \in Packet, Send(p), p # Unsubscribe(f), UNCHANGED subs,
             Subscribe(f) \notin refused', p = Subscribe(f) \/ SubscribedAfter(f, subs, out)
      PROVE  SubscribedAfter(f, subs', out')
  <2>1. CASE out' = Append(out, p) /\ p = Subscribe(f)
    BY <1>0, <1>a, <2>1, AppendSubscribe
  <2>2. CASE out' = Append(out, p) /\ p # Subscribe(f)
    BY <1>0, <1>a, <2>2, AppendKeepsSubscribed
  <2>3. CASE out' = out /\ refused' = refused \cup {p}
    BY <1>a, <2>3
  <2> QED BY <1>a, <2>1, <2>2, <2>3, SendEffect
<1>b. ASSUME NEW f \in Filters, NEW p \in Packet, Send(p), p # Subscribe(f), Subscribe(f) \notin refused'
      PROVE  Subscribe(f) \notin refused
  BY <1>b, SendEffect
<1>2. ASSUME NEW p \in Packet, Send(p), \A f \in Filters : p # Unsubscribe(f) /\ p # Subscribe(f),
             UNCHANGED <<phase, todo, connected, handlerVars, subs>>
      PROVE  DeafInv'
  <2>1. ASSUME NEW f \in Filters, Subscribe(f) \notin refused'
        PROVE  /\ Subscribe(f) \notin refused
               /\ SubscribedAfter(f, subs, out) => SubscribedAfter(f, subs', out')
    BY <1>2, <1>a, <1>b, <2>1
  <2>2. QED BY <1>2, <2>1 DEF DeafInv, NoDeafHandler
<1>3. CASE ConnectBegin
  <2>1. /\ phase' = "subscribing" /\ todo' = entries
        /\ UNCHANGED <<connected, entries, handlers, subs, sendVars>>
        /\ phase = "none"
    BY <1>3 DEF ConnectBegin
  <2>2. QED BY <2>1 DEF DeafInv, NoDeafHandler
<1>4. ASSUME NEW f \in Filters, ConnectSubscribe(f) PROVE DeafInv'
  <2>1. /\ todo' = todo \ {f} /\ Send(Subscribe(f)) /\ Subscribe(f) \in Packet
        /\ phase = "subscribing"
        /\ UNCHANGED <<phase, connected, entries, handlers, subs>>
    BY <1>4, PacketKinds DEF ConnectSubscribe
  <2>2. Subscribe(f) \notin refused' => SubscribedAfter(f, subs', out')
    BY <2>1, <1>a, PacketKinds
  <2>3. ASSUME NEW g \in Filters, g # f, Subscribe(g) \notin refused'
        PROVE  /\ Subscribe(g) \notin refused
               /\ SubscribedAfter(g, subs, out) => SubscribedAfter(g, subs', out')
    BY <2>1, <2>3, <1>a, <1>b, PacketKinds
  <2>4. QED BY <2>1, <2>2, <2>3 DEF DeafInv, NoDeafHandler
<1>5. CASE SetConnected
  <2>1. /\ phase = "subscribing" /\ todo = {} /\ phase' = "flushing" /\ connected' = TRUE
        /\ UNCHANGED <<todo, entries, handlers, subs, sendVars>>
    BY <1>5 DEF SetConnected
  <2>2. QED BY <2>1 DEF DeafInv, NoDeafHandler
<1>6. CASE FlushOne
  <2>1. before[flushed + 1] \in Messages
    BY <1>6, SeqOps DEF FlushOne, TypeOK
  <2>2. QED BY <1>6, <1>2, <2>1, PacketKinds DEF FlushOne
<1>7. CASE FlushEnd \/ ConnectFail
  <2>1. /\ phase' \in {"done", "failed"} /\ UNCHANGED <<todo, connected, entries, handlers, subs, sendVars>>
        /\ phase' = "failed" => phase = "none"
    BY <1>7 DEF FlushEnd, ConnectFail
  <2>2. QED BY <2>1 DEF DeafInv, NoDeafHandler
<1>8. CASE Disconnect
  <2>1. phase = "done" /\ connected' = FALSE
        /\ UNCHANGED <<phase, todo, entries, handlers, subs, sendVars>>
    BY <1>8 DEF Disconnect
  <2>2. QED BY <2>1 DEF DeafInv, NoDeafHandler
<1>9. ASSUME NEW t \in Threads, NEW m \in Messages, PublishDirect(t, m) PROVE DeafInv'
  BY <1>9, <1>2, PacketKinds DEF PublishDirect
<1>10. ASSUME NEW h \in Handlers, RegisterHandler(h) PROVE DeafInv'
  <2> DEFINE f == FilterOf[h]
  <2>1. /\ f \in Filters /\ phase \notin {"subscribing", "flushing"}
        /\ entries' = entries \cup {f}
        /\ handlers' = [handlers EXCEPT ![f] = @ \cup {h}]
        /\ SendIf(connected /\ handlers[f] = {}, Subscribe(f))
        /\ UNCHANGED <<phase, todo, connected, subs>>
    BY <1>10, ConstantsTyped DEF RegisterHandler, HandlersMutexFree, FirstHandler
  <2> HIDE DEF f
  <2>2. \A g \in Filters : handlers'[g] # {} => g \in entries'
    BY <1>0, <2>1 DEF DeafInv
  <2>3. ASSUME connected PROVE NoDeafHandler'
    <3>1. CASE handlers[f] = {}
      <4>1. Send(Subscribe(f)) /\ Subscribe(f) \in Packet
        BY <2>1, <2>3, <3>1, PacketKinds DEF SendIf
      <4>2. Subscribe(f) \notin refused' => SubscribedAfter(f, subs', out')
        BY <2>1, <4>1, <1>a, PacketKinds
      <4>3. ASSUME NEW g \in Filters, g # f, Subscribe(g) \notin refused'
            PROVE  /\ Subscribe(g) \notin refused
                   /\ SubscribedAfter(g, subs, out) => SubscribedAfter(g, subs', out')
        BY <2>1, <4>1, <4>3, <1>a, <1>b, PacketKinds
      <4>4. QED BY <1>0, <2>1, <2>3, <4>2, <4>3 DEF DeafInv, NoDeafHandler
    <3>2. CASE handlers[f] # {}
      <4>1. UNCHANGED sendVars
        BY <2>1, <3>2 DEF SendIf
      <4> QED BY <1>0, <2>1, <2>3, <3>2, <4>1 DEF DeafInv, NoDeafHandler
    <3>3. QED BY <3>1, <3>2
  <2>4. ~connected => NoDeafHandler'
    BY <2>1 DEF NoDeafHandler
  <2>5. QED BY <2>1, <2>2, <2>3, <2>4 DEF DeafInv
<1>11. ASSUME NEW h \in Handlers, UnregisterHandler(h) PROVE DeafInv'
  <2> DEFINE f == FilterOf[h]
  <2>1. /\ f \in Filters /\ phase \notin {"subscribing", "flushing"} /\ h \in handlers[f]
        /\ handlers' = [handlers EXCEPT ![f] = @ \ {h}]
        /\ SendIf(connected /\ handlers[f] = {h}, Unsubscribe(f))
        /\ UNCHANGED <<phase, todo, connected, entries, subs>>
    BY <1>11, ConstantsTyped DEF UnregisterHandler, HandlersMutexFree
  <2> HIDE DEF f
  <2>2. \A g \in Filters : handlers'[g] # {} => handlers[g] # {} /\ g \in entries'
    BY <1>0, <2>1 DEF DeafInv
  <2>3. ASSUME connected PROVE NoDeafHandler'
    <3>1. CASE handlers[f] = {h}
      <4>1. Send(Unsubscribe(f)) /\ Unsubscribe(f) \in Packet /\ handlers'[f] = {}
        BY <1>0, <2>1, <2>3, <3>1, PacketKinds DEF SendIf
      <4>2. ASSUME NEW g \in Filters, g # f, Subscribe(g) \notin refused'
            PROVE  /\ Subscribe(g) \notin refused
                   /\ SubscribedAfter(g, subs, out) => SubscribedAfter(g, subs', out')
        BY <2>1, <4>1, <4>2, <1>a, <1>b, PacketKinds
      <4>3. QED BY <2>2, <2>1, <2>3, <4>1, <4>2 DEF DeafInv, NoDeafHandler
    <3>2. CASE handlers[f] # {h}
      <4>1. UNCHANGED sendVars
        BY <2>1, <3>2 DEF SendIf
      <4> QED BY <2>1, <2>2, <2>3, <3>2, <4>1 DEF DeafInv, NoDeafHandler
    <3>3. QED BY <3>1, <3>2
  <2>4. ~connected => NoDeafHandler'
    BY <2>1 DEF NoDeafHandler
  <2>5. QED BY <2>1, <2>2, <2>3, <2>4 DEF DeafInv
<1>12. CASE SyncSend
  <2>1. /\ out # <<>> /\ out' = Tail(out) /\ Head(out) \in Packet
        /\ UNCHANGED <<phase, todo, connected, entries, handlers, refused>>
        /\ \/ Head(out).op = "subscribe" /\ subs' = subs \cup {Head(out).arg}
           \/ Head(out).op = "unsubscribe" /\ subs' = subs \ {Head(out).arg}
           \/ Head(out).op = "publish" /\ subs' = subs
    BY <1>12, <1>0, SeqOps DEF SyncSend
  <2>2. ASSUME NEW f \in Filters, SubscribedAfter(f, subs, out)
        PROVE  SubscribedAfter(f, subs', out')
    <3>1. f \in subs /\ Head(out) # Unsubscribe(f) => f \in subs'
      BY <2>1 DEF Unsubscribe, Packet
    <3>2. Head(out) = Subscribe(f) => f \in subs'
      BY <2>1 DEF Subscribe
    <3>3. QED BY <1>0, <2>1, <2>2, <3>1, <3>2, ReadKeepsSubscribed
  <2>3. QED BY <2>1, <2>2 DEF DeafInv, NoDeafHandler
<1>13. CASE \/ SpawnMainLoop \/ MainLoopEnd \/ SyncReceive \/ LoseConnection \/ Worker
            \/ (\E m \in Messages : RemotePublish(m))
            \/ (\E t \in Threads : PublishBuffer(t) \/ \E m \in Messages : PublishReadsFlag(t, m))
            \/ UNCHANGED vars
  BY <1>13, <1>1 DEF SpawnMainLoop, MainLoopEnd, SyncReceive, LoseConnection, Worker, TakeMessage,
     DropUnparsable, Distribute, RemotePublish, PublishBuffer, PublishReadsFlag
<1>14. QED
  BY <1>3, <1>4, <1>5, <1>6, <1>7, <1>8, <1>9, <1>10, <1>11, <1>12, <1>13
     DEF Next, Connecting, Publishing, Registering, MainLoop

\* A registered handler is never left without a subscription: connecting,
\* registering and unregistering in any order and from any threads, the last
\* packet about a filter with a handler is a SUBSCRIBE, unless the library has
\* refused it.
THEOREM HandlersAreSubscribed == Spec => []NoDeafHandler
<1>1. Init => DeafInv
  BY DEF Init, DeafInv, NoDeafHandler
<1>2. TypeOK /\ DeafInv /\ [Next]_vars => DeafInv'
  BY DeafStep
<1>3. DeafInv => NoDeafHandler
  BY DEF DeafInv
<1>4. QED BY <1>1, <1>2, <1>3, TypeCorrect, PTL DEF Spec

-----------------------------------------------------------------------------
(* How often a message occurs                                              *)

\* The smallest sets.
LEMMA SmallCounts == Cardinality({}) = 0 /\ \A x : Cardinality({x}) = 1
<1>1. Cardinality({}) = 0
  BY FS_EmptySet
<1>2. \A x : Cardinality({x}) = 1
  BY FS_Singleton
<1> QED BY <1>1, <1>2

\* Where m lies in s behind the first k places
PlacesBehind(m, s, k) == {i \in (k + 1)..Len(s) : s[i] = m}

\* The places in a sequence can be counted.
LEMMA PlacesFinite ==
  ASSUME NEW S, NEW s \in Seq(S), NEW m, NEW k \in Nat
  PROVE  IsFiniteSet(PlacesBehind(m, s, k)) /\ Cardinality(PlacesBehind(m, s, k)) \in Nat
<1>1. IsFiniteSet((k + 1)..Len(s))
  BY FS_Interval
<1>2. IsFiniteSet(PlacesBehind(m, s, k))
  BY <1>1, FS_Subset DEF PlacesBehind
<1> QED BY <1>2, FS_CardinalityType

\* What occurs in a sequence has a place in it.
LEMMA OccurrencesInNat ==
  ASSUME NEW S, NEW s \in Seq(S), NEW m
  PROVE  /\ Occurrences(m, s) \in Nat
         /\ Occurrences(m, s) = Cardinality(PlacesBehind(m, s, 0))
         /\ Occurrences(m, s) > 0 => \E i \in 1..Len(s) : s[i] = m
<1>1. PlacesBehind(m, s, 0) = {i \in 1..Len(s) : s[i] = m}
  BY DEF PlacesBehind
<1>2. Occurrences(m, s) = Cardinality(PlacesBehind(m, s, 0))
  BY <1>1 DEF Occurrences
<1>3. Occurrences(m, s) > 0 => PlacesBehind(m, s, 0) # {}
  BY <1>2, FS_EmptySet
<1> QED BY <1>1, <1>2, <1>3, PlacesFinite

\* A sequence without its first k elements keeps the places behind them.
LEMMA OccurrencesInRest ==
  ASSUME NEW S, NEW s \in Seq(S), NEW k \in 0..Len(s), NEW r \in Seq(S),
         Len(r) = Len(s) - k, \A i \in 1..Len(r) : r[i] = s[i + k], NEW m
  PROVE  Occurrences(m, r) = Cardinality(PlacesBehind(m, s, k))
<1> DEFINE P == PlacesBehind(m, r, 0)
           Q == PlacesBehind(m, s, k)
           shift == [i \in P |-> i + k]
<1>1. \A i \in P : i \in 1..Len(r) /\ r[i] = m
  BY DEF PlacesBehind
<1>2. shift \in [P -> Q]
  BY <1>1 DEF PlacesBehind
<1>3. \A i, j \in P : shift[i] = shift[j] => i = j
  BY <1>1
<1>4. \A j \in Q : \E i \in P : shift[i] = j
  <2> SUFFICES ASSUME NEW j \in Q PROVE \E i \in P : shift[i] = j
    OBVIOUS
  <2>1. j \in (k + 1)..Len(s) /\ s[j] = m
    BY DEF PlacesBehind
  <2>2. j - k \in 1..Len(r) /\ r[j - k] = s[(j - k) + k] /\ (j - k) + k = j
    BY <2>1
  <2>3. j - k \in P
    BY <2>1, <2>2 DEF PlacesBehind
  <2> QED BY <2>2, <2>3
<1> HIDE DEF P, Q, shift
<1>5. ExistsBijection(P, Q)
  <2>1. shift \in Injection(P, Q)
    BY <1>2, <1>3 DEF Injection, IsInjective
  <2>2. shift \in Surjection(P, Q)
    BY <1>2, <1>4 DEF Surjection
  <2> QED BY <2>1, <2>2 DEF ExistsBijection, Bijection
<1>6. IsFiniteSet(P) /\ Occurrences(m, r) = Cardinality(P)
  BY PlacesFinite, OccurrencesInNat DEF P
<1>7. Cardinality(Q) = Cardinality(P)
  BY <1>5, <1>6, FS_Bijection
<1> QED BY <1>6, <1>7 DEF Q

\* Leaving out one more element takes its place away.
LEMMA PlacesBehindNext ==
  ASSUME NEW S, NEW s \in Seq(S), NEW k \in Nat, k < Len(s), NEW m
  PROVE  Cardinality(PlacesBehind(m, s, k))
           = Cardinality(PlacesBehind(m, s, k + 1)) + (IF s[k + 1] = m THEN 1 ELSE 0)
<1>1. k + 1 \notin PlacesBehind(m, s, k + 1)
  BY DEF PlacesBehind
<1>2. IsFiniteSet(PlacesBehind(m, s, k + 1)) /\ Cardinality(PlacesBehind(m, s, k + 1)) \in Nat
  BY PlacesFinite
<1>3. CASE s[k + 1] = m
  <2>1. PlacesBehind(m, s, k) = PlacesBehind(m, s, k + 1) \cup {k + 1}
    BY <1>3 DEF PlacesBehind
  <2> QED BY <1>1, <1>2, <1>3, <2>1, FS_AddElement
<1>4. CASE s[k + 1] # m
  <2>1. PlacesBehind(m, s, k) = PlacesBehind(m, s, k + 1)
    BY <1>4 DEF PlacesBehind
  <2> QED BY <1>2, <1>4, <2>1
<1> QED BY <1>3, <1>4

\* An appended element gets a place of its own.
LEMMA PlacesBehindAppend ==
  ASSUME NEW S, NEW s \in Seq(S), NEW k \in 0..Len(s), NEW e \in S, NEW m
  PROVE  Cardinality(PlacesBehind(m, Append(s, e), k))
           = Cardinality(PlacesBehind(m, s, k)) + (IF e = m THEN 1 ELSE 0)
<1>1. /\ Len(Append(s, e)) = Len(s) + 1 /\ Append(s, e)[Len(s) + 1] = e
      /\ \A i \in 1..Len(s) : Append(s, e)[i] = s[i]
  OBVIOUS
<1>2. Len(s) + 1 \notin PlacesBehind(m, s, k)
  BY DEF PlacesBehind
<1>3. IsFiniteSet(PlacesBehind(m, s, k)) /\ Cardinality(PlacesBehind(m, s, k)) \in Nat
  BY PlacesFinite
<1>4. CASE e = m
  <2>1. PlacesBehind(m, Append(s, e), k) = PlacesBehind(m, s, k) \cup {Len(s) + 1}
    BY <1>1, <1>4 DEF PlacesBehind
  <2> QED BY <1>2, <1>3, <1>4, <2>1, FS_AddElement
<1>5. CASE e # m
  <2>1. PlacesBehind(m, Append(s, e), k) = PlacesBehind(m, s, k)
    BY <1>1, <1>5 DEF PlacesBehind
  <2> QED BY <1>3, <1>5, <2>1
<1> QED BY <1>4, <1>5

\* One occurrence more for the element that is appended, one less for the one
\* that is taken, none at all in an empty sequence.
LEMMA OccurrencesChange ==
  ASSUME NEW S, NEW s \in Seq(S), NEW m
  PROVE  /\ \A e \in S : Occurrences(m, Append(s, e))
                           = Occurrences(m, s) + (IF e = m THEN 1 ELSE 0)
         /\ s # <<>> => Occurrences(m, s)
                          = Occurrences(m, Tail(s)) + (IF Head(s) = m THEN 1 ELSE 0)
         /\ Occurrences(m, <<>>) = 0
<1>1. ASSUME NEW e \in S
      PROVE  Occurrences(m, Append(s, e)) = Occurrences(m, s) + (IF e = m THEN 1 ELSE 0)
  <2>1. Append(s, e) \in Seq(S) /\ 0 \in 0..Len(s)
    OBVIOUS
  <2>2. /\ Occurrences(m, Append(s, e)) = Cardinality(PlacesBehind(m, Append(s, e), 0))
        /\ Occurrences(m, s) = Cardinality(PlacesBehind(m, s, 0))
    BY <2>1, OccurrencesInNat
  <2> QED BY <2>1, <2>2, PlacesBehindAppend
<1>2. ASSUME s # <<>>
      PROVE  Occurrences(m, s) = Occurrences(m, Tail(s)) + (IF Head(s) = m THEN 1 ELSE 0)
  <2>1. /\ Len(s) \in Nat /\ Len(s) >= 1 /\ Head(s) = s[1] /\ Tail(s) \in Seq(S)
        /\ Len(Tail(s)) = Len(s) - 1 /\ \A i \in 1..Len(Tail(s)) : Tail(s)[i] = s[i + 1]
    BY <1>2, HeadTailProperties, EmptySeq
  <2>2. Occurrences(m, Tail(s)) = Cardinality(PlacesBehind(m, s, 1))
    <3> DEFINE r == Tail(s)
    <3>1. /\ 1 \in 0..Len(s) /\ r \in Seq(S)
          /\ Len(r) = Len(s) - 1 /\ \A i \in 1..Len(r) : r[i] = s[i + 1]
      BY <2>1
    <3> HIDE DEF r
    <3>2. Occurrences(m, r) = Cardinality(PlacesBehind(m, s, 1))
      BY <3>1, OccurrencesInRest
    <3> QED BY <3>2 DEF r
  <2>3. Cardinality(PlacesBehind(m, s, 0))
          = Cardinality(PlacesBehind(m, s, 0 + 1)) + (IF s[0 + 1] = m THEN 1 ELSE 0)
    BY <2>1, PlacesBehindNext
  <2> QED BY <2>1, <2>2, <2>3, OccurrencesInNat
<1>3. Occurrences(m, <<>>) = 0
  BY SmallCounts DEF Occurrences
<1> QED BY <1>1, <1>2, <1>3

-----------------------------------------------------------------------------
(* What is published is in one place                                       *)

\* A thread holds only messages of its own.
HoldsItsOwn == \A t \in Threads : holding[t] # None => AuthorOf[holding[t]] = t

Held(m) == IF holding[AuthorOf[m]] = m THEN 1 ELSE 0

Lost(m) == IF PublishOf(m) \in refused THEN 1 ELSE 0

\* How often m is in its thread's hand, buffered and not flushed yet, on the
\* way to the broker, at the broker, and refused
Count(m) ==
  Held(m)
    + Cardinality(PlacesBehind(m, before, flushed))
    + Occurrences(PublishOf(m), out)
    + Occurrences(m, arrived)
    + Lost(m)

CountInv ==
  /\ HoldsItsOwn
  /\ flushed <= Len(before)
  /\ \A m \in Messages : AuthorOf[m] # Remote =>
       Count(m) = IF m \in published THEN 1 ELSE 0

\* Count is what PublishedExactlyOnce counts.
LEMMA CountCounts ==
  ASSUME TypeOK, CountInv
  PROVE  PublishedExactlyOnce
<1> SUFFICES ASSUME NEW m \in Messages, AuthorOf[m] # Remote
             PROVE  Cardinality({t \in Threads : holding[t] = m})
                      + Occurrences(m, SubSeq(before, flushed + 1, Len(before)))
                      + Occurrences(PublishOf(m), out)
                      + Occurrences(m, arrived)
                      + (IF PublishOf(m) \in refused THEN 1 ELSE 0) = IF m \in published THEN 1 ELSE 0
  BY DEF PublishedExactlyOnce
<1>1. AuthorOf[m] \in Threads /\ m # None
  BY ConstantsTyped
<1>2. Cardinality({t \in Threads : holding[t] = m}) = Held(m)
  <2>1. CASE holding[AuthorOf[m]] = m
    <3>1. {t \in Threads : holding[t] = m} = {AuthorOf[m]}
      BY <1>1, <2>1 DEF CountInv, HoldsItsOwn
    <3> QED BY <2>1, <3>1, SmallCounts DEF Held
  <2>2. CASE holding[AuthorOf[m]] # m
    <3>1. {t \in Threads : holding[t] = m} = {}
      BY <1>1, <2>2 DEF CountInv, HoldsItsOwn
    <3> QED BY <2>2, <3>1, SmallCounts DEF Held
  <2> QED BY <2>1, <2>2
<1>3. Occurrences(m, SubSeq(before, flushed + 1, Len(before)))
        = Cardinality(PlacesBehind(m, before, flushed))
  <2>1. before \in Seq(Messages) /\ flushed \in 0..Len(before) /\ Len(before) \in Nat
    BY SeqOps DEF TypeOK, CountInv
  <2> DEFINE rest == SubSeq(before, flushed + 1, Len(before))
  <2>2. \A i \in flushed + 1..Len(before) : before[i] \in Messages
    BY <2>1, SeqOps
  <2>3. /\ rest \in Seq(Messages)
        /\ Len(rest) = Len(before) - flushed
        /\ \A i \in 1..Len(rest) : rest[i] = before[i + flushed]
    BY <2>1, <2>2, SubSeqProperties
  <2> HIDE DEF rest
  <2>4. Occurrences(m, rest) = Cardinality(PlacesBehind(m, before, flushed))
    BY <2>1, <2>3, OccurrencesInRest
  <2> QED BY <2>4 DEF rest
<1>4. Count(m) = IF m \in published THEN 1 ELSE 0
  BY DEF CountInv
<1> QED BY <1>2, <1>3, <1>4 DEF Count, Lost

\* Every step keeps what is published in one place.
LEMMA CountStep ==
  ASSUME TypeOK, CountInv, [Next]_vars
  PROVE  CountInv'
<1> USE DEF vars, connectVars, handlerVars, publishVars, sendVars, brokerVars, incomingVars
<1>0. /\ before \in Seq(Messages) /\ out \in Seq(Packet) /\ arrived \in Seq(Messages)
      /\ holding \in [Threads -> Messages \cup {None}] /\ flushed \in 0..Len(before)
      /\ Len(before) \in Nat /\ published \subseteq Messages
      /\ \A m \in Messages : AuthorOf[m] # Remote => AuthorOf[m] \in Threads
      /\ None \notin Messages
  BY ConstantsTyped, SeqOps DEF TypeOK, CountInv
<1>1. ASSUME NEW m \in Messages
      PROVE  /\ Cardinality(PlacesBehind(m, before, flushed)) \in Nat
             /\ Occurrences(PublishOf(m), out) \in Nat
             /\ Occurrences(m, arrived) \in Nat
             /\ Held(m) \in Nat /\ Held(m)' \in Nat /\ (UNCHANGED holding => Held(m)' = Held(m))
             /\ Lost(m) \in Nat /\ Lost(m)' \in Nat /\ (UNCHANGED refused => Lost(m)' = Lost(m))
  BY <1>0, PlacesFinite, OccurrencesInNat DEF Held, Lost
<1>2. CASE UNCHANGED <<before, flushed, holding, sendVars, arrived, published>>
  BY <1>1, <1>2 DEF CountInv, HoldsItsOwn, Count
<1>c. ASSUME NEW p \in Packet, Send(p), NEW m \in Messages, p # PublishOf(m)
      PROVE  Occurrences(PublishOf(m), out') = Occurrences(PublishOf(m), out) /\ Lost(m)' = Lost(m)
  <2>1. Occurrences(PublishOf(m), Append(out, p)) = Occurrences(PublishOf(m), out)
    <3>1. Occurrences(PublishOf(m), Append(out, p))
            = Occurrences(PublishOf(m), out) + (IF p = PublishOf(m) THEN 1 ELSE 0)
      BY <1>0, OccurrencesChange
    <3> QED BY <1>1, <1>c, <3>1
  <2>2. CASE out' = Append(out, p) /\ refused' = refused \ {p}
    <3>1. Lost(m)' = Lost(m)
      BY <1>c, <2>2 DEF Lost
    <3> QED BY <2>1, <2>2, <3>1
  <2>3. CASE out' = out /\ refused' = refused \cup {p}
    <3>1. Lost(m)' = Lost(m)
      BY <1>c, <2>3 DEF Lost
    <3> QED BY <2>3, <3>1
  <2> QED BY <1>c, <2>2, <2>3, SendEffect
<1>3. ASSUME NEW p \in Packet, \A m \in Messages : p # PublishOf(m), Send(p),
             UNCHANGED <<before, flushed, holding, arrived, published>>
      PROVE  CountInv'
  <2>1. ASSUME NEW m \in Messages
        PROVE  /\ Occurrences(PublishOf(m), out') = Occurrences(PublishOf(m), out)
               /\ Lost(m)' = Lost(m)
    BY <1>3, <1>c
  <2> QED BY <1>1, <1>3, <2>1 DEF CountInv, HoldsItsOwn, Count
<1>a. ASSUME NEW n \in Messages, Lost(n) = 0, Send(PublishOf(n)), NEW m \in Messages
      PROVE  Occurrences(PublishOf(m), out') + Lost(m)'
               = Occurrences(PublishOf(m), out) + Lost(m) + (IF n = m THEN 1 ELSE 0)
  <2>1. (PublishOf(n) = PublishOf(m) <=> n = m) /\ PublishOf(n) \notin refused /\ PublishOf(n) \in Packet
    BY <1>a, PacketKinds DEF PublishOf, Lost
  <2>2. CASE out' = Append(out, PublishOf(n)) /\ refused' = refused \ {PublishOf(n)}
    <3>1. Occurrences(PublishOf(m), out') = Occurrences(PublishOf(m), out) + (IF n = m THEN 1 ELSE 0)
      BY <1>0, <2>1, <2>2, OccurrencesChange
    <3>2. Lost(m)' = Lost(m)
      BY <2>1, <2>2 DEF Lost
    <3>3. CASE n = m
      BY <1>1, <3>1, <3>2, <3>3
    <3>4. CASE n # m
      BY <1>1, <3>1, <3>2, <3>4
    <3> QED BY <3>3, <3>4
  <2>3. CASE out' = out /\ refused' = refused \cup {PublishOf(n)}
    <3>1. Lost(m)' = Lost(m) + (IF n = m THEN 1 ELSE 0)
      BY <2>1, <2>3 DEF Lost
    <3>3. CASE n = m
      BY <1>1, <2>3, <3>1, <3>3
    <3>4. CASE n # m
      BY <1>1, <2>3, <3>1, <3>4
    <3> QED BY <3>3, <3>4
  <2> QED BY <1>a, <2>2, <2>3, SendEffect
<1>b. ASSUME NEW p, Send(p) PROVE out' \in Seq(Packet) \/ p \notin Packet
  BY <1>b, SendTypes
<1>4. CASE FlushOne
  <2> DEFINE n == before[flushed + 1]
  <2>1. /\ flushed < Len(before) /\ n \in Messages /\ PublishOf(n) \in Packet
        /\ Send(PublishOf(n)) /\ flushed' = flushed + 1
        /\ UNCHANGED <<before, holding, arrived, published>>
    BY <1>0, <1>4, SeqOps, PacketKinds DEF FlushOne
  <2> HIDE DEF n
  <2>2. ASSUME NEW m \in Messages, AuthorOf[m] # Remote PROVE Count(m)' = Count(m)
    <3>1. Cardinality(PlacesBehind(m, before, flushed))
            = Cardinality(PlacesBehind(m, before', flushed')) + (IF n = m THEN 1 ELSE 0)
      BY <1>0, <2>1, PlacesBehindNext DEF n
    <3>2. Cardinality(PlacesBehind(m, before', flushed')) \in Nat /\ Occurrences(PublishOf(m), out') \in Nat
      BY <1>0, <1>b, <2>1, PlacesFinite, OccurrencesInNat
    <3>3. Count(m) \in {0, 1}
      BY <2>2 DEF CountInv
    <3>8. CASE n = m
      <4>1. Lost(n) = 0
        BY <1>1, <3>1, <3>2, <3>3, <3>8 DEF Count
      <4>2. Occurrences(PublishOf(m), out') + Lost(m)' = Occurrences(PublishOf(m), out) + Lost(m) + 1
        BY <1>a, <2>1, <3>8, <4>1
      <4>3. Held(m)' = Held(m) /\ arrived' = arrived
        BY <1>1, <2>1
      <4>4. Cardinality(PlacesBehind(m, before, flushed)) = Cardinality(PlacesBehind(m, before', flushed')) + 1
        BY <3>1, <3>8
      <4> QED BY <1>1, <3>2, <4>2, <4>3, <4>4 DEF Count
    <3>9. CASE ~(n = m)
      <4>1. Occurrences(PublishOf(m), out') = Occurrences(PublishOf(m), out) /\ Lost(m)' = Lost(m)
        <5>1. PublishOf(n) # PublishOf(m)
          BY <3>9 DEF PublishOf
        <5> QED BY <1>c, <2>1, <5>1
      <4> QED BY <1>1, <2>1, <3>1, <3>2, <3>9, <4>1 DEF Count
    <3> QED BY <3>8, <3>9
  <2> QED BY <1>0, <2>1, <2>2 DEF CountInv, HoldsItsOwn
<1>5. CASE FlushEnd
  <2>1. flushed = Len(before) /\ before' = <<>> /\ flushed' = 0
        /\ UNCHANGED <<holding, sendVars, arrived, published>>
    BY <1>5 DEF FlushEnd
  <2>2. ASSUME NEW m \in Messages PROVE Count(m)' = Count(m)
    <3>1. PlacesBehind(m, before, flushed) = {} /\ PlacesBehind(m, before', flushed') = {}
      BY <1>0, <2>1 DEF PlacesBehind
    <3> QED BY <1>1, <2>1, <3>1 DEF Count
  <2> QED BY <2>1, <2>2 DEF CountInv, HoldsItsOwn
<1>6. ASSUME NEW t \in Threads, PublishBuffer(t) PROVE CountInv'
  <2> DEFINE n == holding[t]
  <2>1. /\ n \in Messages /\ AuthorOf[n] = t /\ before' = Append(before, n)
        /\ holding' = [holding EXCEPT ![t] = None]
        /\ UNCHANGED <<flushed, sendVars, arrived, published>>
    BY <1>0, <1>6 DEF PublishBuffer, CountInv, HoldsItsOwn
  <2> HIDE DEF n
  <2>2. ASSUME NEW m \in Messages, AuthorOf[m] # Remote PROVE Count(m)' = Count(m)
    <3>1. Cardinality(PlacesBehind(m, before', flushed'))
            = Cardinality(PlacesBehind(m, before, flushed)) + (IF n = m THEN 1 ELSE 0)
      BY <1>0, <2>1, PlacesBehindAppend
    <3>2. Held(m) = Held(m)' + (IF n = m THEN 1 ELSE 0)
      <4>1. CASE n = m
        BY <1>0, <2>1, <4>1 DEF n, Held
      <4>2. CASE n # m
        BY <1>0, <2>1, <2>2, <4>2 DEF n, Held
      <4> QED BY <4>1, <4>2
    <3>8. CASE n = m
      BY <1>1, <2>1, <3>1, <3>2, <3>8 DEF Count
    <3>9. CASE ~(n = m)
      BY <1>1, <2>1, <3>1, <3>2, <3>9 DEF Count
    <3> QED BY <3>8, <3>9
  <2>3. HoldsItsOwn'
    BY <1>0, <2>1 DEF CountInv, HoldsItsOwn
  <2>4. flushed' <= Len(before')
    BY <1>0, <2>1
  <2> QED BY <2>1, <2>2, <2>3, <2>4 DEF CountInv
<1>7. ASSUME NEW t \in Threads, NEW n \in Messages, PublishDirect(t, n) PROVE CountInv'
  <2>1. /\ n \notin published /\ published' = published \cup {n}
        /\ Send(PublishOf(n)) /\ PublishOf(n) \in Packet /\ AuthorOf[n] # Remote
        /\ UNCHANGED <<before, flushed, holding, arrived>>
    BY <1>7, PacketKinds, ConstantsTyped DEF PublishDirect
  <2>2. ASSUME NEW m \in Messages, AuthorOf[m] # Remote
        PROVE  Count(m)' = IF m \in published' THEN 1 ELSE 0
    <3>1. Occurrences(PublishOf(m), out') + Lost(m)'
            = Occurrences(PublishOf(m), out) + Lost(m) + (IF n = m THEN 1 ELSE 0)
      <4>1. Count(n) = 0
        BY <2>1 DEF CountInv
      <4>2. Lost(n) = 0
        <5>1. /\ Cardinality(PlacesBehind(n, before, flushed)) \in Nat /\ Held(n) \in Nat /\ Lost(n) \in Nat
              /\ Occurrences(PublishOf(n), out) \in Nat /\ Occurrences(n, arrived) \in Nat
          BY <1>1
        <5> QED BY <4>1, <5>1 DEF Count
      <4>3. CASE n = m
        BY <1>a, <2>1, <4>2, <4>3
      <4>4. CASE n # m
        <5>1. PublishOf(n) # PublishOf(m)
          BY <4>4 DEF PublishOf
        <5>2. Occurrences(PublishOf(m), out') = Occurrences(PublishOf(m), out) /\ Lost(m)' = Lost(m)
          BY <1>c, <2>1, <2>2, <5>1
        <5>3. Occurrences(PublishOf(m), out) \in Nat /\ Lost(m) \in Nat
          BY <1>1
        <5> QED BY <4>4, <5>2, <5>3
      <4> QED BY <4>3, <4>4
    <3>2. /\ Count(m) = IF m \in published THEN 1 ELSE 0
          /\ Occurrences(PublishOf(m), out') \in Nat
      BY <1>b, <2>1, <2>2, OccurrencesInNat DEF CountInv
    <3>3. Held(m)' = Held(m) /\ UNCHANGED <<before, flushed, arrived>>
      BY <1>1, <2>1
    <3>4. CASE n = m
      <4>1. Occurrences(PublishOf(m), out') + Lost(m)' = Occurrences(PublishOf(m), out) + Lost(m) + 1
        BY <3>1, <3>4
      <4>2. Count(m) = 0 /\ m \in published'
        BY <2>1, <3>2, <3>4
      <4> QED BY <1>1, <3>2, <3>3, <4>1, <4>2 DEF Count
    <3>5. CASE n # m
      <4>1. Occurrences(PublishOf(m), out') + Lost(m)' = Occurrences(PublishOf(m), out) + Lost(m)
        BY <1>1, <3>1, <3>5
      <4>2. Count(m) = IF m \in published' THEN 1 ELSE 0
        BY <2>1, <3>2, <3>5
      <4> QED BY <1>1, <3>2, <3>3, <4>1, <4>2 DEF Count
    <3> QED BY <3>4, <3>5
  <2> QED BY <2>1, <2>2 DEF CountInv, HoldsItsOwn
<1>8. ASSUME NEW t \in Threads, NEW n \in Messages, PublishReadsFlag(t, n) PROVE CountInv'
  <2>1. /\ n \notin published /\ published' = published \cup {n} /\ AuthorOf[n] = t
        /\ holding[t] = None /\ holding' = [holding EXCEPT ![t] = n]
        /\ UNCHANGED <<before, flushed, sendVars, arrived>>
    BY <1>8 DEF PublishReadsFlag, ReadsNotConnected
  <2>2. ASSUME NEW m \in Messages, AuthorOf[m] # Remote
        PROVE  Count(m)' = IF m \in published' THEN 1 ELSE 0
    <3>1. Held(m)' = Held(m) + (IF n = m THEN 1 ELSE 0)
      <4>1. CASE n = m
        BY <1>0, <2>1, <4>1 DEF Held
      <4>2. CASE n # m
        BY <1>0, <2>1, <2>2, <4>2 DEF Held
      <4> QED BY <4>1, <4>2
    <3>2. Count(m) = IF m \in published THEN 1 ELSE 0
      BY <2>2 DEF CountInv
    <3>3. CASE n = m
      BY <1>1, <2>1, <3>1, <3>2, <3>3 DEF Count
    <3>4. CASE n # m
      BY <1>1, <2>1, <3>1, <3>2, <3>4 DEF Count
    <3> QED BY <3>3, <3>4
  <2>3. HoldsItsOwn'
    BY <1>0, <2>1 DEF CountInv, HoldsItsOwn
  <2> QED BY <2>1, <2>2, <2>3 DEF CountInv
<1>9. CASE SyncSend
  <2> DEFINE p == Head(out)
  <2>1. /\ out # <<>> /\ out' = Tail(out) /\ p \in Packet
        /\ IF p.op = "publish" THEN arrived' = Append(arrived, p.arg) ELSE arrived' = arrived
        /\ UNCHANGED <<before, flushed, holding, refused, published>>
    <3>1. p \in Packet
      BY <1>0, <1>9, SeqOps DEF SyncSend
    <3> QED BY <1>9, <3>1 DEF SyncSend
  <2> HIDE DEF p
  <2>2. ASSUME NEW m \in Messages PROVE Count(m)' = Count(m)
    <3>1. Occurrences(PublishOf(m), out)
            = Occurrences(PublishOf(m), out') + (IF p = PublishOf(m) THEN 1 ELSE 0)
      BY <1>0, <2>1, OccurrencesChange DEF p
    <3>2. Occurrences(m, arrived') = Occurrences(m, arrived) + (IF p = PublishOf(m) THEN 1 ELSE 0)
      <4>1. CASE p.op = "publish"
        <5>1. p.arg \in Messages /\ (p = PublishOf(m) <=> p.arg = m)
          BY <2>1, <4>1 DEF Packet, PublishOf
        <5>2. arrived' = Append(arrived, p.arg)
          BY <2>1, <4>1
        <5>3. Occurrences(m, Append(arrived, p.arg)) = Occurrences(m, arrived) + (IF p.arg = m THEN 1 ELSE 0)
          BY <1>0, <5>1, OccurrencesChange
        <5>4. CASE p.arg = m
          BY <5>1, <5>2, <5>3, <5>4
        <5>5. CASE p.arg # m
          BY <5>1, <5>2, <5>3, <5>5
        <5> QED BY <5>4, <5>5
      <4>2. CASE p.op # "publish"
        <5>1. p # PublishOf(m)
          BY <4>2 DEF PublishOf
        <5> QED BY <1>1, <2>1, <4>2, <5>1
      <4> QED BY <4>1, <4>2
    <3>3. Occurrences(PublishOf(m), out') \in Nat
      <4>1. out' \in Seq(Packet)
        BY <1>0, <2>1, SeqOps
      <4> QED BY <4>1, OccurrencesInNat
    <3>8. CASE p = PublishOf(m)
      BY <1>1, <2>1, <3>1, <3>2, <3>3, <3>8 DEF Count
    <3>9. CASE ~(p = PublishOf(m))
      BY <1>1, <2>1, <3>1, <3>2, <3>3, <3>9 DEF Count
    <3> QED BY <3>8, <3>9
  <2> QED BY <2>1, <2>2 DEF CountInv, HoldsItsOwn
<1>10. ASSUME NEW n \in Messages, RemotePublish(n) PROVE CountInv'
  <2>1. /\ AuthorOf[n] = Remote /\ published' = published \cup {n}
        /\ UNCHANGED <<before, flushed, holding, sendVars, arrived>>
    BY <1>10 DEF RemotePublish
  <2> QED BY <1>1, <2>1 DEF CountInv, HoldsItsOwn, Count
<1>11. ASSUME NEW f \in Filters, ConnectSubscribe(f) PROVE CountInv'
  BY <1>3, <1>11, PacketKinds DEF ConnectSubscribe
<1>12. ASSUME NEW h \in Handlers, RegisterHandler(h) \/ UnregisterHandler(h) PROVE CountInv'
  <2> DEFINE f == FilterOf[h]
  <2>1. /\ f \in Filters
        /\ UNCHANGED sendVars \/ Send(Subscribe(f)) \/ Send(Unsubscribe(f))
        /\ UNCHANGED <<before, flushed, holding, arrived, published>>
    BY <1>12, ConstantsTyped DEF RegisterHandler, UnregisterHandler, SendIf
  <2> HIDE DEF f
  <2>2. CASE UNCHANGED sendVars
    BY <1>2, <2>1, <2>2
  <2>3. CASE Send(Subscribe(f))
    BY <1>3, <2>1, <2>3, PacketKinds
  <2>4. CASE Send(Unsubscribe(f))
    BY <1>3, <2>1, <2>4, PacketKinds
  <2> QED BY <2>1, <2>2, <2>3, <2>4
<1>13. CASE \/ ConnectFail \/ ConnectBegin \/ SetConnected \/ Disconnect \/ SpawnMainLoop \/ MainLoopEnd
            \/ SyncReceive \/ LoseConnection \/ Worker \/ UNCHANGED vars
  BY <1>2, <1>13 DEF ConnectFail, ConnectBegin, SetConnected, Disconnect, SpawnMainLoop, MainLoopEnd,
     SyncReceive, LoseConnection, Worker, TakeMessage, DropUnparsable, Distribute
<1>14. QED
  BY <1>4, <1>5, <1>6, <1>7, <1>8, <1>9, <1>10, <1>11, <1>12, <1>13
     DEF Next, Connecting, Publishing, Registering, MainLoop

\* Connecting, losing the race for the flag, flushing and sending: a message
\* given to publish() is never sent twice, and only lost before it is at the
\* broker when the client library refuses it.
THEOREM LostOnlyWhenRefused == Spec => []PublishedExactlyOnce
<1>1. Init => CountInv
  <2> SUFFICES ASSUME Init PROVE CountInv
    OBVIOUS
  <2>1. HoldsItsOwn /\ flushed <= Len(before)
    BY DEF Init, HoldsItsOwn
  <2>2. ASSUME NEW m \in Messages, AuthorOf[m] # Remote PROVE Count(m) = 0 /\ m \notin published
    <3>1. AuthorOf[m] \in Threads /\ m # None
      BY <2>2, ConstantsTyped
    <3>2. Held(m) = 0 /\ Lost(m) = 0 /\ m \notin published
      BY <3>1 DEF Init, Held, Lost
    <3>3. PlacesBehind(m, before, flushed) = {}
      BY DEF Init, PlacesBehind
    <3>4. /\ out = <<>> /\ arrived = <<>>
          /\ Occurrences(PublishOf(m), <<>>) = 0 /\ Occurrences(m, <<>>) = 0
      BY EmptySeq, OccurrencesChange DEF Init
    <3> QED BY <3>2, <3>3, <3>4, SmallCounts DEF Count
  <2> QED BY <2>1, <2>2 DEF CountInv
<1>2. TypeOK /\ CountInv /\ [Next]_vars => CountInv'
  BY CountStep
<1>3. TypeOK /\ CountInv => PublishedExactlyOnce
  BY CountCounts
<1>4. QED BY <1>1, <1>2, <1>3, TypeCorrect, PTL DEF Spec

-----------------------------------------------------------------------------
(* What the race for the flag leaves behind                                *)

\* m has missed the flush, or is about to.
Stranded(m) == (\E t \in Threads : holding[t] = m) \/ \E i \in 1..Len(before) : before[i] = m

\* After the flush no thread reads the flag unset, so what one of them strands
\* it has already in its hand when the flush ends.
StrandedInv ==
  /\ HoldsItsOwn
  /\ connected /\ phase = "done" =>
       \A m, n \in Messages : Stranded(m) /\ Stranded(n) /\ AuthorOf[m] = AuthorOf[n] => m = n

\* Every step of the system preserves StrandedInv.
LEMMA StrandedStep ==
  ASSUME TypeOK, DeafInv, StrandedInv, [Next]_vars
  PROVE  StrandedInv'
<1> USE DEF vars, connectVars, handlerVars, publishVars, sendVars, brokerVars, incomingVars
<1>0. /\ before \in Seq(Messages) /\ Len(before) \in Nat
      /\ holding \in [Threads -> Messages \cup {None}] /\ None \notin Messages
      /\ connected => phase \in {"flushing", "done"}
  BY ConstantsTyped, SeqOps DEF TypeOK, DeafInv
<1>1. CASE UNCHANGED <<before, holding>> /\ (connected' /\ phase' = "done" => connected /\ phase = "done")
  BY <1>1 DEF StrandedInv, HoldsItsOwn, Stranded
<1>2. CASE FlushEnd
  <2>1. before' = <<>> /\ holding' = holding
    BY <1>2 DEF FlushEnd
  <2>2. HoldsItsOwn'
    BY <2>1 DEF StrandedInv, HoldsItsOwn
  <2>3. ASSUME NEW m \in Messages, NEW n \in Messages, Stranded(m)', Stranded(n)', AuthorOf[m] = AuthorOf[n]
        PROVE  m = n
    <3>1. /\ \E t \in Threads : holding[t] = m
          /\ \E t \in Threads : holding[t] = n
      BY <2>1, <2>3 DEF Stranded
    <3> QED BY <1>0, <2>3, <3>1 DEF StrandedInv, HoldsItsOwn
  <2> QED BY <2>2, <2>3 DEF StrandedInv
<1>3. ASSUME NEW t \in Threads, PublishBuffer(t) PROVE StrandedInv'
  <2>1. /\ holding[t] \in Messages /\ before' = Append(before, holding[t])
        /\ holding' = [holding EXCEPT ![t] = None] /\ UNCHANGED <<phase, connected>>
    BY <1>0, <1>3 DEF PublishBuffer
  <2>2. HoldsItsOwn'
    BY <1>0, <2>1 DEF StrandedInv, HoldsItsOwn
  <2>3. ASSUME NEW m \in Messages, Stranded(m)' PROVE Stranded(m)
    <3>1. CASE \E u \in Threads : holding'[u] = m
      BY <1>0, <2>1, <3>1 DEF Stranded
    <3>2. CASE \E i \in 1..Len(before') : before'[i] = m
      <4>1. PICK i \in 1..Len(before') : before'[i] = m
        BY <3>2
      <4>2. CASE i \in 1..Len(before)
        BY <1>0, <2>1, <4>1, <4>2 DEF Stranded
      <4>3. CASE i = Len(before) + 1
        BY <1>0, <2>1, <4>1, <4>3 DEF Stranded
      <4> QED BY <1>0, <2>1, <4>2, <4>3
    <3> QED BY <2>3, <3>1, <3>2 DEF Stranded
  <2> QED BY <2>1, <2>2, <2>3 DEF StrandedInv
<1>4. ASSUME NEW t \in Threads, NEW n \in Messages, PublishReadsFlag(t, n) PROVE StrandedInv'
  <2>1. /\ ~connected' /\ AuthorOf[n] = t /\ holding' = [holding EXCEPT ![t] = n]
    BY <1>4 DEF PublishReadsFlag, ReadsNotConnected
  <2> QED BY <1>0, <2>1 DEF StrandedInv, HoldsItsOwn
<1>5. CASE \/ ConnectFail \/ ConnectBegin \/ SetConnected \/ FlushOne \/ Disconnect \/ MainLoop \/ Worker
           \/ UNCHANGED vars
           \/ (\E f \in Filters : ConnectSubscribe(f))
           \/ (\E h \in Handlers : RegisterHandler(h) \/ UnregisterHandler(h))
           \/ (\E m \in Messages : RemotePublish(m))
           \/ (\E t \in Threads, m \in Messages : PublishDirect(t, m))
  <2>1. UNCHANGED <<before, holding>> /\ (connected' /\ phase' = "done" => connected /\ phase = "done")
    BY <1>0, <1>5 DEF ConnectFail, ConnectBegin, SetConnected, FlushOne, Disconnect, MainLoop, SpawnMainLoop,
       MainLoopEnd, SyncSend, SyncReceive, LoseConnection, Worker, TakeMessage, DropUnparsable, Distribute,
       ConnectSubscribe, RegisterHandler, UnregisterHandler, RemotePublish, PublishDirect
  <2> QED BY <1>1, <2>1
<1>6. QED
  BY <1>2, <1>3, <1>4, <1>5 DEF Next, Connecting, Publishing, Registering

\* Whatever the threads publish while the connection comes up, each of them
\* leaves at most one message behind that is never sent.
THEOREM ThreadsStrandOne == Spec => []OneStrandedPerThread
<1>1. Init => DeafInv /\ StrandedInv
  BY DEF Init, DeafInv, NoDeafHandler, StrandedInv, HoldsItsOwn
<1>2. TypeOK /\ DeafInv /\ StrandedInv /\ [Next]_vars => DeafInv' /\ StrandedInv'
  BY DeafStep, StrandedStep
<1>3. TypeOK /\ StrandedInv => OneStrandedPerThread
  <2> SUFFICES ASSUME TypeOK, StrandedInv, connected, phase = "done", NEW t \in Threads
               PROVE  Cardinality({m \in Messages : AuthorOf[m] = t /\ Occurrences(m, before) > 0}
                                    \cup ({holding[t]} \ {None})) <= 1
    BY DEF OneStrandedPerThread
  <2> DEFINE left == {m \in Messages : AuthorOf[m] = t /\ Occurrences(m, before) > 0}
                       \cup ({holding[t]} \ {None})
  <2>1. ASSUME NEW m \in left PROVE m \in Messages /\ AuthorOf[m] = t /\ Stranded(m)
    <3>1. before \in Seq(Messages) /\ holding \in [Threads -> Messages \cup {None}]
      BY DEF TypeOK
    <3>2. CASE m = holding[t] /\ holding[t] # None
      BY <3>1, <3>2 DEF StrandedInv, HoldsItsOwn, Stranded
    <3>3. CASE m \in Messages /\ AuthorOf[m] = t /\ Occurrences(m, before) > 0
      <4>1. \E i \in 1..Len(before) : before[i] = m
        BY <3>1, <3>3, OccurrencesInNat
      <4> QED BY <3>3, <4>1 DEF Stranded
    <3> QED BY <3>2, <3>3
  <2> HIDE DEF left
  <2> SUFFICES Cardinality(left) <= 1
    BY DEF left
  <2>2. \A m, n \in left : m = n
    BY <2>1 DEF StrandedInv
  <2>3. CASE left = {}
    BY <2>3, SmallCounts
  <2>4. CASE left # {}
    <3>1. PICK m \in left : TRUE
      BY <2>4
    <3>2. left = {m}
      BY <2>2, <3>1
    <3> QED BY <3>2, SmallCounts
  <2> QED BY <2>3, <2>4
<1>4. QED BY <1>1, <1>2, <1>3, TypeCorrect, PTL DEF Spec

-----------------------------------------------------------------------------
(* From the broker to the handler queues                                   *)

\* The places of the members of T among the first n elements of s.
Places(s, n, T) == {i \in 1..n : s[i] \in T}

\* The rank of the place i among them.
Rank(i, s, n, T) == Cardinality({j \in Places(s, n, T) : j <= i})

\* Counting them is possible, and the rank of a place is an index.
LEMMA RankInRange ==
  ASSUME NEW s, NEW n \in Nat, NEW T
  PROVE  /\ IsFiniteSet(Places(s, n, T)) /\ Cardinality(Places(s, n, T)) \in Nat
         /\ \A i \in Places(s, n, T) :
              Rank(i, s, n, T) \in 1..Cardinality(Places(s, n, T))
<1>1. IsFiniteSet(1..n)
  BY FS_Interval
<1>2. IsFiniteSet(Places(s, n, T)) /\ Cardinality(Places(s, n, T)) \in Nat
  BY <1>1, FS_Subset, FS_CardinalityType, Places(s, n, T) \subseteq 1..n DEF Places
<1>3. ASSUME NEW i \in Places(s, n, T)
      PROVE  Rank(i, s, n, T) \in 1..Cardinality(Places(s, n, T))
  <2> DEFINE below == {j \in Places(s, n, T) : j <= i}
  <2>1. below \subseteq Places(s, n, T) /\ i \in below
    BY <1>3 DEF Places
  <2>2. {i} \subseteq below /\ Cardinality({i}) = 1
    BY <2>1, SmallCounts
  <2> HIDE DEF below
  <2>3. IsFiniteSet(below) /\ Cardinality(below) \in Nat /\ Cardinality(below) <= Cardinality(Places(s, n, T))
    BY <1>2, <2>1, FS_Subset, FS_CardinalityType
  <2>4. Cardinality({i}) <= Cardinality(below)
    BY <2>2, <2>3, FS_Subset
  <2> QED BY <1>2, <2>2, <2>3, <2>4 DEF below, Rank
<1> QED BY <1>2, <1>3

\* What IsFilterOf says, with its names.
LEMMA FilterByRank ==
  ASSUME NEW r, NEW s, NEW n, NEW T
  PROVE  IsFilterOf(r, s, n, T) <=>
           /\ Len(r) = Cardinality(Places(s, n, T))
           /\ \A i \in Places(s, n, T) : r[Rank(i, s, n, T)] = s[i]
BY DEF IsFilterOf, Places, Rank

\* An element added behind those that were filtered changes nothing.
LEMMA FilterIgnoresRest ==
  ASSUME NEW r, NEW s, NEW u, NEW n \in Nat, NEW T,
         \A i \in 1..n : u[i] = s[i], IsFilterOf(r, s, n, T)
  PROVE  IsFilterOf(r, u, n, T)
<1>1. Places(u, n, T) = Places(s, n, T)
  BY DEF Places
<1>2. \A i : Rank(i, u, n, T) = Rank(i, s, n, T)
  BY <1>1 DEF Rank
<1>3. \A i \in Places(s, n, T) : u[i] = s[i]
  BY DEF Places
<1> QED BY <1>1, <1>2, <1>3, FilterByRank

\* One more element is filtered out, or becomes the last of the result.
LEMMA FilterNext ==
  ASSUME NEW S, NEW r \in Seq(S), NEW s, NEW n \in Nat, NEW T,
         IsFilterOf(r, s, n, T)
  PROVE  /\ s[n + 1] \notin T => IsFilterOf(r, s, n + 1, T)
         /\ s[n + 1] \in T /\ s[n + 1] \in S => IsFilterOf(Append(r, s[n + 1]), s, n + 1, T)
<1> DEFINE P == Places(s, n, T)
           Q == Places(s, n + 1, T)
<1>0. /\ Len(r) = Cardinality(P)
      /\ \A i \in P : r[Rank(i, s, n, T)] = s[i]
      /\ Len(r) \in Nat
  BY FilterByRank
<1>1. /\ IsFiniteSet(P) /\ Cardinality(P) \in Nat
      /\ \A i \in P : Rank(i, s, n, T) \in 1..Cardinality(P)
  BY RankInRange
<1>2. P \subseteq 1..n /\ n + 1 \notin P
  BY DEF Places
<1>3. CASE s[n + 1] \notin T
  <2>1. Q = P
    BY <1>3 DEF Places
  <2>2. \A i : Rank(i, s, n + 1, T) = Rank(i, s, n, T)
    BY <2>1 DEF Rank
  <2> QED BY <1>0, <1>3, <2>1, <2>2, FilterByRank
<1>4. CASE s[n + 1] \in T /\ s[n + 1] \in S
  <2> DEFINE q == Append(r, s[n + 1])
  <2>1. Q = P \cup {n + 1}
    BY <1>4 DEF Places
  <2>2. Cardinality(Q) = Cardinality(P) + 1
    BY <1>1, <1>2, <2>1, FS_AddElement
  <2>3. /\ Len(q) = Len(r) + 1 /\ q[Len(r) + 1] = s[n + 1]
        /\ \A i \in 1..Len(r) : q[i] = r[i]
    BY <1>4, AppendProperties
  <2>4. ASSUME NEW i \in P PROVE q[Rank(i, s, n + 1, T)] = s[i]
    <3>1. {j \in Q : j <= i} = {j \in P : j <= i}
      BY <1>2, <2>1
    <3>2. Rank(i, s, n + 1, T) = Rank(i, s, n, T)
      BY <3>1 DEF Rank
    <3> HIDE DEF P, Q, q
    <3>3. Rank(i, s, n, T) \in 1..Len(r)
      BY <1>0, <1>1
    <3> QED BY <1>0, <2>3, <3>2, <3>3
  <2>5. Rank(n + 1, s, n + 1, T) = Cardinality(Q)
    <3>1. {j \in Q : j <= n + 1} = Q
      BY DEF Places
    <3> QED BY <3>1 DEF Rank
  <2> HIDE DEF P, Q, q
  <2>6. \A i \in Q : q[Rank(i, s, n + 1, T)] = s[i]
    BY <1>0, <2>1, <2>2, <2>3, <2>4, <2>5
  <2>7. Len(q) = Cardinality(Q)
    BY <1>0, <2>2, <2>3
  <2> QED BY <1>4, <2>6, <2>7, FilterByRank DEF Q, q
<1> QED BY <1>3, <1>4

\* Nothing has been filtered yet.
LEMMA FilterNothing == \A s, T : IsFilterOf(<<>>, s, 0, T)
<1>1. \A s, T : Places(s, 0, T) = {}
  BY DEF Places
<1> QED BY <1>1, SmallCounts, FilterByRank

\* The parsable messages on the topic t.
On(t) == {m \in Parses : TopicOf[m] = t}

\* What is on its way to the handler queues is the end of what the broker has
\* sent, and each handler queue has the filtered rest.
PipelineInv ==
  /\ Len(WorkLeft) <= Len(forwarded)
  /\ \A i \in 1..Len(WorkLeft) : WorkLeft[i] = forwarded[Distributed + i]
  /\ \A t \in EverestTopics : IsFilterOf(handed[t], forwarded, Distributed, On(t))

\* What is on its way: its length, and its elements one by one.
LEMMA WorkLeftElements ==
  ASSUME TypeOK
  PROVE  /\ WorkLeft \in Seq(Messages) /\ Len(WorkLeft) \in Nat
         /\ current = None => WorkLeft = queue \o inbound
         /\ current # None => /\ WorkLeft = <<current>> \o (queue \o inbound)
                              /\ Len(WorkLeft) > 0 /\ WorkLeft[1] = current
                              /\ Tail(WorkLeft) = queue \o inbound
<1>1. /\ queue \in Seq(Messages) /\ inbound \in Seq(Messages) /\ current \in Messages \cup {None}
      /\ queue \o inbound \in Seq(Messages)
  BY ConcatProperties DEF TypeOK
<1>2. CASE current = None
  BY <1>1, <1>2, ConcatEmptySeq, ConcatAssociative, EmptySeq, SeqOps DEF WorkLeft
<1>3. CASE current # None
  <2>1. <<current>> \in Seq(Messages) /\ Len(<<current>>) = 1 /\ <<current>>[1] = current
    BY <1>1, <1>3
  <2>2. WorkLeft = <<current>> \o (queue \o inbound)
    BY <1>1, <1>3, <2>1, ConcatAssociative DEF WorkLeft
  <2>3. /\ WorkLeft \in Seq(Messages) /\ Len(WorkLeft) = 1 + Len(queue \o inbound)
        /\ Len(queue \o inbound) \in Nat
        /\ \A i \in 1..Len(WorkLeft) :
             WorkLeft[i] = IF i <= 1 THEN <<current>>[i] ELSE (queue \o inbound)[i - 1]
    BY <1>1, <2>1, <2>2, ConcatProperties, SeqOps
  <2>4. Tail(WorkLeft) = queue \o inbound
    <3>1. /\ Tail(WorkLeft) \in Seq(Messages) /\ Len(Tail(WorkLeft)) = Len(WorkLeft) - 1
          /\ \A i \in 1..Len(Tail(WorkLeft)) : Tail(WorkLeft)[i] = WorkLeft[i + 1]
      BY <2>3, HeadTailProperties, EmptySeq
    <3>2. \A i \in 1..Len(Tail(WorkLeft)) : Tail(WorkLeft)[i] = (queue \o inbound)[i]
      BY <2>3, <3>1
    <3>3. Len(Tail(WorkLeft)) = Len(queue \o inbound)
      BY <2>3, <3>1
    <3> DEFINE rest == Tail(WorkLeft)
               behind == queue \o inbound
    <3>4. /\ rest \in Seq(Messages) /\ behind \in Seq(Messages) /\ Len(rest) = Len(behind)
          /\ \A i \in 1..Len(rest) : rest[i] = behind[i]
      BY <1>1, <3>1, <3>2, <3>3, Zenon
    <3> HIDE DEF rest, behind
    <3>5. rest = behind
      BY <3>4, SeqEqual
    <3> QED BY <3>5 DEF rest, behind
  <2> QED BY <1>3, <2>1, <2>2, <2>3, <2>4
<1> QED BY <1>2, <1>3

\* Passing the first element of a sequence on leaves the whole as it is.
LEMMA HeadThenTail ==
  ASSUME NEW S, NEW s \in Seq(S), s # <<>>
  PROVE  s = <<Head(s)>> \o Tail(s)
<1>1. /\ Head(s) \in S /\ Tail(s) \in Seq(S) /\ Len(Tail(s)) = Len(s) - 1
      /\ \A i \in 1..Len(Tail(s)) : Tail(s)[i] = s[i + 1]
      /\ Len(s) \in Nat /\ Len(s) > 0 /\ Head(s) = s[1]
  BY HeadTailProperties, EmptySeq, SeqOps
<1>2. <<Head(s)>> \in Seq(S) /\ Len(<<Head(s)>>) = 1 /\ <<Head(s)>>[1] = Head(s)
  BY <1>1
<1>3. /\ <<Head(s)>> \o Tail(s) \in Seq(S) /\ Len(<<Head(s)>> \o Tail(s)) = Len(s)
      /\ \A i \in 1..Len(s) :
           (<<Head(s)>> \o Tail(s))[i] = IF i <= 1 THEN <<Head(s)>>[i] ELSE Tail(s)[i - 1]
  BY <1>1, <1>2, ConcatProperties
<1>4. \A i \in 1..Len(s) : s[i] = (<<Head(s)>> \o Tail(s))[i]
  BY <1>1, <1>2, <1>3
<1> QED BY <1>3, <1>4, SeqEqual

\* A message that is read or taken stays where it is in WorkLeft.
LEMMA WorkPassedOn ==
  ASSUME TypeOK, TypeOK'
  PROVE  /\ SyncReceive => WorkLeft' = WorkLeft
         /\ TakeMessage => WorkLeft' = WorkLeft
<1>1. /\ queue \in Seq(Messages) /\ inbound \in Seq(Messages) /\ current \in Messages \cup {None}
      /\ queue' \in Seq(Messages) /\ inbound' \in Seq(Messages) /\ current' \in Messages \cup {None}
  BY DEF TypeOK
<1>2. /\ current = None => WorkLeft = queue \o inbound
      /\ current # None => WorkLeft = <<current>> \o (queue \o inbound)
  BY WorkLeftElements
<1>3. /\ current' = None => WorkLeft' = queue' \o inbound'
      /\ current' # None => WorkLeft' = <<current'>> \o (queue' \o inbound')
  <2>1. CASE current' = None
    <3>1. WorkLeft' = (<<>> \o queue') \o inbound'
      BY <2>1 DEF WorkLeft
    <3> QED BY <1>1, <2>1, <3>1, ConcatEmptySeq
  <2>2. CASE current' # None
    <3>1. WorkLeft' = (<<current'>> \o queue') \o inbound'
      BY <2>2 DEF WorkLeft
    <3>2. <<current'>> \in Seq(Messages)
      BY <1>1, <2>2
    <3> QED BY <1>1, <2>2, <3>1, <3>2, ConcatAssociative
  <2> QED BY <2>1, <2>2
<1>4. ASSUME SyncReceive PROVE WorkLeft' = WorkLeft
  <2>1. /\ inbound # <<>> /\ inbound' = Tail(inbound) /\ queue' = Append(queue, Head(inbound))
        /\ current' = current
    BY <1>4 DEF SyncReceive
  <2>2. /\ Head(inbound) \in Messages /\ Tail(inbound) \in Seq(Messages)
        /\ <<Head(inbound)>> \in Seq(Messages)
        /\ inbound = <<Head(inbound)>> \o Tail(inbound)
    BY <1>1, <2>1, SeqOps, HeadThenTail
  <2>3. queue' = queue \o <<Head(inbound)>>
    BY <1>1, <2>1, <2>2, AppendIsConcat
  <2>4. queue' \o inbound' = queue \o inbound
    BY <1>1, <2>1, <2>2, <2>3, ConcatAssociative
  <2> QED BY <1>2, <1>3, <2>1, <2>4
<1>5. ASSUME TakeMessage PROVE WorkLeft' = WorkLeft
  <2>1. /\ current = None /\ queue # <<>> /\ current' = Head(queue) /\ queue' = Tail(queue)
        /\ inbound' = inbound
    BY <1>5 DEF TakeMessage, brokerVars
  <2>2. /\ Head(queue) \in Messages /\ Tail(queue) \in Seq(Messages)
        /\ <<Head(queue)>> \in Seq(Messages)
        /\ queue = <<Head(queue)>> \o Tail(queue)
    BY <1>1, <2>1, SeqOps, HeadThenTail
  <2>3. (<<Head(queue)>> \o Tail(queue)) \o inbound = <<Head(queue)>> \o (Tail(queue) \o inbound)
    BY <1>1, <2>2, ConcatAssociative
  <2>4. current' # None
    BY <2>1, <2>2, ConstantsTyped
  <2> QED BY <1>2, <1>3, <2>1, <2>2, <2>3, <2>4
<1> QED BY <1>4, <1>5

\* A message that the broker sends is the last of what is on its way.
LEMMA WorkAdded ==
  ASSUME TypeOK, NEW m \in Messages, inbound' = Append(inbound, m), UNCHANGED <<current, queue>>
  PROVE  WorkLeft' = Append(WorkLeft, m)
<1>1. /\ queue \in Seq(Messages) /\ inbound \in Seq(Messages) /\ current \in Messages \cup {None}
      /\ <<m>> \in Seq(Messages) /\ <<>> \in Seq(Messages)
  BY EmptySeq DEF TypeOK
<1> DEFINE first == (IF current = None THEN <<>> ELSE <<current>>) \o queue
<1>2. first \in Seq(Messages)
  <2>1. (IF current = None THEN <<>> ELSE <<current>>) \in Seq(Messages)
    BY <1>1
  <2> QED BY <1>1, <2>1, ConcatProperties
<1>3. WorkLeft = first \o inbound /\ WorkLeft' = first \o inbound'
  BY DEF WorkLeft
<1> HIDE DEF first
<1>4. inbound' = inbound \o <<m>>
  BY <1>1, AppendIsConcat
<1>5. first \o (inbound \o <<m>>) = (first \o inbound) \o <<m>>
  BY <1>1, <1>2, ConcatAssociative
<1>6. (first \o inbound) \o <<m>> = Append(first \o inbound, m)
  BY <1>1, <1>2, ConcatProperties, AppendIsConcat
<1> QED BY <1>3, <1>4, <1>5, <1>6

\* The worker is through with its message: a message on an EVerest topic has
\* gone to the queue of that topic if it was parsable, and to no other queue
\* of an EVerest topic.
LEMMA HandedAfter ==
  ASSUME TypeOK, DropUnparsable \/ Distribute, exited' # "unhandled", NEW t \in EverestTopics
  PROVE  handed'[t] = IF current \in On(t) THEN Append(handed[t], current) ELSE handed[t]
<1>1. /\ t \in Filters /\ t \in Topics /\ Covers[t] = {t}
      /\ current \in Messages /\ TopicOf[current] \in Topics
  BY ConstantsTyped, TopicsCoverThemselves DEF TypeOK, DropUnparsable, Distribute
<1>2. CASE DropUnparsable
  BY <1>1, <1>2 DEF DropUnparsable, On
<1>3. CASE Distribute
  <2> DEFINE found == {f \in entries : TopicMatches(f, current)}
  <2>1. handed'[t] = IF t \in found THEN Append(handed[t], current) ELSE handed[t]
    BY <1>1, <1>3 DEF Distribute
  <2>2. TopicMatches(t, current) <=> TopicOf[current] = t
    BY <1>1 DEF TopicMatches
  <2>3. CASE TopicOf[current] = t
    <3>1. current \in Parses /\ current \in On(t)
      BY <1>3, <2>3 DEF Distribute, On
    <3>2. found # {}
      BY <1>3 DEF Distribute
    <3>3. \A f \in found : f = t
      BY <2>3 DEF TopicMatches
    <3>4. t \in found
      BY <3>2, <3>3
    <3> QED BY <2>1, <3>1, <3>4
  <2>4. CASE TopicOf[current] # t
    BY <2>1, <2>2, <2>4 DEF On
  <2> QED BY <2>3, <2>4
<1> QED BY <1>2, <1>3

\* Every step of the system preserves PipelineInv while no message goes
\* unhandled.
LEMMA PipelineStep ==
  ASSUME TypeOK, TypeOK', PipelineInv, [Next]_vars, exited' # "unhandled"
  PROVE  PipelineInv'
<1>0. /\ WorkLeft \in Seq(Messages) /\ Len(WorkLeft) \in Nat
      /\ forwarded \in Seq(Messages) /\ Len(forwarded) \in Nat
      /\ Len(WorkLeft) <= Len(forwarded) /\ Distributed \in Nat
      /\ Len(forwarded) = Distributed + Len(WorkLeft)
      /\ \A t \in EverestTopics : t \in Filters /\ handed[t] \in Seq(Messages)
  BY WorkLeftElements, SeqOps, ConstantsTyped DEF TypeOK, PipelineInv, Distributed
<1>1. CASE WorkLeft' = WorkLeft /\ UNCHANGED <<forwarded, handed>>
  BY <1>1 DEF PipelineInv, Distributed
<1>2. ASSUME NEW m \in Messages, inbound' = Append(inbound, m), forwarded' = Append(forwarded, m),
             UNCHANGED <<current, queue, handed>>
      PROVE  PipelineInv'
  <2>1. WorkLeft' = Append(WorkLeft, m)
    BY <1>2, WorkAdded
  <2>2. /\ Len(WorkLeft') = Len(WorkLeft) + 1 /\ WorkLeft'[Len(WorkLeft) + 1] = m
        /\ \A i \in 1..Len(WorkLeft) : WorkLeft'[i] = WorkLeft[i]
        /\ Len(forwarded') = Len(forwarded) + 1 /\ forwarded'[Len(forwarded) + 1] = m
        /\ \A i \in 1..Len(forwarded) : forwarded'[i] = forwarded[i]
    BY <1>0, <1>2, <2>1, AppendProperties
  <2>3. Distributed' = Distributed
    BY <1>0, <2>2 DEF Distributed
  <2>4. \A i \in 1..Len(WorkLeft') : WorkLeft'[i] = forwarded'[Distributed' + i]
    <3> SUFFICES ASSUME NEW i \in 1..Len(WorkLeft') PROVE WorkLeft'[i] = forwarded'[Distributed + i]
      BY <2>3
    <3>1. CASE i = Len(WorkLeft) + 1
      BY <1>0, <2>2, <3>1
    <3>2. CASE i \in 1..Len(WorkLeft)
      <4>1. Distributed + i \in 1..Len(forwarded)
        BY <1>0, <3>2
      <4> QED BY <2>2, <3>2, <4>1 DEF PipelineInv
    <3> QED BY <1>0, <2>2, <3>1, <3>2
  <2>5. ASSUME NEW t \in EverestTopics PROVE IsFilterOf(handed'[t], forwarded', Distributed', On(t))
    <3>1. \A i \in 1..Distributed : forwarded'[i] = forwarded[i]
      BY <1>0, <2>2
    <3>2. IsFilterOf(handed[t], forwarded, Distributed, On(t))
      BY DEF PipelineInv
    <3>3. IsFilterOf(handed[t], forwarded', Distributed, On(t))
      BY <1>0, <3>1, <3>2, FilterIgnoresRest
    <3> QED BY <1>2, <2>3, <3>3
  <2> QED BY <1>0, <2>2, <2>4, <2>5 DEF PipelineInv
<1>3. CASE DropUnparsable \/ Distribute
  <2>1. /\ current # None /\ current \in Messages /\ current' = None
        /\ UNCHANGED <<queue, inbound, forwarded>>
    BY <1>3, ConstantsTyped DEF TypeOK, DropUnparsable, Distribute, brokerVars
  <2>2. WorkLeft' = Tail(WorkLeft) /\ Len(WorkLeft) > 0 /\ WorkLeft[1] = current
    <3>1. WorkLeft' = queue' \o inbound'
      BY <2>1, ConcatEmptySeq DEF WorkLeft, TypeOK
    <3> QED BY <2>1, <3>1, WorkLeftElements
  <2>3. /\ Len(WorkLeft') = Len(WorkLeft) - 1
        /\ \A i \in 1..Len(WorkLeft') : WorkLeft'[i] = WorkLeft[i + 1]
    BY <1>0, <2>2, HeadTailProperties, EmptySeq
  <2>4. Distributed' = Distributed + 1
    BY <1>0, <2>1, <2>3 DEF Distributed
  <2>5. forwarded[Distributed + 1] = current
    BY <1>0, <2>2 DEF PipelineInv
  <2>6. \A i \in 1..Len(WorkLeft') : WorkLeft'[i] = forwarded'[Distributed' + i]
    <3> SUFFICES ASSUME NEW i \in 1..Len(WorkLeft') PROVE WorkLeft'[i] = forwarded[(Distributed + 1) + i]
      BY <2>1, <2>4
    <3>1. i + 1 \in 1..Len(WorkLeft) /\ Distributed + (i + 1) = (Distributed + 1) + i
      BY <1>0, <2>3
    <3> QED BY <2>3, <3>1 DEF PipelineInv
  <2>7. ASSUME NEW t \in EverestTopics PROVE IsFilterOf(handed'[t], forwarded', Distributed', On(t))
    <3>1. IsFilterOf(handed[t], forwarded, Distributed, On(t)) /\ handed[t] \in Seq(Messages)
      BY <1>0 DEF PipelineInv
    <3>2. handed'[t] = IF current \in On(t) THEN Append(handed[t], current) ELSE handed[t]
      BY <1>3, HandedAfter
    <3>3. IsFilterOf(handed'[t], forwarded, Distributed + 1, On(t))
      <4>1. CASE current \in On(t)
        BY <1>0, <2>1, <2>5, <3>1, <3>2, <4>1, FilterNext
      <4>2. CASE current \notin On(t)
        BY <1>0, <2>5, <3>1, <3>2, <4>2, FilterNext
      <4> QED BY <4>1, <4>2
    <3> QED BY <2>1, <2>4, <3>3
  <2> QED BY <1>0, <2>1, <2>3, <2>6, <2>7 DEF PipelineInv
<1>4. CASE SyncReceive \/ TakeMessage
  <2>1. UNCHANGED <<forwarded, handed>>
    BY <1>4 DEF SyncReceive, TakeMessage, brokerVars
  <2> QED BY <1>1, <1>4, <2>1, WorkPassedOn
<1>5. CASE UNCHANGED <<incomingVars, inbound, forwarded>>
  BY <1>1, <1>5 DEF incomingVars, WorkLeft
<1>6. CASE SyncSend
  <2>1. UNCHANGED incomingVars
    BY <1>6 DEF SyncSend
  <2>2. CASE Head(out).op \in {"subscribe", "unsubscribe"}
    BY <1>5, <1>6, <2>1, <2>2 DEF SyncSend
  <2>3. CASE Head(out).op = "publish"
    <3>1. Head(out).arg \in Messages
      <4>1. out \in Seq(Packet) /\ out # <<>>
        BY <1>6 DEF SyncSend, TypeOK
      <4>2. Head(out) \in Packet
        BY <4>1, SeqOps
      <4> QED BY <2>3, <4>2 DEF Packet
    <3>2. Forward(Head(out).arg)
      BY <1>6, <2>3 DEF SyncSend
    <3> QED BY <1>2, <1>5, <2>1, <3>1, <3>2, ForwardEffect DEF incomingVars
  <2> QED BY <1>6, <2>2, <2>3 DEF SyncSend
<1>7. ASSUME NEW m \in Messages, RemotePublish(m) PROVE PipelineInv'
  <2>1. Forward(m) /\ UNCHANGED incomingVars
    BY <1>7 DEF RemotePublish
  <2> QED BY <1>2, <1>5, <2>1, ForwardEffect DEF incomingVars
<1>8. CASE \/ Connecting \/ Disconnect \/ Publishing \/ Registering
           \/ SpawnMainLoop \/ MainLoopEnd \/ LoseConnection \/ UNCHANGED vars
  <2>1. UNCHANGED <<incomingVars, inbound, forwarded>>
    BY <1>8 DEF Connecting, ConnectFail, ConnectBegin, SetConnected, FlushOne, FlushEnd, ConnectSubscribe,
       Disconnect, Publishing, PublishBuffer, PublishDirect, PublishReadsFlag, Registering, RegisterHandler,
       UnregisterHandler, SpawnMainLoop, MainLoopEnd, LoseConnection, vars, brokerVars
  <2> QED BY <1>5, <2>1
<1> QED BY <1>3, <1>4, <1>6, <1>7, <1>8 DEF Next, MainLoop, Worker

\* Through the socket, the message queue and the worker no message on an
\* EVerest topic overtakes another, is handed twice or is skipped.
THEOREM HandedInSendingOrder == Spec => []HandedInOrder
<1> DEFINE Inv == exited # "unhandled" => PipelineInv
<1>1. Init => Inv
  <2> SUFFICES ASSUME Init PROVE PipelineInv
    OBVIOUS
  <2>1. /\ current = None /\ queue = <<>> /\ inbound = <<>> /\ forwarded = <<>>
        /\ \A t \in EverestTopics : handed[t] = <<>>
    BY ConstantsTyped DEF Init
  <2>2. WorkLeft = <<>> /\ Len(WorkLeft) = 0 /\ Len(forwarded) = 0 /\ Distributed = 0
    BY <2>1 DEF WorkLeft, Distributed
  <2> QED BY <2>1, <2>2, FilterNothing DEF PipelineInv
<1>2. TypeOK /\ TypeOK' /\ Inv /\ [Next]_vars => Inv'
  <2>1. Next => Running
    BY DEF Next
  <2>2. UNCHANGED vars => exited' = exited
    BY DEF vars
  <2> QED BY <2>1, <2>2, PipelineStep DEF Running
<1>3. TypeOK /\ Inv => HandedInOrder
  <2> SUFFICES ASSUME TypeOK, PipelineInv PROVE HandedInOrder
    BY DEF HandedInOrder
  <2>1. /\ WorkLeft \in Seq(Messages) /\ Len(WorkLeft) \in Nat
        /\ forwarded \in Seq(Messages) /\ Len(forwarded) \in Nat
        /\ Len(WorkLeft) <= Len(forwarded) /\ Distributed \in Nat
        /\ Len(forwarded) = Distributed + Len(WorkLeft)
    <3>1. WorkLeft \in Seq(Messages) /\ Len(WorkLeft) \in Nat
      BY WorkLeftElements
    <3>2. forwarded \in Seq(Messages) /\ Len(forwarded) \in Nat
      BY SeqOps DEF TypeOK
    <3> QED BY <3>1, <3>2 DEF PipelineInv, Distributed
  <2> DEFINE rest == SubSeq(forwarded, Distributed + 1, Len(forwarded))
  <2>2. \A i \in (Distributed + 1)..Len(forwarded) : forwarded[i] \in Messages
    BY <2>1, SeqOps
  <2>3. /\ rest \in Seq(Messages)
        /\ Len(rest) = IF Distributed + 1 <= Len(forwarded)
                         THEN Len(forwarded) - (Distributed + 1) + 1 ELSE 0
        /\ \A i \in 1..(Len(forwarded) - (Distributed + 1) + 1) :
             rest[i] = forwarded[(Distributed + 1) + i - 1]
    BY <2>1, <2>2, SubSeqProperties
  <2> HIDE DEF rest
  <2>4. Len(rest) = Len(WorkLeft) /\ \A i \in 1..Len(WorkLeft) : WorkLeft[i] = rest[i]
    <3>1. Len(rest) = Len(WorkLeft)
      BY <2>1, <2>3
    <3>2. ASSUME NEW i \in 1..Len(WorkLeft) PROVE WorkLeft[i] = rest[i]
      <4>1. /\ i \in 1..(Len(forwarded) - (Distributed + 1) + 1)
            /\ (Distributed + 1) + i - 1 = Distributed + i
        BY <2>1
      <4> QED BY <2>3, <4>1 DEF PipelineInv
    <3> QED BY <3>1, <3>2
  <2>5. WorkLeft = rest
    BY <2>1, <2>3, <2>4, SeqEqual
  <2> QED BY <2>5 DEF HandedInOrder, PipelineInv, On, rest
<1>4. QED BY <1>1, <1>2, <1>3, TypeCorrect, PTL DEF Spec

=============================================================================
