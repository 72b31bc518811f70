---------------------------- MODULE CmdCallProofs ----------------------------
(***************************************************************************)
(* Proofs for CmdCall: its types, the leaks of result handlers, that no    *)
(* result handler runs after its call has returned, what a blocked call    *)
(* waits for, and that commands implement RemoteCall.                      *)
(*                                                                         *)
(* A message is published once and then is, on its way to a process, in    *)
(* one place at a time (TransportInv).  So a provider that has dealt with  *)
(* a call never meets it again, and a caller that has its result never     *)
(* meets another (CallInv).  The result of a call that waits is on its way *)
(* to it (AnswerInv), so that in a quiet state every call that cannot go   *)
(* on waits for another, or is dropped.                                    *)
(***************************************************************************)
EXTENDS CmdCallDeadlock, SequenceFacts, FiniteSetTheorems

-----------------------------------------------------------------------------
(* Types                                                                    *)

LEMMA Messages ==
  ASSUME NEW c \in Calls
  PROVE  /\ Call(c) \in Message /\ Result(c) \in Message /\ Call(c) # Result(c)
         /\ Call(c) # None /\ Result(c) # None
         /\ Call(c).id = c /\ Result(c).id = c /\ Call(c).type = "call" /\ Result(c).type = "result"
  BY NoneIsNoMessage DEF Message, Call, Result

LEMMA MessageIds ==
  ASSUME NEW m \in Message
  PROVE  m.id \in Calls /\ m = (IF m.type = "call" THEN Call(m.id) ELSE Result(m.id))
  BY DEF Message, Call, Result

LEMMA Homes ==
  ASSUME NEW c \in Calls
  PROVE  TopicOf[c] \in Topics /\ CallerOf[c] \in Processes /\ Provider(c) \in Processes
  BY ConstantsTyped DEF Provider

LEMMA TypeInit == Init => TypeOK
  BY DEF Init, TypeOK

LEMMA TypeNext == TypeOK /\ [Next]_vars => TypeOK'
<1> SUFFICES ASSUME TypeOK, [Next]_vars PROVE TypeOK'
  OBVIOUS
<1> USE DEF TypeOK
<1>1. ASSUME NEW t \in Topics, Provide(t) PROVE TypeOK'
  BY <1>1 DEF Provide
<1>2. ASSUME NEW c \in Calls, CallStep(c) PROVE TypeOK'
  <2> USE Messages, Homes
  <2>1. CASE RejectCall(c)
    BY <2>1 DEF RejectCall, Thrown
  <2>2. CASE BeginCall(c)
    BY <2>2 DEF BeginCall
  <2>3. CASE IgnoreCall(c)
    BY <2>3 DEF IgnoreCall
  <2>4. CASE ExecuteCall(c)
    BY <2>4 DEF ExecuteCall
  <2>5. CASE FinishCall(c)
    BY <2>5 DEF FinishCall
  <2>6. CASE RunResult(c)
    BY <2>6 DEF RunResult
  <2>7. CASE ReturnCall(c)
    BY <2>7 DEF ReturnCall
  <2>8. CASE TimeoutCall(c)
    BY <2>8 DEF TimeoutCall, Thrown
  <2>9. CASE HandlerThrows(c)
    BY <2>9 DEF HandlerThrows
  <2> QED BY <1>2, <2>1, <2>2, <2>3, <2>4, <2>5, <2>6, <2>7, <2>8, <2>9 DEF CallStep
<1>3. ASSUME NEW p \in Processes, Transmit(p) PROVE TypeOK'
  <2> DEFINE m == Head(out[p])
             t == TopicOf[m.id]
  <2>1. m \in Message /\ Tail(out[p]) \in Seq(Message)
    BY <1>3, TailIn DEF Transmit
  <2>2. t \in Topics
    BY <2>1, MessageIds, Homes
  <2>3. \A q \in Processes : [queue[q] EXCEPT ![t] = Append(@, m)] \in [Topics -> Seq(Message)]
    BY <2>1, <2>2
  <2>4. queue' = [q \in Processes |->
                   IF Subscribed(q, t) THEN [queue[q] EXCEPT ![t] = Append(@, m)] ELSE queue[q]]
    BY <1>3 DEF Transmit
  <2> HIDE DEF m, t
  <2>5. queue' \in [Processes -> [Topics -> Seq(Message)]]
    BY <2>3, <2>4
  <2> QED BY <1>3, <2>1, <2>5 DEF Transmit
<1>4. ASSUME NEW p \in Processes, NEW t \in Topics, Take(p, t) PROVE TypeOK'
  <2>1. Head(queue[p][t]) \in Message /\ Tail(queue[p][t]) \in Seq(Message)
    BY <1>4, TailIn DEF Take
  <2> QED BY <1>4, <2>1 DEF Take
<1>5. CASE UNCHANGED vars
  BY <1>5 DEF vars
<1> QED BY <1>1, <1>2, <1>3, <1>4, <1>5 DEF Next

(* The state keeps its types.                                               *)
THEOREM TypeCorrect == Spec => []TypeOK
  BY TypeInit, TypeNext, PTL DEF Spec

-----------------------------------------------------------------------------
(* Leaks                                                                    *)

(* Whatever the interleaving, the result handlers left registered are those *)
(* of waiting calls and one for each call that has timed out                *)
(* (everest.cpp:267-279).                                                   *)
THEOREM LeaksOnlyTimeouts == Spec => []OnlyTimeoutsLeak
<1>1. Init => OnlyTimeoutsLeak
  BY DEF Init, OnlyTimeoutsLeak
<1>2. TypeOK /\ OnlyTimeoutsLeak /\ [Next]_vars => OnlyTimeoutsLeak'
  <2> SUFFICES ASSUME TypeOK, OnlyTimeoutsLeak, [Next]_vars PROVE OnlyTimeoutsLeak'
    OBVIOUS
  <2> USE DEF TypeOK, OnlyTimeoutsLeak
  <2>1. ASSUME NEW c \in Calls, CallStep(c) PROVE OnlyTimeoutsLeak'
    BY <2>1 DEF CallStep, RejectCall, BeginCall, MayCall, IgnoreCall, ExecuteCall, FinishCall, RunResult, ReturnCall, TimeoutCall, HandlerThrows
  <2>2. CASE UNCHANGED <<frame, registered>>
    BY <2>2
  <2> QED BY <2>1, <2>2 DEF Next, Provide, Transmit, Take, vars
<1> QED BY <1>1, <1>2, TypeCorrect, PTL DEF Spec

-----------------------------------------------------------------------------
(* Messages on their way                                                    *)

Sender(m)   == IF m.type = "call" THEN CallerOf[m.id] ELSE Provider(m.id)
Queue(m, p) == queue[p][TopicOf[m.id]]
Held(m, p)  == busy[p][TopicOf[m.id]] = m

Sent(m) ==
  IF m.type = "call" THEN frame[m.id] \notin {"idle", "rejected"} ELSE execution[m.id] = "replied"

(* Only what its sender has published is anywhere.                          *)
OriginInv(m) ==
  /\ \A p \in Processes : In(m, out[p]) => p = Sender(m) /\ Sent(m)
  /\ \A p \in Processes, t \in Topics :
       In(m, queue[p][t]) \/ busy[p][t] = m => t = TopicOf[m.id] /\ Sent(m)

(* On its way to p it is in one place.                                      *)
PlacedInv(m, p) ==
  /\ Once(m, out[Sender(m)]) /\ Once(m, Queue(m, p))
  /\ In(m, out[Sender(m)]) => ~In(m, Queue(m, p)) /\ ~Held(m, p)
  /\ In(m, Queue(m, p)) => ~Held(m, p)

TransportInv ==
  /\ \A m \in Message : OriginInv(m)
  /\ \A m \in Message, p \in Processes : PlacedInv(m, p)

(* p does not meet m any more.                                              *)
Gone(m, p) == ~In(m, out[Sender(m)]) /\ ~In(m, Queue(m, p)) /\ ~Held(m, p)

(* busy changes only to None.                                               *)
Released ==
  \A p \in Processes, t \in Topics : busy'[p][t] = busy[p][t] \/ busy'[p][t] = None

StaysSent == \A m \in Message : Sent(m) => Sent(m)'

StaysGone == \A m \in Message, p \in Processes : Sent(m) /\ Gone(m, p) => Gone(m, p)'

LEMMA Senders ==
  ASSUME NEW m \in Message
  PROVE  Sender(m) \in Processes /\ TopicOf[m.id] \in Topics /\ m # None
  BY MessageIds, Homes, NoneIsNoMessage DEF Sender

LEMMA Release ==
  ASSUME TypeOK, NEW p \in Processes, NEW t \in Topics, busy' = [busy EXCEPT ![p][t] = None]
  PROVE  /\ Released
         /\ \A q \in Processes, u \in Topics : busy'[q][u] = IF q = p /\ u = t THEN None ELSE busy[q][u]
BY DEF TypeOK, Released

LEMMA TransportInit == Init => TransportInv
<1> SUFFICES ASSUME Init, NEW m \in Message, NEW p \in Processes
             PROVE  OriginInv(m) /\ PlacedInv(m, p)
  BY Senders DEF TransportInv
<1>1. \A q \in Processes : out[q] = <<>> /\ \A t \in Topics : queue[q][t] = <<>> /\ busy[q][t] = None
  BY DEF Init
<1>2. OriginInv(m)
  BY <1>1, EmptyIn, Senders DEF OriginInv
<1>3. PlacedInv(m, p)
  BY <1>1, EmptyIn, Senders DEF PlacedInv, Queue, Held
<1> QED BY <1>2, <1>3

(* Steps that move no message, but may end the handling of one.             *)
LEMMA TransportRelease ==
  ASSUME TypeOK, TransportInv, UNCHANGED <<out, queue>>, Released, StaysSent
  PROVE  TransportInv' /\ StaysGone
<1>1. ASSUME NEW m \in Message, NEW p \in Processes
      PROVE  OriginInv(m)' /\ PlacedInv(m, p)' /\ (Gone(m, p) => Gone(m, p)')
  <2>1. OriginInv(m) /\ PlacedInv(m, p) /\ (Sent(m) => Sent(m)')
    BY <1>1 DEF TransportInv, StaysSent
  <2>2. OriginInv(m)'
    BY <2>1, Senders DEF OriginInv, Released
  <2>3. Held(m, p)' => Held(m, p)
    BY Senders DEF Held, Released
  <2>4. PlacedInv(m, p)'
    BY <2>1, <2>3 DEF PlacedInv, Queue
  <2>5. Gone(m, p) => Gone(m, p)'
    BY <2>3 DEF Gone, Queue
  <2> QED BY <2>2, <2>4, <2>5
<1> QED BY <1>1, Senders DEF TransportInv, StaysGone

(* A message is published.                                                  *)
LEMMA TransportPost ==
  ASSUME TypeOK, TransportInv, UNCHANGED queue, Released, StaysSent,
         NEW n \in Message, ~Sent(n), Sent(n)',
         out' = [out EXCEPT ![Sender(n)] = Append(@, n)]
  PROVE  TransportInv' /\ StaysGone
<1>1. \A p \in Processes : out[p] \in Seq(Message) /\ out'[p] = IF p = Sender(n) THEN Append(out[p], n) ELSE out[p]
  BY Senders DEF TypeOK
<1>2. ASSUME NEW m \in Message, NEW p \in Processes
      PROVE  OriginInv(m)' /\ PlacedInv(m, p)' /\ (m # n /\ Gone(m, p) => Gone(m, p)')
  <2>1. OriginInv(m) /\ PlacedInv(m, p) /\ (Sent(m) => Sent(m)')
    BY <1>2 DEF TransportInv, StaysSent
  <2>2. m = n => Gone(m, p)
    BY <2>1, Senders DEF OriginInv, Gone, Queue, Held
  <2>3. \A q \in Processes : In(m, out'[q]) => In(m, out[q]) \/ (m = n /\ q = Sender(n))
    BY <1>1, AppendIn
  <2>4. OriginInv(m)'
    BY <2>1, <2>3, Senders DEF OriginInv, Released, Sender
  <2>5. Held(m, p)' => Held(m, p)
    BY Senders DEF Held, Released
  <2>6. Once(m, out'[Sender(m)])
    BY <1>1, <2>1, <2>2, Senders, AppendIn DEF PlacedInv, Gone
  <2>7. PlacedInv(m, p)'
    BY <2>1, <2>2, <2>3, <2>5, <2>6, Senders DEF PlacedInv, Gone, Queue, Sender
  <2>8. m # n /\ Gone(m, p) => Gone(m, p)'
    BY <2>3, <2>5, Senders DEF Gone, Queue, Sender
  <2> QED BY <2>4, <2>7, <2>8
<1> QED BY <1>2, Senders DEF TransportInv, StaysGone

LEMMA TransportTransmit ==
  ASSUME TypeOK, TransportInv, NEW s \in Processes, Transmit(s)
  PROVE  TransportInv' /\ StaysGone
<1> DEFINE n == Head(out[s])
           t == TopicOf[n.id]
<1>1. /\ n \in Message /\ In(n, out[s]) /\ t \in Topics
      /\ \A m \in Message : Once(m, out[s]) /\ m = n => ~In(m, Tail(out[s]))
      /\ \A m \in Message : Once(m, out[s]) => Once(m, Tail(out[s]))
      /\ \A m \in Message : In(m, Tail(out[s])) => In(m, out[s])
  <2>1. out[s] \in Seq(Message) /\ out[s] # <<>>
    BY DEF TypeOK, Transmit
  <2>2. n \in Message /\ In(n, out[s])
    BY <2>1, TailIn
  <2> HIDE DEF n
  <2> QED BY <2>1, <2>2, TailIn, MessageIds, Homes DEF n
<1>2. UNCHANGED <<frame, execution, busy>> /\ \A p \in Processes : out'[p] = IF p = s THEN Tail(out[p]) ELSE out[p]
  BY DEF Transmit, TypeOK
<1>3. \A q \in Processes : \A u \in Topics :
        queue'[q][u] = queue[q][u] \/ (u = t /\ queue'[q][u] = Append(queue[q][u], n))
  <2>1. queue' = [q \in Processes |->
                   IF Subscribed(q, t) THEN [queue[q] EXCEPT ![t] = Append(@, n)] ELSE queue[q]]
    BY DEF Transmit
  <2> HIDE DEF t, n
  <2> QED BY <2>1 DEF TypeOK
<1> HIDE DEF n, t
<1>4. s = Sender(n) /\ Sent(n)
  BY <1>1 DEF TransportInv, OriginInv
<1>5. \A q \in Processes, u \in Topics : queue[q][u] \in Seq(Message)
  BY DEF TypeOK
<1>6. ASSUME NEW m \in Message, NEW p \in Processes
      PROVE  OriginInv(m)' /\ PlacedInv(m, p)' /\ (Gone(m, p) => Gone(m, p)')
  <2>1. OriginInv(m) /\ PlacedInv(m, p) /\ (Sent(m)' <=> Sent(m))
    BY <1>2, <1>6 DEF TransportInv, Sent
  <2>2. \A q \in Processes, u \in Topics : In(m, queue'[q][u]) => In(m, queue[q][u]) \/ (m = n /\ u = t)
    <3> SUFFICES ASSUME NEW q \in Processes, NEW u \in Topics,
                        queue'[q][u] = Append(queue[q][u], n)
                 PROVE  In(m, queue'[q][u]) => In(m, queue[q][u]) \/ m = n
      BY <1>3
    <3> QED BY <1>1, <1>5, AppendIn
  <2>3. \A q \in Processes : In(m, out'[q]) => In(m, out[q])
    BY <1>1, <1>2
  <2>4. OriginInv(m)'
    BY <2>1, <2>2, <2>3, <1>2, <1>4 DEF OriginInv, t
  <2>5. Held(m, p)' <=> Held(m, p)
    BY <1>2 DEF Held
  <2>6. m = n => In(m, out[Sender(m)]) /\ ~In(m, out'[Sender(m)]) /\ ~In(m, Queue(m, p)) /\ ~Held(m, p)
    BY <1>1, <1>2, <1>4, <2>1 DEF PlacedInv
  <2>7. Once(m, out'[Sender(m)])
    BY <1>1, <1>2, <2>1, Senders DEF PlacedInv
  <2>8. Once(m, queue'[p][TopicOf[m.id]])
    <3> DEFINE u == TopicOf[m.id]
    <3>1. u \in Topics /\ Once(m, queue[p][u]) /\ (m = n => ~In(m, queue[p][u]))
      BY <2>1, <2>6, Senders DEF PlacedInv, Queue
    <3> HIDE DEF u
    <3>2. CASE queue'[p][u] = queue[p][u]
      BY <3>1, <3>2 DEF u
    <3>3. CASE queue'[p][u] = Append(queue[p][u], n)
      <4>1. Once(m, Append(queue[p][u], n))
        BY <3>1, <1>1, <1>5, AppendIn
      <4> QED BY <4>1, <3>3 DEF u
    <3> QED BY <3>1, <3>2, <3>3, <1>3, <1>6
  <2>9. PlacedInv(m, p)'
    BY <2>1, <2>2, <2>3, <2>5, <2>6, <2>7, <2>8, Senders DEF PlacedInv, Queue
  <2>10. Gone(m, p) => Gone(m, p)'
    BY <2>2, <2>3, <2>5, <2>6, Senders DEF Gone, Queue
  <2> QED BY <2>4, <2>9, <2>10
<1> QED BY <1>6, Senders DEF TransportInv, StaysGone

LEMMA TransportTake ==
  ASSUME TypeOK, TransportInv, NEW s \in Processes, NEW t \in Topics, Take(s, t)
  PROVE  TransportInv' /\ StaysGone
<1> DEFINE n == Head(queue[s][t])
<1>1. /\ n \in Message /\ In(n, queue[s][t])
      /\ \A m \in Message : Once(m, queue[s][t]) /\ m = n => ~In(m, Tail(queue[s][t]))
      /\ \A m \in Message : Once(m, queue[s][t]) => Once(m, Tail(queue[s][t]))
      /\ \A m \in Message : In(m, Tail(queue[s][t])) => In(m, queue[s][t])
  <2>1. queue[s][t] \in Seq(Message) /\ queue[s][t] # <<>>
    BY DEF TypeOK, Take
  <2>2. n \in Message /\ In(n, queue[s][t])
    BY <2>1, TailIn
  <2> HIDE DEF n
  <2> QED BY <2>1, <2>2, TailIn DEF n
<1>2. UNCHANGED <<frame, execution, out>>
  BY DEF Take
<1>3. \A q \in Processes, u \in Topics :
        queue'[q][u] = IF q = s /\ u = t THEN Tail(queue[q][u]) ELSE queue[q][u]
  BY DEF Take, TypeOK
<1>4. \A q \in Processes, u \in Topics :
        busy'[q][u] = busy[q][u] \/ busy'[q][u] = None \/ (q = s /\ u = t /\ busy'[q][u] = n)
  BY DEF Take, TypeOK
<1> HIDE DEF n
<1>5. t = TopicOf[n.id] /\ Sent(n)
  BY <1>1 DEF TransportInv, OriginInv
<1>6. ASSUME NEW m \in Message, NEW p \in Processes
      PROVE  OriginInv(m)' /\ PlacedInv(m, p)' /\ (Gone(m, p) => Gone(m, p)')
  <2>1. OriginInv(m) /\ PlacedInv(m, p) /\ (Sent(m)' <=> Sent(m))
    BY <1>2, <1>6 DEF TransportInv, Sent
  <2>2. \A q \in Processes, u \in Topics : In(m, queue'[q][u]) => In(m, queue[q][u])
    BY <1>1, <1>3
  <2>3. OriginInv(m)'
    BY <2>1, <2>2, <1>2, <1>4, <1>5, Senders DEF OriginInv
  <2>4. Held(m, p)' => Held(m, p) \/ (m = n /\ p = s)
    BY <1>4, Senders DEF Held
  <2>5. m = n /\ p = s => In(m, Queue(m, p)) /\ ~In(m, queue'[p][TopicOf[m.id]])
    BY <1>1, <1>3, <1>5, <2>1 DEF PlacedInv, Queue
  <2>6. Once(m, queue'[p][TopicOf[m.id]])
    BY <1>1, <1>3, <2>1, Senders DEF PlacedInv, Queue
  <2>7. PlacedInv(m, p)'
    BY <1>2, <2>1, <2>2, <2>4, <2>5, <2>6, Senders DEF PlacedInv, Queue
  <2>8. Gone(m, p) => Gone(m, p)'
    BY <1>2, <2>2, <2>4, <2>5, Senders DEF Gone, Queue
  <2> QED BY <2>3, <2>7, <2>8
<1> QED BY <1>6, Senders DEF TransportInv, StaysGone

-----------------------------------------------------------------------------
(* Calls                                                                    *)

CallInv(c) ==
  /\ execution[c] # "none" => Sent(Call(c))
  /\ execution[c] = "running" => Held(Call(c), Provider(c))
  /\ execution[c] \in {"ignored", "refused", "replied"} => Gone(Call(c), Provider(c))
  /\ frame[c] \in {"ready", "returned"} => Sent(Result(c)) /\ Gone(Result(c), CallerOf[c])

Inv == TypeOK /\ TransportInv /\ \A c \in Calls : CallInv(c)

LEMMA CallMessages ==
  ASSUME NEW c \in Calls
  PROVE  /\ Call(c) \in Message /\ Call(c).id = c /\ Sender(Call(c)) = CallerOf[c]
         /\ Result(c) \in Message /\ Result(c).id = c /\ Sender(Result(c)) = Provider(c)
         /\ Sent(Call(c)) <=> frame[c] \notin {"idle", "rejected"}
         /\ Sent(Result(c)) <=> execution[c] = "replied"
         /\ Sent(Call(c))' <=> frame'[c] \notin {"idle", "rejected"}
         /\ Sent(Result(c))' <=> execution'[c] = "replied"
         /\ \A d \in Calls : /\ Call(c) # Result(d)
                             /\ c # d => Call(c) # Call(d) /\ Result(c) # Result(d)
BY DEF Call, Result, Message, Sender, Sent

(* A message that is being handled is nowhere else.                         *)
LEMMA HeldOnly ==
  ASSUME TransportInv, NEW m \in Message, NEW p \in Processes, NEW t \in Topics, busy[p][t] = m
  PROVE  /\ t = TopicOf[m.id] /\ Sent(m) /\ Held(m, p)
         /\ ~In(m, out[Sender(m)]) /\ ~In(m, Queue(m, p))
BY DEF TransportInv, OriginInv, PlacedInv, Held

LEMMA InvInit == Init => Inv
<1> SUFFICES ASSUME Init PROVE \A c \in Calls : CallInv(c)
  BY TypeInit, TransportInit DEF Inv
<1> QED BY DEF Init, CallInv

(* What is sent stays sent: a call is not executed again after its reply,   *)
(* and the frame of a call does not start over.                             *)
LEMMA SentNext == ASSUME Inv, [Next]_vars PROVE StaysSent
<1>1. ASSUME NEW c \in Calls, CallStep(c) PROVE StaysSent
  <2> SUFFICES ASSUME NEW m \in Message, Sent(m) PROVE Sent(m)'
    BY DEF StaysSent
  <2>1. m.id \in Calls /\ c \in Calls /\ TypeOK
    BY <1>1, MessageIds DEF Inv
  <2>2. m.type = "call" => frame'[m.id] \notin {"idle", "rejected"}
    BY <1>1, <2>1 DEF Sent, TypeOK, CallStep, RejectCall, BeginCall, MayCall, IgnoreCall, ExecuteCall,
                      FinishCall, RunResult, ReturnCall, TimeoutCall, HandlerThrows
  <2>3. execution[c] = "replied" => busy[Provider(c)][TopicOf[c]] # Call(c)
    BY CallMessages DEF Inv, CallInv, Gone, Held
  <2>4. m.type # "call" => execution'[m.id] = "replied"
    BY <1>1, <2>1, <2>3 DEF Sent, TypeOK, CallStep, RejectCall, BeginCall, MayCall, IgnoreCall, ExecuteCall,
                      FinishCall, RunResult, ReturnCall, TimeoutCall, HandlerThrows
  <2> QED BY <2>2, <2>4 DEF Sent
<1>2. CASE UNCHANGED <<frame, execution>>
  BY <1>2 DEF StaysSent, Sent
<1> QED BY <1>1, <1>2 DEF Next, Provide, Transmit, Take, vars

LEMMA TransportNext == ASSUME Inv, [Next]_vars PROVE TransportInv' /\ StaysGone
<1> USE DEF Inv
<1>1. StaysSent
  BY SentNext
<1>2. CASE UNCHANGED <<out, queue, busy>>
  <2>1. Released
    BY <1>2 DEF Released
  <2> QED BY <1>1, <1>2, <2>1, TransportRelease
<1>3. ASSUME NEW c \in Calls, BeginCall(c) PROVE TransportInv' /\ StaysGone
  <2>1. ~Sent(Call(c)) /\ Sent(Call(c))' /\ Released
    BY <1>3, CallMessages DEF BeginCall, MayCall, TypeOK, Released
  <2> QED BY <1>1, <1>3, <2>1, CallMessages, TransportPost DEF BeginCall
<1>4. ASSUME NEW c \in Calls, IgnoreCall(c) \/ RunResult(c) PROVE TransportInv' /\ StaysGone
  <2>1. Released /\ UNCHANGED <<out, queue>>
    BY <1>4, ConstantsTyped, Release DEF IgnoreCall, RunResult, Provider
  <2> QED BY <1>1, <2>1, TransportRelease
<1>5. ASSUME NEW c \in Calls, FinishCall(c) PROVE TransportInv' /\ StaysGone
  <2>1. Released /\ UNCHANGED queue
    BY <1>5 DEF FinishCall, TypeOK, Released
  <2>2. CASE Refused(c)
    BY <1>1, <1>5, <2>1, <2>2, TransportRelease DEF FinishCall
  <2>3. CASE ~Refused(c)
    <3>1. ~Sent(Result(c)) /\ Sent(Result(c))'
      BY <1>5, <2>3, CallMessages DEF FinishCall, TypeOK
    <3>2. out' = [out EXCEPT ![Sender(Result(c))] = Append(@, Result(c))]
      BY <1>5, <2>3, CallMessages DEF FinishCall
    <3> QED BY <1>1, <2>1, <3>1, <3>2, CallMessages, TransportPost
  <2> QED BY <2>2, <2>3
<1> QED BY <1>2, <1>3, <1>4, <1>5, TransportTransmit, TransportTake
        DEF Next, CallStep, Provide, RejectCall, ExecuteCall, ReturnCall, TimeoutCall, HandlerThrows, vars

LEMMA CallNext == ASSUME Inv, [Next]_vars PROVE \A c \in Calls : CallInv(c)'
<1> SUFFICES ASSUME NEW c \in Calls PROVE CallInv(c)'
  OBVIOUS
<1>1. TypeOK /\ TransportInv /\ CallInv(c) /\ StaysSent /\ TransportInv' /\ StaysGone
  BY SentNext, TransportNext DEF Inv
<1>2. /\ CallerOf[c] \in Processes /\ Provider(c) \in Processes /\ TopicOf[c] \in Topics
  BY ConstantsTyped DEF Provider
<1>3. execution'[c] = execution[c] \/ IgnoreCall(c) \/ ExecuteCall(c) \/ FinishCall(c)
  <2>1. ASSUME NEW d \in Calls, CallStep(d), d # c \/ UNCHANGED execution PROVE execution'[c] = execution[c]
    BY <1>1, <2>1 DEF CallStep, RejectCall, BeginCall, IgnoreCall, ExecuteCall, FinishCall, RunResult,
                      ReturnCall, TimeoutCall, HandlerThrows, TypeOK
  <2>2. CASE CallStep(c)
    BY <2>1, <2>2 DEF CallStep, RejectCall, BeginCall, RunResult, ReturnCall, TimeoutCall, HandlerThrows
  <2>3. CASE UNCHANGED execution
    BY <2>3
  <2> QED BY <2>1, <2>2, <2>3 DEF Next, Provide, Transmit, Take, vars
<1>4. execution'[c] # "none" => Sent(Call(c))'
  <2>1. IgnoreCall(c) \/ ExecuteCall(c) \/ FinishCall(c) => Sent(Call(c))
    BY <1>1, <1>2, HeldOnly, CallMessages DEF IgnoreCall, ExecuteCall, FinishCall, CallInv
  <2> QED BY <1>1, <1>3, <2>1, CallMessages DEF CallInv, StaysSent
<1>5. ASSUME execution'[c] = "running" PROVE Held(Call(c), Provider(c))'
  <2>1. Held(Call(c), Provider(c)) /\ (execution[c] = "running" \/ ExecuteCall(c))
    BY <1>1, <1>3, <1>5, CallMessages DEF CallInv, Held, ExecuteCall, IgnoreCall, FinishCall, TypeOK
  <2>2. ASSUME NEW d \in Calls, IgnoreCall(d) \/ FinishCall(d) \/ RunResult(d)
        PROVE  busy'[Provider(c)][TopicOf[c]] = busy[Provider(c)][TopicOf[c]]
    <3>1. busy[Provider(c)][TopicOf[c]] = Call(c)
      BY <2>1, CallMessages DEF Held
    <3>2. FinishCall(d) => busy[Provider(d)][TopicOf[d]] = Call(d) /\ c # d
      <4>1. FinishCall(d) => execution[d] = "running" /\ execution'[d] # "running"
        BY <1>1 DEF FinishCall, TypeOK
      <4>2. CallInv(d)
        BY DEF Inv
      <4> QED BY <4>1, <4>2, <1>5, CallMessages DEF CallInv, Held
    <3>3. IgnoreCall(d) => busy[Provider(d)][TopicOf[d]] = Call(d) /\ c # d
      BY <1>1, <1>5 DEF IgnoreCall, TypeOK
    <3>4. IgnoreCall(d) \/ FinishCall(d) => busy' = [busy EXCEPT ![Provider(d)][TopicOf[d]] = None]
      BY DEF IgnoreCall, FinishCall
    <3>5. Provider(d) \in Processes /\ TopicOf[d] \in Topics
      BY ConstantsTyped DEF Provider
    <3>6. CASE IgnoreCall(d) \/ FinishCall(d)
      <4>1. Provider(c) # Provider(d) \/ TopicOf[c] # TopicOf[d]
        BY <3>1, <3>2, <3>3, <3>6, CallMessages
      <4> QED BY <1>1, <1>2, <3>4, <3>5, <3>6, <4>1, Release
    <3>7. CASE RunResult(d)
      BY <1>1, <1>2, <3>1, <3>7, CallMessages DEF TypeOK, RunResult
    <3> QED BY <2>2, <3>6, <3>7
  <2>3. ASSUME NEW p \in Processes, NEW t \in Topics, Take(p, t)
        PROVE  busy'[Provider(c)][TopicOf[c]] = busy[Provider(c)][TopicOf[c]]
    BY <1>1, <1>2, <2>1, <2>3, CallMessages, NoneIsNoMessage DEF TypeOK, Take, Held
  <2>4. busy'[Provider(c)][TopicOf[c]] = busy[Provider(c)][TopicOf[c]]
    BY <2>2, <2>3 DEF Next, CallStep, Provide, RejectCall, BeginCall, ExecuteCall, ReturnCall,
                            TimeoutCall, HandlerThrows, Transmit, vars
  <2> QED BY <2>1, <2>4, CallMessages DEF Held
<1>6. ASSUME execution'[c] \in {"ignored", "refused", "replied"} PROVE Gone(Call(c), Provider(c))'
  <2>1. CASE execution[c] \in {"ignored", "refused", "replied"}
    BY <1>1, <1>2, <2>1, CallMessages DEF CallInv, StaysGone
  <2>2. CASE IgnoreCall(c) \/ FinishCall(c)
    <3>1. busy[Provider(c)][TopicOf[c]] = Call(c)
      BY <1>1, <2>2, CallMessages DEF IgnoreCall, FinishCall, CallInv, Held
    <3>2. ~In(Call(c), out[CallerOf[c]]) /\ ~In(Call(c), queue[Provider(c)][TopicOf[c]])
      BY <1>1, <1>2, <3>1, HeldOnly, CallMessages DEF Queue
    <3>3. queue' = queue /\ busy'[Provider(c)][TopicOf[c]] = None
      BY <1>1, <1>2, <2>2 DEF IgnoreCall, FinishCall, TypeOK
    <3>4. ~In(Call(c), out'[CallerOf[c]])
      <4>1. out' = out \/ out' = [out EXCEPT ![Provider(c)] = Append(@, Result(c))]
        BY <2>2 DEF IgnoreCall, FinishCall
      <4>2. out[Provider(c)] \in Seq(Message)
        BY <1>1, <1>2 DEF TypeOK
      <4>3. In(Call(c), Append(out[Provider(c)], Result(c))) => In(Call(c), out[Provider(c)])
        BY <4>2, AppendIn, CallMessages
      <4> QED BY <1>1, <1>2, <3>2, <4>1, <4>3 DEF TypeOK
    <3> QED BY <3>2, <3>3, <3>4, CallMessages, NoneIsNoMessage DEF Gone, Queue, Held
  <2> QED BY <1>1, <1>3, <1>6, <2>1, <2>2 DEF TypeOK, ExecuteCall
<1>7. ASSUME frame'[c] \in {"ready", "returned"} PROVE Sent(Result(c))' /\ Gone(Result(c), CallerOf[c])'
  <2>1. frame[c] \in {"ready", "returned"} \/ RunResult(c)
    BY <1>1, <1>7, ZenonT(30) DEF Next, CallStep, Provide, RejectCall, BeginCall, IgnoreCall, ExecuteCall, FinishCall,
                RunResult, ReturnCall, TimeoutCall, HandlerThrows, Transmit, Take, TypeOK, vars
  <2>2. CASE frame[c] \in {"ready", "returned"}
    BY <1>1, <1>2, <2>2, CallMessages DEF CallInv, StaysSent, StaysGone
  <2>3. CASE RunResult(c)
    <3>1. busy[CallerOf[c]][TopicOf[c]] = Result(c)
      BY <2>3 DEF RunResult
    <3>2. /\ Sent(Result(c))
          /\ ~In(Result(c), out[Provider(c)]) /\ ~In(Result(c), queue[CallerOf[c]][TopicOf[c]])
      BY <1>1, <1>2, <3>1, HeldOnly, CallMessages DEF Queue
    <3>3. UNCHANGED <<out, queue>> /\ busy'[CallerOf[c]][TopicOf[c]] = None
      BY <1>1, <1>2, <2>3 DEF RunResult, TypeOK
    <3> QED BY <1>1, <3>2, <3>3, CallMessages, NoneIsNoMessage DEF Gone, Queue, Held, StaysSent
  <2> QED BY <2>1, <2>2, <2>3
<1> QED BY <1>4, <1>5, <1>6, <1>7 DEF CallInv

LEMMA InvCorrect == Spec => []Inv
<1>1. Inv /\ [Next]_vars => Inv'
  BY TypeNext, TransportNext, CallNext DEF Inv
<1> QED BY <1>1, InvInit, PTL DEF Spec

(* No result handler runs in a frame that call_cmd has left by returning,   *)
(* and none sets its promise twice (everest.cpp:231-279).                   *)
THEOREM ResultBeforeReturn == Spec => []NoResultAfterReturn
<1>1. Inv => NoResultAfterReturn
  <2> SUFFICES ASSUME Inv, NEW p \in Processes, NEW t \in Topics, NEW c \in Calls,
                      busy[p][t] = Result(c), CallerOf[c] = p
               PROVE  frame[c] \in {"waiting", "timed_out"}
    BY DEF NoResultAfterReturn
  <2>1. Sent(Result(c)) /\ Held(Result(c), p)
    BY HeldOnly, CallMessages DEF Inv
  <2>2. CallInv(c) /\ frame[c] \in {"idle", "rejected", "waiting", "ready", "returned", "timed_out"}
    BY DEF Inv, TypeOK
  <2>3. frame[c] \notin {"ready", "returned"}
    BY <2>1, <2>2 DEF CallInv, Gone
  <2>4. frame[c] \notin {"idle", "rejected"}
    BY <2>1, <2>2, CallMessages DEF CallInv
  <2> QED BY <2>2, <2>3, <2>4
<1> QED BY <1>1, InvCorrect, PTL

-----------------------------------------------------------------------------
(* What a blocked call waits for                                            *)

(* Only a provider dispatches calls.                                        *)
DispatchInv ==
  \A p \in Processes, t \in Topics, c \in Calls : busy[p][t] = Call(c) => p = ProviderOf[t]

(* The result of a call that waits is on its way to it.                     *)
AnswerInv ==
  crashed = {} =>
    \A c \in Calls : execution[c] = "replied" /\ frame[c] = "waiting" => ~Gone(Result(c), CallerOf[c])

WaitInv == Inv /\ OnlyTimeoutsLeak /\ DispatchInv /\ AnswerInv

LEMMA DispatchNext == ASSUME Inv, DispatchInv, [Next]_vars PROVE DispatchInv'
<1> SUFFICES ASSUME NEW p \in Processes, NEW t \in Topics, NEW c \in Calls, busy'[p][t] = Call(c)
             PROVE  p = ProviderOf[t]
  BY DEF DispatchInv
<1>1. TypeOK /\ Call(c) # None /\ Call(c).type = "call"
  BY Messages DEF Inv
<1>2. CASE busy'[p][t] = busy[p][t] \/ busy'[p][t] = None
  BY <1>1, <1>2 DEF DispatchInv
<1>3. CASE \E q \in Processes, u \in Topics : Take(q, u)
  <2>1. PICK q \in Processes, u \in Topics : Take(q, u)
    BY <1>3
  <2>2. CASE p = q /\ t = u
    BY <1>1, <2>1, <2>2 DEF Take, TypeOK, Handles
  <2>3. CASE ~(p = q /\ t = u)
    BY <1>1, <1>2, <2>1, <2>3 DEF Take, TypeOK
  <2> QED BY <2>2, <2>3
<1>4. CASE \E d \in Calls : IgnoreCall(d) \/ FinishCall(d) \/ RunResult(d)
  <2>1. PICK q \in Processes, u \in Topics : busy' = [busy EXCEPT ![q][u] = None]
    BY <1>4, Homes DEF IgnoreCall, FinishCall, RunResult
  <2> QED BY <1>1, <1>2, <2>1, Release
<1>5. CASE UNCHANGED busy
  BY <1>2, <1>5
<1> QED BY <1>3, <1>4, <1>5 DEF Next, CallStep, Provide, RejectCall, BeginCall, ExecuteCall, ReturnCall,
                                TimeoutCall, HandlerThrows, Transmit, vars

(* A message that is not gone stays so until its handler has run, as long   *)
(* as p handles it.                                                         *)
LEMMA TransmitKeeps ==
  ASSUME TypeOK, NEW m \in Message, NEW p \in Processes, Subscribed(p, TopicOf[m.id]), ~Gone(m, p),
         NEW s \in Processes, Transmit(s)
  PROVE  ~Gone(m, p)'
<1> DEFINE n == Head(out[s])
           u == TopicOf[m.id]
<1>1. out[s] \in Seq(Message) /\ out[s] # <<>> /\ n \in Message
  BY TailIn DEF TypeOK, Transmit
<1>2. UNCHANGED busy /\ \A q \in Processes : out'[q] = IF q = s THEN Tail(out[q]) ELSE out[q]
  BY DEF Transmit, TypeOK
<1>3. u \in Topics /\ Sender(m) \in Processes /\ queue[p][u] \in Seq(Message)
  BY Senders DEF TypeOK
<1>4. /\ queue'[p][u] = queue[p][u] \/ queue'[p][u] = Append(queue[p][u], n)
      /\ m = n => queue'[p][u] = Append(queue[p][u], n)
  <2>1. queue' = [q \in Processes |->
                   IF Subscribed(q, TopicOf[n.id]) THEN [queue[q] EXCEPT ![TopicOf[n.id]] = Append(@, n)]
                   ELSE queue[q]]
    BY DEF Transmit
  <2> HIDE DEF n
  <2> QED BY <2>1, <1>3 DEF TypeOK
<1> HIDE DEF n, u
<1>5. In(m, Append(queue[p][u], n)) <=> In(m, queue[p][u]) \/ m = n
  BY <1>1, <1>3, AppendIn
<1>6. CASE In(m, out[Sender(m)])
  <2>1. In(m, out'[Sender(m)]) \/ m = n
    BY <1>1, <1>2, <1>3, <1>6, TailIn DEF n
  <2> QED BY <1>4, <1>5, <2>1 DEF Gone, Sender, Queue, u
<1>7. CASE In(m, queue[p][u])
  BY <1>4, <1>5, <1>7 DEF Gone, Queue, u
<1>8. CASE Held(m, p)
  BY <1>2, <1>8 DEF Gone, Held
<1> QED BY <1>6, <1>7, <1>8 DEF Gone, Queue, u

LEMMA TakeKeeps ==
  ASSUME TypeOK, NEW m \in Message, NEW p \in Processes, Handles(p, TopicOf[m.id], m), ~Gone(m, p),
         NEW s \in Processes, NEW t \in Topics, Take(s, t)
  PROVE  ~Gone(m, p)'
<1> DEFINE u == TopicOf[m.id]
<1>1. u \in Topics /\ UNCHANGED out /\ queue[s][t] \in Seq(Message) /\ queue[s][t] # <<>> /\ m # None
  BY Senders DEF Take, TypeOK
<1>2. CASE p = s /\ u = t
  <2>1. /\ queue'[p][u] = Tail(queue[p][u]) /\ busy[p][u] = None
        /\ m = Head(queue[p][u]) => busy'[p][u] = m
    BY <1>2 DEF Take, TypeOK
  <2>2. In(m, queue[p][u]) => m = Head(queue[p][u]) \/ In(m, Tail(queue[p][u]))
    BY <1>1, <1>2, TailIn
  <2> QED BY <1>1, <2>1, <2>2 DEF Gone, Sender, Queue, Held
<1>3. CASE ~(p = s /\ u = t)
  <2>1. queue'[p][u] = queue[p][u] /\ busy'[p][u] = busy[p][u]
    BY <1>1, <1>3 DEF Take, TypeOK
  <2> QED BY <1>1, <2>1 DEF Gone, Sender, Queue, Held
<1> QED BY <1>2, <1>3

(* The handling of other messages ends, and others are published.           *)
LEMMA OthersKeep ==
  ASSUME TypeOK, NEW m \in Message, NEW p \in Processes, ~Gone(m, p),
         UNCHANGED queue, \A q \in Processes : In(m, out[q]) => In(m, out'[q]),
         busy'[p][TopicOf[m.id]] = busy[p][TopicOf[m.id]] \/ ~Held(m, p)
  PROVE  ~Gone(m, p)'
BY Senders DEF Gone, Queue, Held, Sender

LEMMA AnswerStays ==
  ASSUME Inv, OnlyTimeoutsLeak, [Next]_vars, crashed = {}, NEW c \in Calls,
         frame[c] = "waiting", frame'[c] = "waiting", ~Gone(Result(c), CallerOf[c])
  PROVE  ~Gone(Result(c), CallerOf[c])'
<1> DEFINE m == Result(c)
           p == CallerOf[c]
<1>1. TypeOK /\ m \in Message /\ m.id = c /\ m.type = "result" /\ p \in Processes /\ TopicOf[c] \in Topics
  BY Homes, Messages DEF Inv
<1>2. Subscribed(p, TopicOf[m.id]) /\ Handles(p, TopicOf[m.id], m)
  BY <1>1 DEF OnlyTimeoutsLeak, Subscribed, Handles, ResultHandlers, Up
<1>3. ASSUME NEW d \in Calls, BeginCall(d) \/ FinishCall(d), NEW q \in Processes
      PROVE  In(m, out[q]) => In(m, out'[q])
  <2>1. PICK n \in Message, s \in Processes : out' = out \/ out' = [out EXCEPT ![s] = Append(@, n)]
    BY <1>3, Homes, Messages DEF BeginCall, FinishCall
  <2>2. out[q] \in Seq(Message) /\ (out'[q] = out[q] \/ out'[q] = Append(out[q], n))
    BY <1>1, <2>1 DEF TypeOK
  <2>3. In(m, Append(out[q], n)) <=> In(m, out[q]) \/ m = n
    BY <2>2, AppendIn
  <2> QED BY <2>2, <2>3
<1>4. ASSUME NEW d \in Calls, IgnoreCall(d) \/ FinishCall(d) \/ RunResult(d)
      PROVE  busy'[p][TopicOf[m.id]] = busy[p][TopicOf[m.id]] \/ ~Held(m, p)
  <2>1. PICK q \in Processes, u \in Topics, n \in Message :
          /\ busy' = [busy EXCEPT ![q][u] = None] /\ busy[q][u] = n /\ n # m
    <3>1. CASE IgnoreCall(d) \/ FinishCall(d)
      BY <3>1, Homes, CallMessages DEF IgnoreCall, FinishCall, Inv, CallInv, Held
    <3>2. CASE RunResult(d)
      <4>1. d # c
        BY <1>1, <3>2 DEF RunResult, TypeOK
      <4> QED BY <3>2, <4>1, Homes, CallMessages DEF RunResult
    <3> QED BY <1>4, <3>1, <3>2
  <2> QED BY <1>1, <2>1, Release DEF Held
<1> HIDE DEF m, p
<1>5. CASE \E d \in Calls : BeginCall(d) \/ IgnoreCall(d) \/ FinishCall(d) \/ RunResult(d)
  <2>1. PICK d \in Calls : BeginCall(d) \/ IgnoreCall(d) \/ FinishCall(d) \/ RunResult(d)
    BY <1>5
  <2>2. UNCHANGED queue
    BY <2>1 DEF BeginCall, IgnoreCall, FinishCall, RunResult
  <2>3. \A q \in Processes : In(m, out[q]) => In(m, out'[q])
    BY <1>3, <2>1 DEF IgnoreCall, RunResult
  <2>4. busy'[p][TopicOf[m.id]] = busy[p][TopicOf[m.id]] \/ ~Held(m, p)
    BY <1>4, <2>1 DEF BeginCall
  <2> QED BY <1>1, <2>2, <2>3, <2>4, OthersKeep DEF m, p
<1>6. CASE UNCHANGED <<out, queue, busy>>
  BY <1>1, <1>6, OthersKeep DEF m, p
<1>7. ASSUME NEW q \in Processes, Transmit(q) PROVE ~Gone(m, p)'
  BY <1>1, <1>2, <1>7, TransmitKeeps DEF m, p
<1>8. ASSUME NEW q \in Processes, NEW u \in Topics, Take(q, u) PROVE ~Gone(m, p)'
  BY <1>1, <1>2, <1>8, TakeKeeps DEF m, p
<1> QED BY <1>5, <1>6, <1>7, <1>8
        DEF Next, CallStep, Provide, RejectCall, ExecuteCall, ReturnCall, TimeoutCall, HandlerThrows, vars, m, p

LEMMA AnswerNext == ASSUME Inv, OnlyTimeoutsLeak, AnswerInv, [Next]_vars PROVE AnswerInv'
<1> SUFFICES ASSUME crashed' = {}, NEW c \in Calls, execution'[c] = "replied", frame'[c] = "waiting"
             PROVE  ~Gone(Result(c), CallerOf[c])'
  BY DEF AnswerInv
<1>1. TypeOK /\ CallInv(c)
  BY DEF Inv
<1>2. crashed = {}
  BY DEF Next, CallStep, Provide, RejectCall, Thrown, BeginCall, IgnoreCall, ExecuteCall, FinishCall, RunResult,
         ReturnCall, TimeoutCall, HandlerThrows, Transmit, Take, vars
<1>3. CASE execution[c] = "replied" /\ frame[c] = "waiting"
  BY <1>2, <1>3, AnswerStays DEF AnswerInv
<1>4. CASE execution[c] # "replied"
  <2>1. FinishCall(c) /\ ~Refused(c)
    BY <1>1, <1>4 DEF TypeOK, Next, CallStep, Provide, RejectCall, BeginCall, IgnoreCall, ExecuteCall, FinishCall,
                      RunResult, ReturnCall, TimeoutCall, HandlerThrows, Transmit, Take, vars
  <2>2. out'[Provider(c)] = Append(out[Provider(c)], Result(c)) /\ out[Provider(c)] \in Seq(Message)
    BY <1>1, <2>1, Homes DEF FinishCall, TypeOK
  <2>3. In(Result(c), out'[Provider(c)])
    BY <2>2, AppendIn, Messages
  <2> QED BY <2>3, CallMessages DEF Gone
<1>5. CASE execution[c] = "replied" /\ frame[c] # "waiting"
  <2>1. frame[c] = "idle" /\ ~Sent(Call(c))
    <3>1. BeginCall(c)
      BY <1>1, <1>5 DEF TypeOK, Next, CallStep, Provide, RejectCall, BeginCall, IgnoreCall, ExecuteCall, FinishCall,
                        RunResult, ReturnCall, TimeoutCall, HandlerThrows, Transmit, Take, vars
    <3> QED BY <3>1, CallMessages DEF BeginCall, MayCall
  <2> QED BY <1>1, <1>5, <2>1 DEF CallInv
<1> QED BY <1>3, <1>4, <1>5

LEMMA WaitInvCorrect == Spec => []WaitInv
<1>1. Init => DispatchInv /\ AnswerInv
  BY Messages DEF Init, DispatchInv, AnswerInv
<1>2. Inv /\ OnlyTimeoutsLeak /\ DispatchInv /\ AnswerInv /\ [Next]_vars => DispatchInv' /\ AnswerInv'
  BY DispatchNext, AnswerNext
<1> QED BY <1>1, <1>2, InvCorrect, LeaksOnlyTimeouts, PTL DEF Spec, WaitInv

(* It cannot go on by itself.                                               *)
Stuck(c) == Waiting(c) \/ execution[c] = "running"

LEMMA StuckWaits ==
  ASSUME WaitInv, Quiet, crashed = {}, NEW c \in Calls, Stuck(c), ~Dropped(c)
  PROVE  \E d \in Calls : WaitsFor(c, d)
<1>1. TypeOK /\ TransportInv /\ \A d \in Calls : CallInv(d)
  BY DEF WaitInv, Inv
<1>2. CASE execution[c] = "running"
  BY <1>2 DEF Quiet, Blocked, WaitsFor
<1>3. CASE execution[c] # "running" /\ frame[c] = "waiting"
  <2>1. ASSUME NEW p \in Processes, In(Call(c), queue[p][TopicOf[c]]) \/ In(Result(c), queue[p][TopicOf[c]])
        PROVE  p = Provider(c) /\ \E d \in Calls : execution[d] = "running" /\ TopicOf[d] = TopicOf[c]
    <3>1. queue[p][TopicOf[c]] # <<>> /\ TopicOf[c] \in Topics
      BY <2>1, EmptyIn, Homes
    <3>2. PICK d \in Calls : busy[p][TopicOf[c]] = Call(d) /\ execution[d] = "running"
      BY <3>1 DEF Quiet
    <3>3. TopicOf[c] = TopicOf[d]
      BY <1>1, <3>1, <3>2, HeldOnly, CallMessages
    <3>4. p = ProviderOf[TopicOf[c]]
      BY <3>1, <3>2 DEF WaitInv, DispatchInv
    <3> QED BY <3>2, <3>3, <3>4 DEF Provider
  <2>2. CASE execution[c] \in {"none", "ignored", "refused"}
    <3>1. Queued(Call(c)) /\ In(Call(c), queue[Provider(c)][TopicOf[c]])
      BY <2>2, CallMessages DEF Dropped, Queued, In
    <3> QED BY <2>1, <3>1, Homes DEF WaitsFor
  <2>3. CASE execution[c] = "replied"
    <3>1. ~Gone(Result(c), CallerOf[c])
      BY <1>3, <2>3 DEF WaitInv, AnswerInv
    <3>2. ~In(Result(c), out[Provider(c)])
      BY EmptyIn, Homes DEF Quiet
    <3>3. busy[CallerOf[c]][TopicOf[c]] # Result(c)
      BY Homes, CallMessages, Messages DEF Quiet
    <3>4. In(Result(c), queue[CallerOf[c]][TopicOf[c]])
      BY <3>1, <3>2, <3>3, CallMessages DEF Gone, Queue, Held
    <3>5. CallerOf[c] = Provider(c)
      BY <2>1, <3>4, Homes
    <3>6. Queued(Result(c))
      BY <3>4, <3>5, CallMessages DEF Queued, In
    <3> QED BY <2>1, <3>4, <3>5, <3>6, Homes DEF WaitsFor
  <2> QED BY <1>1, <1>3, <2>2, <2>3 DEF TypeOK
<1> QED BY <1>2, <1>3 DEF Stuck, Waiting, Quiet

LEMMA AwaitedStuck == ASSUME NEW c \in Calls, NEW d \in Awaited(c) PROVE d \in Calls /\ Stuck(d)
<1> DEFINE D == {x \in Calls : Stuck(x)}
<1>1. D \in SUBSET Calls /\ \A x \in {c} \cup D, y \in Calls : WaitsFor(x, y) => y \in D
  BY DEF WaitsFor, Stuck
<1> HIDE DEF D
<1>2. d \in Calls /\ d \in D
  BY <1>1 DEF Awaited
<1> QED BY <1>2 DEF D

LEMMA AwaitedNext ==
  ASSUME NEW c \in Calls, NEW x \in {c} \cup Awaited(c), NEW y \in Calls, WaitsFor(x, y)
  PROVE  y \in Awaited(c)
BY DEF Awaited

(* What an awaited call awaits, c awaits as well.                           *)
LEMMA AwaitedTransitive ==
  ASSUME NEW c \in Calls, NEW d \in Awaited(c)
  PROVE  Awaited(d) \subseteq Awaited(c)
<1>1. Awaited(c) \in SUBSET Calls /\ \A x \in {d} \cup Awaited(c), y \in Calls : WaitsFor(x, y) => y \in Awaited(c)
  <2>1. Awaited(c) \in SUBSET Calls
    BY DEF Awaited
  <2> QED BY <2>1, AwaitedNext
<1> SUFFICES ASSUME NEW z \in Awaited(d) PROVE z \in Awaited(c)
  OBVIOUS
<1>2. \A D \in SUBSET Calls :
        (\A x \in {d} \cup D, y \in Calls : WaitsFor(x, y) => y \in D) => z \in D
  BY DEF Awaited
<1> QED BY <1>1, <1>2

(* A finite set of calls in which each awaits another has a circle.         *)
LEMMA CircleAwaited ==
  ASSUME NEW E \in SUBSET Calls, E # {}, \A x \in E : \E y \in E : WaitsFor(x, y)
  PROVE  \E x \in E : Deadlocked(x)
<1> SUFFICES ASSUME \A x \in E : x \notin Awaited(x) PROVE FALSE
  BY DEF Deadlocked
<1> DEFINE R == StrictSubsetOrdering(Calls)
           T == {Awaited(x) : x \in E}
<1>1. IsWellFoundedOn(R, SUBSET Calls)
  BY FiniteCalls, FS_StrictSubsetOrderingWellFounded, FS_FiniteSubsetsOfFinite
<1>2. T \subseteq SUBSET Calls /\ T # {}
  <2>1. \A x \in E : Awaited(x) \subseteq Calls
    BY DEF Awaited
  <2> QED BY <2>1
<1> HIDE DEF R, T
<1>3. PICK A \in T : \A B \in T : <<B, A>> \notin R
  BY <1>1, <1>2, WFMin
<1>4. PICK x \in E : A = Awaited(x)
  BY DEF T
<1>5. PICK y \in E : WaitsFor(x, y)
  OBVIOUS
<1>6. y \in Awaited(x) /\ Awaited(y) \subseteq Awaited(x) /\ y \notin Awaited(y)
  BY <1>5, AwaitedNext, AwaitedTransitive
<1>7. Awaited(y) \in T /\ A \in SUBSET Calls /\ Awaited(y) \in SUBSET Calls
  BY <1>2 DEF T
<1>8. <<Awaited(y), A>> \in R
  BY <1>4, <1>6, <1>7 DEF R, StrictSubsetOrdering
<1> QED BY <1>3, <1>7, <1>8

(* Whatever the modules, their topics and the nesting of their calls: when  *)
(* nothing moves any more, a waiting call waits, through handlers and the   *)
(* threads of their topics, for a call that was dropped or for one that     *)
(* waits for itself (everest.cpp:231-279 and 791-875).                      *)
THEOREM OnlyCyclesAndDropsBlock == Spec => []BlockedOnlyByCycleOrDrop
<1>1. WaitInv => BlockedOnlyByCycleOrDrop
  <2> SUFFICES ASSUME WaitInv, Quiet, crashed = {}, NEW c \in Calls, Waiting(c),
                      \A d \in {c} \cup Awaited(c) : ~Dropped(d)
               PROVE  \E d \in {c} \cup Awaited(c) : Deadlocked(d)
    BY DEF BlockedOnlyByCycleOrDrop
  <2>1. Stuck(c) /\ \A d \in Awaited(c) : d \in Calls /\ Stuck(d)
    BY AwaitedStuck DEF Stuck
  <2>2. \A d \in {c} \cup Awaited(c) : \E e \in Awaited(c) : WaitsFor(d, e)
    <3> SUFFICES ASSUME NEW d \in {c} \cup Awaited(c) PROVE \E e \in Awaited(c) : WaitsFor(d, e)
      OBVIOUS
    <3>1. d \in Calls /\ Stuck(d) /\ ~Dropped(d)
      BY <2>1
    <3>2. PICK e \in Calls : WaitsFor(d, e)
      BY <3>1, StuckWaits
    <3> QED BY <3>2, AwaitedNext
  <2>3. Awaited(c) # {} /\ Awaited(c) \in SUBSET Calls
    BY <2>1, <2>2
  <2> QED BY <2>2, <2>3, CircleAwaited
<1> QED BY <1>1, WaitInvCorrect, PTL

-----------------------------------------------------------------------------
(* The refinement                                                           *)

LEMMA ClientStates ==
  ASSUME TypeOK, NEW c \in Calls
  PROVE  /\ frame[c] = "idle" <=> ClientOf(c) = "idle"
         /\ frame[c] \in {"waiting", "ready"} <=> ClientOf(c) = "waiting"
         /\ frame[c] = "returned" <=> ClientOf(c) = "returned"
         /\ frame[c] \in {"rejected", "timed_out"} <=> ClientOf(c) = "failed"
<1>1. frame[c] \in {"idle", "rejected", "waiting", "ready", "returned", "timed_out"}
  BY DEF TypeOK
<1> QED BY <1>1 DEF ClientOf

LEMMA ClientStatesNext ==
  ASSUME TypeOK', NEW c \in Calls
  PROVE  /\ frame'[c] = "idle" <=> ClientOf(c)' = "idle"
         /\ frame'[c] \in {"waiting", "ready"} <=> ClientOf(c)' = "waiting"
         /\ frame'[c] = "returned" <=> ClientOf(c)' = "returned"
         /\ frame'[c] \in {"rejected", "timed_out"} <=> ClientOf(c)' = "failed"
<1>1. frame'[c] \in {"idle", "rejected", "waiting", "ready", "returned", "timed_out"}
  BY DEF TypeOK
<1> QED BY <1>1 DEF ClientOf

LEMMA ServerStates ==
  ASSUME TypeOK, NEW c \in Calls
  PROVE  /\ execution[c] \in {"none", "ignored"} <=> ServerOf(c) = "none"
         /\ execution[c] \in {"running", "refused"} <=> ServerOf(c) = "running"
         /\ execution[c] = "replied" <=> ServerOf(c) = "done"
<1>1. execution[c] \in {"none", "running", "ignored", "refused", "replied"}
  BY DEF TypeOK
<1> QED BY <1>1 DEF ServerOf

LEMMA ServerStatesNext ==
  ASSUME TypeOK', NEW c \in Calls
  PROVE  /\ execution'[c] \in {"none", "ignored"} <=> ServerOf(c)' = "none"
         /\ execution'[c] \in {"running", "refused"} <=> ServerOf(c)' = "running"
         /\ execution'[c] = "replied" <=> ServerOf(c)' = "done"
<1>1. execution'[c] \in {"none", "running", "ignored", "refused", "replied"}
  BY DEF TypeOK
<1> QED BY <1>1 DEF ServerOf

\* What RemoteCall sees.
Client == [c \in Calls |-> ClientOf(c)]
Server == [c \in Calls |-> ServerOf(c)]

LEMMA ClientChange ==
  ASSUME TypeOK, TypeOK', NEW c \in Calls, NEW v, frame' = [frame EXCEPT ![c] = v]
  PROVE  Client' = [Client EXCEPT ![c] = ClientOf(c)'] /\ frame'[c] = v
<1>1. frame'[c] = v /\ \A d \in Calls : d # c => frame'[d] = frame[d]
  BY DEF TypeOK
<1>2. ASSUME NEW d \in Calls, d # c PROVE ClientOf(d)' = ClientOf(d)
  BY <1>1, <1>2 DEF ClientOf
<1> QED BY <1>1, <1>2 DEF Client

LEMMA ServerChange ==
  ASSUME TypeOK, TypeOK', NEW c \in Calls, NEW v, execution' = [execution EXCEPT ![c] = v]
  PROVE  Server' = [Server EXCEPT ![c] = ServerOf(c)'] /\ execution'[c] = v
<1>1. execution'[c] = v /\ \A d \in Calls : d # c => execution'[d] = execution[d]
  BY DEF TypeOK
<1>2. ASSUME NEW d \in Calls, d # c PROVE ServerOf(d)' = ServerOf(d)
  BY <1>1, <1>2 DEF ServerOf
<1> QED BY <1>1, <1>2 DEF Server

LEMMA ClientKept == ASSUME UNCHANGED frame PROVE Client' = Client
BY DEF Client, ClientOf

LEMMA ServerKept == ASSUME UNCHANGED execution PROVE Server' = Server
BY DEF Server, ServerOf

(* The steps of one call.                                                   *)
LEMMA CallStepPromise ==
  ASSUME Inv, Inv', NEW c \in Calls, CallStep(c)
  PROVE  Promise!Next \/ (Client' = Client /\ Server' = Server)
<1>1. TypeOK /\ TypeOK' /\ CallInv(c)
  BY DEF Inv
<1>2. Client[c] = ClientOf(c) /\ Server[c] = ServerOf(c)
  BY DEF Client, Server
<1>3. CASE RejectCall(c)
  <2>1. ClientOf(c) = "idle" /\ ClientOf(c)' = "failed" /\ Client' = [Client EXCEPT ![c] = "failed"]
    BY <1>1, <1>3, ClientChange, ClientStates, ClientStatesNext DEF RejectCall, MayCall
  <2>2. Server' = Server
    BY <1>3, ServerKept DEF RejectCall
  <2>3. Promise!Fail(c)
    BY <1>2, <2>1, <2>2 DEF Promise!Fail, Client, Server
  <2> QED BY <2>3 DEF Promise!Next
<1>4. CASE BeginCall(c)
  <2>1. ClientOf(c) = "idle" /\ Client' = [Client EXCEPT ![c] = "waiting"]
    BY <1>1, <1>4, ClientChange, ClientStates, ClientStatesNext DEF BeginCall, MayCall
  <2>2. Server' = Server
    BY <1>4, ServerKept DEF BeginCall
  <2>3. Promise!Call(c)
    BY <1>2, <2>1, <2>2 DEF Promise!Call, Client, Server
  <2> QED BY <2>3 DEF Promise!Next
<1>5. CASE IgnoreCall(c) \/ ExecuteCall(c)
  <2>1. busy[Provider(c)][TopicOf[c]] = Call(c) /\ execution[c] # "running"
    BY <1>5 DEF IgnoreCall, ExecuteCall
  <2>2. execution[c] = "none" /\ Sent(Call(c))
    <3>1. Held(Call(c), Provider(c)) /\ Sent(Call(c))
      BY <2>1, ConstantsTyped, HeldOnly, CallMessages DEF Inv, Provider
    <3>2. execution[c] \in {"none", "running", "ignored", "refused", "replied"}
      BY <1>1 DEF TypeOK
    <3> QED BY <1>1, <2>1, <3>1, <3>2 DEF CallInv, Gone
  <2>3. Client' = Client /\ ClientOf(c) # "idle" /\ ServerOf(c) = "none"
    BY <1>1, <1>5, <2>2, ClientKept, ClientStates, ServerStates, CallMessages DEF IgnoreCall, ExecuteCall
  <2>4. CASE IgnoreCall(c)
    <3>1. Server' = [Server EXCEPT ![c] = "none"]
      BY <1>1, <2>4, ServerChange, ServerStates, ServerStatesNext DEF IgnoreCall
    <3> QED BY <1>2, <2>3, <3>1 DEF Server
  <2>5. CASE ExecuteCall(c)
    <3>1. Server' = [Server EXCEPT ![c] = "running"]
      BY <1>1, <2>5, ServerChange, ServerStates, ServerStatesNext DEF ExecuteCall
    <3>2. Promise!Execute(c)
      BY <1>2, <2>3, <3>1 DEF Promise!Execute, Client, Server
    <3> QED BY <3>2 DEF Promise!Next
  <2> QED BY <1>5, <2>4, <2>5
<1>6. CASE FinishCall(c)
  <2>1. Client' = Client /\ ServerOf(c) = "running"
    BY <1>1, <1>6, ClientKept, ServerStates DEF FinishCall
  <2>2. CASE Refused(c)
    <3>1. Server' = [Server EXCEPT ![c] = "running"]
      BY <1>1, <1>6, <2>2, ServerChange, ServerStates, ServerStatesNext DEF FinishCall
    <3> QED BY <1>2, <2>1, <3>1 DEF Server
  <2>3. CASE ~Refused(c)
    <3>1. Server' = [Server EXCEPT ![c] = "done"]
      BY <1>1, <1>6, <2>3, ServerChange, ServerStates, ServerStatesNext DEF FinishCall
    <3>2. Promise!Finish(c)
      BY <1>2, <2>1, <3>1 DEF Promise!Finish, Client, Server
    <3> QED BY <3>2 DEF Promise!Next
  <2> QED BY <2>2, <2>3
<1>7. CASE RunResult(c)
  <2>1. Server' = Server
    BY <1>7, ServerKept DEF RunResult
  <2>2. CASE UNCHANGED frame
    BY <2>1, <2>2, ClientKept
  <2>3. CASE frame[c] = "waiting" /\ frame' = [frame EXCEPT ![c] = "ready"]
    <3>1. Client' = [Client EXCEPT ![c] = "waiting"] /\ ClientOf(c) = "waiting"
      BY <1>1, <2>3, ClientChange, ClientStates, ClientStatesNext
    <3> QED BY <1>2, <2>1, <3>1 DEF Client
  <2> QED BY <1>7, <2>2, <2>3 DEF RunResult
<1>8. CASE ReturnCall(c)
  <2>1. ClientOf(c) = "waiting" /\ Client' = [Client EXCEPT ![c] = "returned"]
    BY <1>1, <1>8, ClientChange, ClientStates, ClientStatesNext DEF ReturnCall
  <2>2. Server' = Server /\ ServerOf(c) = "done"
    BY <1>1, <1>8, ServerKept, CallMessages, ServerStates DEF ReturnCall, CallInv
  <2>3. Promise!Return(c)
    BY <1>2, <2>1, <2>2 DEF Promise!Return, Client, Server
  <2> QED BY <2>3 DEF Promise!Next
<1>9. CASE TimeoutCall(c)
  <2>1. ClientOf(c) = "waiting" /\ Client' = [Client EXCEPT ![c] = "failed"]
    BY <1>1, <1>9, ClientChange, ClientStates, ClientStatesNext DEF TimeoutCall
  <2>2. Server' = Server
    BY <1>9, ServerKept DEF TimeoutCall
  <2>3. Promise!Fail(c)
    BY <1>2, <2>1, <2>2 DEF Promise!Fail, Client, Server
  <2> QED BY <2>3 DEF Promise!Next
<1>10. CASE HandlerThrows(c)
  BY <1>10, ClientKept, ServerKept DEF HandlerThrows
<1> QED BY <1>3, <1>4, <1>5, <1>6, <1>7, <1>8, <1>9, <1>10 DEF CallStep

(* call_cmd and provide_cmd keep what RemoteCall promises, for any modules, *)
(* topics and nesting of calls: a command is executed at most once per call *)
(* and after it was called, and a call that returns has the result of its   *)
(* own execution (everest.cpp:166-279 and 791-875).                         *)
THEOREM RefinesRemoteCall == Spec => ImplementsRemoteCall
<1>1. Init => Promise!Init
  BY DEF Init, Promise!Init, ClientOf, ServerOf
<1>2. Inv /\ Inv' /\ [Next]_vars => [Promise!Next]_(Promise!vars)
  <2> SUFFICES ASSUME Inv, Inv', [Next]_vars
               PROVE  Promise!Next \/ (Client' = Client /\ Server' = Server)
    BY DEF Promise!vars, Client, Server
  <2>1. CASE UNCHANGED <<frame, execution>>
    BY <2>1, ClientKept, ServerKept
  <2> QED BY <2>1, CallStepPromise DEF Next, Provide, Transmit, Take, vars
<1> QED BY <1>1, <1>2, InvCorrect, PTL DEF Spec, ImplementsRemoteCall, Promise!Spec

=============================================================================
