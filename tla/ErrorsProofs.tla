---------------------------- MODULE ErrorsProofs ----------------------------
(***************************************************************************)
(* Proofs for Errors: where an error and its clearing can be, for any      *)
(* number of modules, errors, requests and restarts.                       *)
(*                                                                         *)
(* What is anywhere has been raised or requested (SentInv, RequestInv).    *)
(* Until a restart adds second handlers, an error is in one place at a     *)
(* time on its way from the module through the database to those it is     *)
(* reported to (PlaceInv).                                                 *)
(***************************************************************************)
EXTENDS Errors, FiniteSetTheorems, SequenceFacts

LEMMA ModulePacket ==
  ASSUME NEW p \in ModulePackets
  PROVE  \/ p.kind = "error" /\ p.id \in Uuids /\ p = Error(p.id)
         \/ p.kind = "request" /\ p.id \in Requests /\ p = ClearRequest(p.id)
BY DEF ModulePackets, Error, ClearRequest

LEMMA ManagerPacket ==
  ASSUME NEW p \in ManagerPackets
  PROVE  \/ p.kind = "cleared" /\ p.id \in Uuids /\ p = Cleared(p.id)
         \/ p.kind = "result" /\ p.id \in Requests /\ \A e \in Uuids : p # Cleared(e)
BY DEF ManagerPackets, Cleared, Result

LEMMA PacketIds ==
  /\ \A e \in Uuids : Error(e) \in ModulePackets /\ Error(e).kind = "error" /\ Error(e).id = e
  /\ \A r \in Requests : /\ ClearRequest(r) \in ModulePackets
                         /\ ClearRequest(r).kind = "request" /\ ClearRequest(r).id = r
  /\ \A e \in Uuids : Cleared(e) \in ManagerPackets /\ Cleared(e).kind = "cleared" /\ Cleared(e).id = e
BY DEF ModulePackets, ManagerPackets, Error, ClearRequest, Cleared

LEMMA Homes ==
  ASSUME NEW e \in Uuids
  PROVE  ModuleOf[From[e]] \in Modules /\ Topic(e) \in Topics /\ e # None
BY ErrorConstants DEF Modules, Topics

LEMMA Senders ==
  ASSUME NEW r \in Requests
  PROVE  ModuleOf[Request[r].impl] \in Modules
BY ErrorConstants DEF Modules

(* The messages that answer a request clear what it selects, and nothing    *)
(* else.                                                                    *)
LEMMA Listing ==
  ASSUME NEW S, IsFiniteSet(S)
  PROVE  /\ Cardinality(S) \in Nat
         /\ SetToSeq(S) \in [1..Cardinality(S) -> S]
         /\ \A x \in S : \E i \in 1..Cardinality(S) : SetToSeq(S)[i] = x
<1>1. Cardinality(S) \in Nat /\ ExistsBijection(1..Cardinality(S), S)
  BY FS_CardinalityType
<1>2. PICK f : f \in Bijection(1..Cardinality(S), S)
  BY <1>1 DEF ExistsBijection
<1>3. f \in [1..Cardinality(S) -> S] /\ IsInjective(f)
  BY <1>2 DEF Bijection, Injection
<1>4. SetToSeq(S) \in [1..Cardinality(S) -> S] /\ IsInjective(SetToSeq(S))
  BY <1>3 DEF SetToSeq
<1>5. SetToSeq(S) \in Injection(1..Cardinality(S), S)
  BY <1>4 DEF Injection
<1>6. IsFiniteSet(1..Cardinality(S)) /\ Cardinality(1..Cardinality(S)) = Cardinality(S)
  BY <1>1, FS_Interval
<1>7. SetToSeq(S) \in Surjection(1..Cardinality(S), S)
  BY <1>5, <1>6, FS_Injection
<1> QED BY <1>1, <1>4, <1>7 DEF Surjection

LEMMA Answers ==
  ASSUME NEW S \in SUBSET Uuids, IsFiniteSet(S), NEW r \in Requests
  PROVE  /\ Answer(r, S) \in Seq(ManagerPackets)
         /\ \A e \in Uuids : In(Cleared(e), Answer(r, S)) <=> e \in S
<1> DEFINE reports == [i \in 1..Cardinality(S) |-> Cleared(SetToSeq(S)[i])]
           result  == Result(r, S # {})
<1>1. /\ Cardinality(S) \in Nat
      /\ \A i \in 1..Cardinality(S) : SetToSeq(S)[i] \in S
      /\ \A x \in S : \E i \in 1..Cardinality(S) : SetToSeq(S)[i] = x
  BY Listing
<1>2. reports \in Seq(ManagerPackets) /\ Len(reports) = Cardinality(S)
  BY <1>1, PacketIds
<1>3. result \in ManagerPackets /\ \A e \in Uuids : result # Cleared(e)
  <2>1. (S # {}) \in BOOLEAN
    OBVIOUS
  <2>2. result.kind = "result" /\ \A e \in Uuids : Cleared(e).kind = "cleared"
    BY DEF Result, Cleared
  <2>3. result \in ManagerPackets
    BY <2>1 DEF ManagerPackets, Result
  <2> QED BY <2>2, <2>3
<1>4. \A e \in Uuids : In(Cleared(e), reports) <=> e \in S
  BY <1>1, <1>2, PacketIds DEF In
<1> HIDE DEF reports, result
<1>5. <<result>> \in Seq(ManagerPackets) /\ \A e \in Uuids : ~In(Cleared(e), <<result>>)
  BY <1>3 DEF In
<1>6. Answer(r, S) = reports \o <<result>>
  BY DEF Answer, reports, result
<1>7. Answer(r, S) \in Seq(ManagerPackets)
  BY <1>2, <1>5, <1>6
<1>8. ASSUME NEW e \in Uuids PROVE In(Cleared(e), Answer(r, S)) <=> e \in S
  <2>1. In(Cleared(e), reports \o <<result>>) <=> In(Cleared(e), reports) \/ In(Cleared(e), <<result>>)
    BY <1>2, <1>5, ConcatIn
  <2> QED BY <2>1, <1>4, <1>5, <1>6
<1> QED BY <1>7, <1>8

-----------------------------------------------------------------------------
(* The invariant                                                            *)

(* Only what its module has raised is on its way to the database.           *)
SentInv ==
  /\ \A e \in Uuids, m \in Modules : In(Error(e), out[m]) => m = ModuleOf[From[e]] /\ e \in raised
  /\ \A e \in Uuids, t \in Topics : In(e, errorQueue[t]) \/ adding[t] = e => t = Topic(e) /\ e \in raised

RequestInv ==
  \A r \in Requests :
    In(r, requestQueue) \/ (\E m \in Modules : In(ClearRequest(r), out[m])) => request[r] # "idle"

ReportInv == Reported \subseteq raised /\ ClearedOnlyOnRequest

(* Only what was raised is lost.                                            *)
LostInv == \A e \in Uuids : <<"manager", e>> \in lost => e \in raised

HomeInv == \A e \in Uuids, t \in Topics : In(e, clearedIn[t]) => t = Topic(e)

(* Errors are queued at the manager once start_modules has run.             *)
HandlerInv ==
  /\ IsFiniteSet(database)
  /\ \A t \in Topics : /\ handlersLeft[t] <= starts
                       /\ <<"manager", t>> \in subscribed \/ errorQueue[t] # <<>> => starts > 0

Sending(e) == In(Error(e), out[ModuleOf[From[e]]])
Queued(e)  == In(e, errorQueue[Topic(e)])
Adding(e)  == adding[Topic(e)] = e
Missed(e)  == <<"manager", e>> \in lost

PlaceInv(e) ==
  /\ Once(Error(e), out[ModuleOf[From[e]]]) /\ Once(e, errorQueue[Topic(e)])
  /\ Missed(e) => ~Sending(e) /\ ~Queued(e) /\ ~Adding(e) /\ e \notin database /\ e \notin Reported
  /\ Sending(e) => ~Queued(e) /\ ~Adding(e) /\ e \notin database /\ e \notin Reported
  /\ Queued(e) => ~Adding(e) /\ e \notin database /\ e \notin Reported
  /\ Adding(e) => e \notin database /\ e \notin Reported
  /\ e \in database => e \notin Reported
  /\ e \in raised => Sending(e) \/ Missed(e) \/ Queued(e) \/ Adding(e) \/ e \in database \/ e \in Reported

(* The subscriber is called with all that was raised and not lost to it,    *)
(* and with nothing else.                                                   *)
Unseen(e) == <<"errors", e>> \in lost

SeenInv ==
  \A e \in Uuids :
    /\ Once(Error(e), out[ModuleOf[From[e]]])
    /\ e \in raised <=> Sending(e) \/ In(e, errorsIn[Topic(e)]) \/ e \in seen \/ Unseen(e)
    /\ Sending(e) => ~In(e, errorsIn[Topic(e)]) /\ e \notin seen /\ ~Unseen(e)
    /\ Unseen(e) => ~In(e, errorsIn[Topic(e)]) /\ e \notin seen
    /\ \A t \in Topics : In(e, errorsIn[t]) => t = Topic(e)

(* The clearing of an error goes before the result that confirms it.        *)
Known(e) == In(e, clearedIn[Topic(e)]) \/ e \in seenCleared \/ <<"cleared", e>> \in lost

OrderInv ==
  \A r \in Requests :
    Request[r].mode = "ClearUUID" =>
      /\ request[r] = "success" => Known(Request[r].uuid)
      /\ \A j \in 1..Len(outManager) :
           outManager[j] = Result(r, TRUE) =>
             Known(Request[r].uuid) \/ \E i \in 1..(j - 1) : outManager[i] = Cleared(Request[r].uuid)

OneStartInv == starts <= 1 => ~terminated /\ \A e \in Uuids : PlaceInv(e)

IInv == TypeOK /\ SentInv /\ HomeInv /\ RequestInv /\ ReportInv /\ HandlerInv /\ SeenInv /\ LostInv /\ OrderInv /\ OneStartInv

Types == TypeOK /\ SentInv /\ HomeInv /\ HandlerInv

LEMMA InitInv == Init => IInv
<1> SUFFICES ASSUME Init PROVE IInv
  OBVIOUS
<1>1. /\ \A m \in Modules : out[m] = <<>>
      /\ \A t \in Topics : /\ errorQueue[t] = <<>> /\ adding[t] = None /\ handlersLeft[t] = 0
                           /\ errorsIn[t] = <<>> /\ clearedIn[t] = <<>>
      /\ requestQueue = <<>> /\ outManager = <<>> /\ raised = {} /\ database = {}
      /\ seen = {} /\ seenCleared = {} /\ starts = 0 /\ ~terminated /\ subscribed = {} /\ lost = {}
  BY DEF Init
<1>2. TypeOK
  <2>1. 0 \in 0..MaxStarts
    BY ErrorConstants
  <2>2. /\ out \in [Modules -> Seq(ModulePackets)]
        /\ adding \in [Topics -> Uuids \cup {None}]
        /\ handlersLeft \in [Topics -> 0..MaxStarts]
        /\ \A t \in Topics : adding[t] = None <=> handlersLeft[t] = 0
    BY <1>1, <2>1 DEF Init
  <2>3. /\ request \in [Requests -> {"idle", "waiting", "success", "failure"}]
        /\ errorQueue \in [Topics -> Seq(Uuids)]
        /\ errorsIn \in [Topics -> Seq(Uuids)] /\ clearedIn \in [Topics -> Seq(Uuids)]
    BY DEF Init
  <2>4. requestQueue \in Seq(Requests) /\ outManager \in Seq(ManagerPackets)
    BY <1>1
  <2>5. /\ raised \subseteq Uuids /\ database \subseteq raised /\ seen \subseteq Uuids /\ seenCleared \subseteq Uuids
        /\ starts \in 0..MaxStarts /\ terminated \in BOOLEAN
        /\ subscribed \subseteq Subscriptions /\ lost \subseteq Losses
    BY <1>1, <2>1 DEF Init
  <2> QED BY <2>2, <2>3, <2>4, <2>5 DEF TypeOK
<1>3. \A e \in Uuids : e \notin Reported
  BY <1>1, Homes DEF Reported, ToSet
<1>4. SentInv /\ HomeInv /\ RequestInv /\ SeenInv
  BY <1>1, EmptyIn, Homes DEF SentInv, HomeInv, RequestInv, SeenInv, Sending, Unseen
<1>5. ReportInv
  BY <1>3 DEF ReportInv, Reported, ClearedOnlyOnRequest
<1>6. HandlerInv
  BY <1>1, FS_EmptySet DEF HandlerInv
<1>7. \A e \in Uuids : PlaceInv(e)
  BY <1>1, <1>3, EmptyIn, Homes DEF PlaceInv, Sending, Queued, Adding, Missed
<1>8. OrderInv /\ LostInv
  BY <1>1 DEF OrderInv, LostInv, Init
<1> QED BY <1>1, <1>2, <1>4, <1>5, <1>6, <1>7, <1>8 DEF IInv, OneStartInv

(* The packets and queues of a step.                                        *)
LEMMA OutAppend ==
  ASSUME TypeOK, NEW i \in Impls, NEW p \in ModulePackets, Send(i, p), NEW c \in Modules, NEW x
  PROVE  /\ In(x, out'[c]) <=> In(x, out[c]) \/ (c = ModuleOf[i] /\ x = p)
         /\ Once(x, out[c]) /\ (c = ModuleOf[i] /\ x = p => ~In(x, out[c])) => Once(x, out'[c])
<1>1. out[c] \in Seq(ModulePackets) /\ out'[c] = IF c = ModuleOf[i] THEN Append(out[c], p) ELSE out[c]
  BY DEF TypeOK, Send
<1> QED BY <1>1, AppendIn

LEMMA OutTail ==
  ASSUME TypeOK, NEW d \in Modules, out[d] # <<>>, out' = [out EXCEPT ![d] = Tail(@)],
         NEW c \in Modules, NEW x
  PROVE  /\ In(x, out'[c]) => In(x, out[c])
         /\ In(x, out[c]) => In(x, out'[c]) \/ (c = d /\ x = Head(out[d]))
         /\ Once(x, out[c]) => Once(x, out'[c])
         /\ c = d /\ x = Head(out[d]) => In(x, out[c]) /\ (Once(x, out[c]) => ~In(x, out'[c]))
<1>1. out[c] \in Seq(ModulePackets) /\ out'[c] = IF c = d THEN Tail(out[c]) ELSE out[c]
  BY DEF TypeOK
<1> QED BY <1>1, TailIn

LEMMA QueueAppend ==
  ASSUME NEW f \in [Topics -> Seq(Uuids)], NEW d \in Topics, NEW e \in Uuids, NEW c \in Topics, NEW x
  PROVE  /\ In(x, [f EXCEPT ![d] = Append(@, e)][c]) <=> In(x, f[c]) \/ (c = d /\ x = e)
         /\ Once(x, f[c]) /\ (c = d /\ x = e => ~In(x, f[c])) => Once(x, [f EXCEPT ![d] = Append(@, e)][c])
<1>1. f[c] \in Seq(Uuids) /\ [f EXCEPT ![d] = Append(@, e)][c] = IF c = d THEN Append(f[c], e) ELSE f[c]
  OBVIOUS
<1> QED BY <1>1, AppendIn

LEMMA QueueTail ==
  ASSUME NEW f \in [Topics -> Seq(Uuids)], NEW d \in Topics, f[d] # <<>>, NEW c \in Topics, NEW x
  PROVE  /\ In(x, [f EXCEPT ![d] = Tail(@)][c]) => In(x, f[c])
         /\ In(x, f[c]) => In(x, [f EXCEPT ![d] = Tail(@)][c]) \/ (c = d /\ x = Head(f[d]))
         /\ Once(x, f[c]) => Once(x, [f EXCEPT ![d] = Tail(@)][c])
         /\ c = d /\ x = Head(f[d]) => In(x, f[c]) /\ (Once(x, f[c]) => ~In(x, [f EXCEPT ![d] = Tail(@)][c]))
<1>1. f[c] \in Seq(Uuids) /\ [f EXCEPT ![d] = Tail(@)][c] = IF c = d THEN Tail(f[c]) ELSE f[c]
  OBVIOUS
<1> QED BY <1>1, TailIn

LEMMA FromModule ==
  ASSUME TypeOK, NEW m \in Modules, BrokerFromModule(m)
  PROVE  LET p == Head(out[m]) IN
         /\ out[m] \in Seq(ModulePackets) /\ out[m] # <<>>
         /\ out' = [out EXCEPT ![m] = Tail(@)]
         /\ \/ /\ p.id \in Uuids /\ p = Error(p.id)
               /\ errorQueue' = Queue(errorQueue, "manager", Topic(p.id), p.id)
               /\ errorsIn' = Queue(errorsIn, "errors", Topic(p.id), p.id)
               /\ lost' = lost \cup Loss("manager", Topic(p.id), p.id) \cup Loss("errors", Topic(p.id), p.id)
               /\ UNCHANGED requestQueue
            \/ /\ p.id \in Requests /\ p = ClearRequest(p.id)
               /\ requestQueue' = IF AllRequests \in subscribed THEN Append(requestQueue, p.id)
                                  ELSE requestQueue
               /\ lost' = lost \cup Loss("requests", None, p.id)
               /\ UNCHANGED <<errorQueue, errorsIn>>
<1>1. out[m] \in Seq(ModulePackets) /\ out[m] # <<>> /\ Head(out[m]) \in ModulePackets
  BY TailIn DEF TypeOK, BrokerFromModule
<1> QED BY <1>1, ModulePacket, ZenonT(30) DEF BrokerFromModule

(* A message for a topic's queue is appended or lost.                       *)
LEMMA Queueing ==
  ASSUME NEW f \in [Topics -> Seq(Uuids)], NEW d \in Topics, NEW e \in Uuids, NEW a
  PROVE  /\ Queue(f, a, d, e) \in [Topics -> Seq(Uuids)]
         /\ \/ /\ Queue(f, a, d, e) = [f EXCEPT ![d] = Append(@, e)] /\ Loss(a, d, e) = {}
               /\ <<a, d>> \in subscribed
            \/ Queue(f, a, d, e) = f /\ Loss(a, d, e) = {<<a, e>>}
<1>1. CASE <<a, d>> \in subscribed
  <2>1. Queue(f, a, d, e) = [f EXCEPT ![d] = Append(@, e)] /\ Loss(a, d, e) = {}
    BY <1>1, Zenon DEF Queue, Loss
  <2>2. [f EXCEPT ![d] = Append(@, e)] \in [Topics -> Seq(Uuids)]
    OBVIOUS
  <2> QED BY <1>1, <2>1, <2>2, Zenon
<1>2. CASE <<a, d>> \notin subscribed
  BY <1>2, Zenon DEF Queue, Loss
<1> QED BY <1>1, <1>2, Zenon

LEMMA QueueIn ==
  ASSUME NEW f \in [Topics -> Seq(Uuids)], NEW d \in Topics, NEW e \in Uuids, NEW a, NEW c \in Topics, NEW x
  PROVE  /\ In(x, Queue(f, a, d, e)[c]) <=> In(x, f[c]) \/ (c = d /\ x = e /\ <<a, d>> \in subscribed)
         /\ Once(x, f[c]) /\ (c = d /\ x = e => ~In(x, f[c])) => Once(x, Queue(f, a, d, e)[c])
<1> DEFINE g == [f EXCEPT ![d] = Append(@, e)]
<1>1. /\ In(x, g[c]) <=> In(x, f[c]) \/ (c = d /\ x = e)
      /\ Once(x, f[c]) /\ (c = d /\ x = e => ~In(x, f[c])) => Once(x, g[c])
  BY QueueAppend
<1>2. Queue(f, a, d, e) = IF <<a, d>> \in subscribed THEN g ELSE f
  BY DEF Queue
<1> HIDE DEF g
<1>3. CASE <<a, d>> \in subscribed
  <2>1. Queue(f, a, d, e) = g
    BY <1>2, <1>3
  <2> QED BY <1>1, <1>3, <2>1, Zenon
<1>4. CASE <<a, d>> \notin subscribed
  <2>1. Queue(f, a, d, e) = f
    BY <1>2, <1>4
  <2> QED BY <1>4, <2>1, Zenon
<1> QED BY <1>3, <1>4

(* Where an error is after a step of the broker                             *)
LEMMA ErrorArrives ==
  ASSUME TypeOK, NEW m \in Modules, BrokerFromModule(m), NEW e \in Uuids
  PROVE  LET arrives == Error(e) = Head(out[m]) IN
         /\ \A t \in Topics :
              /\ In(e, errorQueue'[t])
                   <=> In(e, errorQueue[t]) \/ (t = Topic(e) /\ arrives /\ <<"manager", t>> \in subscribed)
              /\ Once(e, errorQueue[t]) /\ (arrives => ~In(e, errorQueue[t])) => Once(e, errorQueue'[t])
              /\ In(e, errorsIn'[t])
                   <=> In(e, errorsIn[t]) \/ (t = Topic(e) /\ arrives /\ <<"errors", t>> \in subscribed)
         /\ Missed(e)' <=> Missed(e) \/ (arrives /\ <<"manager", Topic(e)>> \notin subscribed)
         /\ Unseen(e)' <=> Unseen(e) \/ (arrives /\ <<"errors", Topic(e)>> \notin subscribed)
         /\ <<"cleared", e>> \in lost' <=> <<"cleared", e>> \in lost
<1> DEFINE p == Head(out[m])
<1>1. CASE /\ p.id \in Requests /\ p = ClearRequest(p.id)
           /\ lost' = lost \cup Loss("requests", None, p.id) /\ UNCHANGED <<errorQueue, errorsIn>>
  <2>1. Error(e) # p
    BY <1>1, PacketIds DEF Error, ClearRequest
  <2> HIDE DEF p
  <2>2. /\ <<"manager", e>> \in lost' <=> <<"manager", e>> \in lost
        /\ <<"errors", e>> \in lost' <=> <<"errors", e>> \in lost
        /\ <<"cleared", e>> \in lost' <=> <<"cleared", e>> \in lost
    BY <1>1 DEF Loss
  <2> QED BY <1>1, <2>1, <2>2 DEF p, Missed, Unseen
<1>2. CASE /\ p.id \in Uuids /\ p = Error(p.id)
           /\ errorQueue' = Queue(errorQueue, "manager", Topic(p.id), p.id)
           /\ errorsIn' = Queue(errorsIn, "errors", Topic(p.id), p.id)
           /\ lost' = lost \cup Loss("manager", Topic(p.id), p.id) \cup Loss("errors", Topic(p.id), p.id)
  <2>1. Error(e) = p <=> e = p.id
    BY <1>2, PacketIds
  <2>2. Topic(p.id) \in Topics /\ errorQueue \in [Topics -> Seq(Uuids)] /\ errorsIn \in [Topics -> Seq(Uuids)]
    BY <1>2, Homes DEF TypeOK
  <2> HIDE DEF p
  <2>3. \A t \in Topics :
          /\ In(e, errorQueue'[t])
               <=> In(e, errorQueue[t]) \/ (t = Topic(p.id) /\ e = p.id /\ <<"manager", Topic(p.id)>> \in subscribed)
          /\ Once(e, errorQueue[t]) /\ (e = p.id => ~In(e, errorQueue[t])) => Once(e, errorQueue'[t])
          /\ In(e, errorsIn'[t])
               <=> In(e, errorsIn[t]) \/ (t = Topic(p.id) /\ e = p.id /\ <<"errors", Topic(p.id)>> \in subscribed)
    <3> TAKE t \in Topics
    <3> DEFINE id == p.id
               d  == Topic(id)
    <3>1. id \in Uuids /\ d \in Topics
      BY <1>2, <2>2
    <3> HIDE DEF id, d
    <3>2. /\ In(e, Queue(errorQueue, "manager", d, id)[t])
               <=> In(e, errorQueue[t]) \/ (t = d /\ e = id /\ <<"manager", d>> \in subscribed)
          /\ Once(e, errorQueue[t]) /\ (t = d /\ e = id => ~In(e, errorQueue[t]))
               => Once(e, Queue(errorQueue, "manager", d, id)[t])
      BY <2>2, <3>1, QueueIn
    <3>3. In(e, Queue(errorsIn, "errors", d, id)[t])
            <=> In(e, errorsIn[t]) \/ (t = d /\ e = id /\ <<"errors", d>> \in subscribed)
      BY <2>2, <3>1, QueueIn
    <3>4. /\ errorQueue' = Queue(errorQueue, "manager", d, id)
          /\ errorsIn' = Queue(errorsIn, "errors", d, id)
      BY <1>2 DEF d, id
    <3> QED BY <3>2, <3>3, <3>4, Zenon DEF d, id
  <2>4. /\ <<"manager", e>> \in lost'
             <=> <<"manager", e>> \in lost \/ (e = p.id /\ <<"manager", Topic(p.id)>> \notin subscribed)
        /\ <<"errors", e>> \in lost'
             <=> <<"errors", e>> \in lost \/ (e = p.id /\ <<"errors", Topic(p.id)>> \notin subscribed)
        /\ <<"cleared", e>> \in lost' <=> <<"cleared", e>> \in lost
    BY <1>2 DEF Loss
  <2> QED BY <2>1, <2>3, <2>4 DEF p, Missed, Unseen
<1> QED BY <1>1, <1>2, FromModule, Zenon

LEMMA ClearedTypes ==
  ASSUME TypeOK, HandlerInv, HandleRequest
  PROVE  LET r == Head(requestQueue) IN
         /\ r \in Requests /\ requestQueue \in Seq(Requests) /\ requestQueue # <<>>
         /\ ClearedBy(r) \in SUBSET database /\ ClearedBy(r) \in SUBSET Uuids /\ IsFiniteSet(ClearedBy(r))
         /\ Answer(r, ClearedBy(r)) \in Seq(ManagerPackets)
         /\ \A e \in Uuids : In(Cleared(e), Answer(r, ClearedBy(r))) <=> e \in ClearedBy(r)
<1> DEFINE r == Head(requestQueue)
<1>1. r \in Requests /\ requestQueue \in Seq(Requests) /\ requestQueue # <<>>
  BY TailIn DEF TypeOK, HandleRequest
<1>2. ClearedBy(r) \in SUBSET database /\ ClearedBy(r) \in SUBSET Uuids
  BY DEF ClearedBy, TypeOK
<1>3. IsFiniteSet(ClearedBy(r))
  BY <1>2, FS_Subset DEF HandlerInv
<1> QED BY <1>1, <1>2, <1>3, Answers

LEMMA TypeNext == ASSUME Types, [Next]_vars PROVE TypeOK'
<1> USE DEF Types, moduleVars, brokerVars, bridgeVars, subscriber
<1>1. ASSUME NEW e \in Uuids, Raise(e) PROVE TypeOK'
  BY <1>1, PacketIds, Homes DEF TypeOK, Raise, Send
<1>2. ASSUME NEW r \in Requests, RequestClear(r) PROVE TypeOK'
  BY <1>2, PacketIds, Senders DEF TypeOK, RequestClear, Send
<1>3. ASSUME NEW m \in Modules, BrokerFromModule(m) PROVE TypeOK'
  <2>1. out' \in [Modules -> Seq(ModulePackets)]
    <3>1. Tail(out[m]) \in Seq(ModulePackets) /\ out' = [out EXCEPT ![m] = Tail(@)]
      BY <1>3, FromModule, TailIn
    <3> QED BY <3>1 DEF TypeOK
  <2>2. errorQueue' \in [Topics -> Seq(Uuids)] /\ errorsIn' \in [Topics -> Seq(Uuids)]
        /\ requestQueue' \in Seq(Requests) /\ lost' \subseteq Losses
    <3> DEFINE n == Head(out[m])
    <3>1. CASE /\ n.id \in Uuids
               /\ errorQueue' = Queue(errorQueue, "manager", Topic(n.id), n.id)
               /\ errorsIn' = Queue(errorsIn, "errors", Topic(n.id), n.id)
               /\ lost' = lost \cup Loss("manager", Topic(n.id), n.id) \cup Loss("errors", Topic(n.id), n.id)
               /\ UNCHANGED requestQueue
      <4> HIDE DEF n
      <4>1. Loss("manager", Topic(n.id), n.id) \subseteq Losses /\ Loss("errors", Topic(n.id), n.id) \subseteq Losses
        BY <3>1 DEF Loss, Losses
      <4>2. errorQueue' \in [Topics -> Seq(Uuids)] /\ errorsIn' \in [Topics -> Seq(Uuids)]
        BY <3>1, Queueing, Homes DEF TypeOK
      <4> QED BY <3>1, <4>1, <4>2 DEF TypeOK
    <3>2. CASE /\ n.id \in Requests
               /\ requestQueue' = IF AllRequests \in subscribed THEN Append(requestQueue, n.id)
                                  ELSE requestQueue
               /\ lost' = lost \cup Loss("requests", None, n.id)
               /\ UNCHANGED <<errorQueue, errorsIn>>
      <4> HIDE DEF n
      <4>1. Loss("requests", None, n.id) \subseteq Losses
        BY <3>2 DEF Loss, Losses
      <4> QED BY <3>2, <4>1 DEF TypeOK
    <3> QED BY <1>3, <3>1, <3>2, FromModule
  <2> QED BY <1>3, <2>1, <2>2 DEF TypeOK, BrokerFromModule
<1>4. CASE StartModules
  BY <1>4, ErrorConstants DEF TypeOK, StartModules
<1>5. ASSUME NEW t \in Topics, TakeError(t) PROVE TypeOK'
  <2>1. Head(errorQueue[t]) \in Uuids /\ Tail(errorQueue[t]) \in Seq(Uuids) /\ Head(errorQueue[t]) # None
    BY <1>5, TailIn, ErrorConstants DEF TypeOK, TakeError
  <2>2. starts \in 1..MaxStarts
    <3>1. starts > 0
      BY <1>5 DEF TakeError, HandlerInv
    <3>2. starts \in 0..MaxStarts /\ MaxStarts \in Nat
      BY ErrorConstants DEF TypeOK
    <3> QED BY <3>1, <3>2
  <2> QED BY <1>5, <2>1, <2>2 DEF TypeOK, TakeError, HandlersOf
<1>6. ASSUME NEW t \in Topics, HandleError(t) PROVE TypeOK'
  <2>1. adding[t] \in raised /\ handlersLeft[t] \in 1..MaxStarts
    BY <1>6, ErrorConstants DEF TypeOK, HandleError, SentInv
  <2>2. database' \subseteq raised' /\ terminated' \in BOOLEAN
    BY <1>6, <2>1 DEF TypeOK, HandleError, AddError
  <2>3. /\ adding' \in [Topics -> Uuids \cup {None}]
        /\ handlersLeft' \in [Topics -> 0..MaxStarts]
        /\ \A u \in Topics : adding'[u] = None <=> handlersLeft'[u] = 0
    BY <1>6, <2>1, ErrorConstants DEF TypeOK, HandleError
  <2> QED BY <1>6, <2>2, <2>3 DEF TypeOK, HandleError
<1>7. CASE HandleRequest
  <2>1. outManager' \in Seq(ManagerPackets)
    BY <1>7, ClearedTypes DEF TypeOK, HandleRequest
  <2>2. requestQueue' \in Seq(Requests) /\ database' \subseteq database
    BY <1>7, ClearedTypes, TailIn DEF TypeOK, HandleRequest
  <2> QED BY <1>7, <2>1, <2>2 DEF TypeOK, HandleRequest
<1>8. CASE BrokerFromManager
  <2>1. /\ outManager \in Seq(ManagerPackets) /\ outManager # <<>>
        /\ Head(outManager) \in ManagerPackets /\ Tail(outManager) \in Seq(ManagerPackets)
    BY <1>8, TailIn DEF TypeOK, BrokerFromManager
  <2>2. /\ request' \in [Requests -> {"idle", "waiting", "success", "failure"}]
        /\ clearedIn' \in [Topics -> Seq(Uuids)] /\ lost' \subseteq Losses
    <3> DEFINE n == Head(outManager)
    <3>1. CASE n.kind = "cleared"
      <4>1. n.id \in Uuids /\ Topic(n.id) \in Topics
        BY <2>1, <3>1, ManagerPacket, Homes
      <4>2. /\ clearedIn' = Queue(clearedIn, "cleared", Topic(n.id), n.id)
            /\ lost' = lost \cup Loss("cleared", Topic(n.id), n.id) /\ UNCHANGED request
        BY <1>8, <3>1 DEF BrokerFromManager
      <4> HIDE DEF n
      <4>3. Loss("cleared", Topic(n.id), n.id) \subseteq Losses
        BY <4>1 DEF Loss, Losses
      <4> QED BY <4>1, <4>2, <4>3, Queueing DEF TypeOK
    <3>2. CASE n.kind = "result"
      BY <1>8, <3>2 DEF TypeOK, BrokerFromManager
    <3> QED BY <2>1, <3>1, <3>2, ManagerPacket
  <2> QED BY <1>8, <2>1, <2>2 DEF TypeOK, BrokerFromManager
<1>9. ASSUME NEW t \in Topics, RunErrorCallback(t) \/ RunClearedCallback(t) PROVE TypeOK'
  <2>1. RunErrorCallback(t) => Head(errorsIn[t]) \in Uuids /\ Tail(errorsIn[t]) \in Seq(Uuids)
    BY TailIn DEF TypeOK, RunErrorCallback
  <2>2. RunClearedCallback(t) => Head(clearedIn[t]) \in Uuids /\ Tail(clearedIn[t]) \in Seq(Uuids)
    BY TailIn DEF TypeOK, RunClearedCallback
  <2> QED BY <1>9, <2>1, <2>2 DEF TypeOK, RunErrorCallback, RunClearedCallback
<1>10. ASSUME NEW s \in Subscriptions, Subscribe(s) PROVE TypeOK'
  BY <1>10 DEF TypeOK, Subscribe
<1>11. CASE UNCHANGED vars
  BY <1>11 DEF TypeOK, vars
<1> QED BY <1>1, <1>2, <1>3, <1>4, <1>5, <1>6, <1>7, <1>8, <1>9, <1>10, <1>11 DEF Next

-----------------------------------------------------------------------------
(* Raised and requested                                                     *)

LEMMA SentNext == ASSUME Types, [Next]_vars PROVE SentInv'
<1> USE DEF Types, moduleVars, brokerVars, bridgeVars
<1>1. ASSUME NEW f \in Uuids, Raise(f) PROVE SentInv'
  <2>1. Send(From[f], Error(f)) /\ From[f] \in Impls
    BY <1>1, ErrorConstants DEF Raise
  <2>2. \A e \in Uuids, m \in Modules :
          In(Error(e), out'[m]) => In(Error(e), out[m]) \/ (m = ModuleOf[From[f]] /\ e = f)
    BY <2>1, OutAppend, PacketIds
  <2> QED BY <1>1, <2>2 DEF SentInv, Raise
<1>2. ASSUME NEW r \in Requests, RequestClear(r) PROVE SentInv'
  <2>1. Send(Request[r].impl, ClearRequest(r)) /\ Request[r].impl \in Impls
    BY <1>2, ErrorConstants DEF RequestClear
  <2>2. ASSUME NEW e \in Uuids, NEW m \in Modules PROVE In(Error(e), out'[m]) => In(Error(e), out[m])
    <3>1. ClearRequest(r) \in ModulePackets /\ Error(e) # ClearRequest(r)
      BY PacketIds DEF Error, ClearRequest
    <3> QED BY <2>1, <3>1, OutAppend, SMTT(30)
  <2> QED BY <1>2, <2>2 DEF SentInv, RequestClear
<1>3. ASSUME NEW n \in Modules, BrokerFromModule(n) PROVE SentInv'
  <2> DEFINE p == Head(out[n])
  <2>1. UNCHANGED <<raised, adding>> /\ out[n] # <<>>
    BY <1>3 DEF BrokerFromModule
  <2>2. \A e \in Uuids, m \in Modules : In(Error(e), out'[m]) => In(Error(e), out[m])
    BY <1>3, FromModule, OutTail
  <2>3. In(p, out[n])
    BY <2>1, TailIn DEF TypeOK
  <2>4. \A e \in Uuids, t \in Topics :
          In(e, errorQueue'[t]) => In(e, errorQueue[t]) \/ (t = Topic(e) /\ Error(e) = p)
    BY <1>3, ErrorArrives
  <2>5. \A e \in Uuids : Error(e) = p => e \in raised
    BY <2>3 DEF SentInv
  <2> QED BY <2>1, <2>2, <2>4, <2>5 DEF SentInv
<1>4. ASSUME NEW u \in Topics, TakeError(u) PROVE SentInv'
  <2>1. UNCHANGED <<raised, out>> /\ errorQueue[u] # <<>>
    BY <1>4 DEF TakeError
  <2>2. \A e \in Uuids, t \in Topics : In(e, errorQueue'[t]) => In(e, errorQueue[t])
    <3>1. errorQueue \in [Topics -> Seq(Uuids)] /\ errorQueue' = [errorQueue EXCEPT ![u] = Tail(@)]
      BY <1>4 DEF TypeOK, TakeError
    <3> QED BY <2>1, <3>1, QueueTail
  <2>3. In(Head(errorQueue[u]), errorQueue[u])
    BY <2>1, TailIn DEF TypeOK
  <2>4. \A t \in Topics : adding'[t] = IF t = u THEN Head(errorQueue[u]) ELSE adding[t]
    BY <1>4 DEF TypeOK, TakeError
  <2> QED BY <2>1, <2>2, <2>3, <2>4 DEF SentInv
<1>5. ASSUME NEW u \in Topics, HandleError(u) PROVE SentInv'
  <2>1. \A t \in Topics : adding'[t] = adding[t] \/ adding'[t] = None
    BY <1>5 DEF TypeOK, HandleError
  <2> QED BY <1>5, <2>1, Homes DEF SentInv, HandleError
<1>6. CASE UNCHANGED <<raised, out, errorQueue, adding>>
  BY <1>6 DEF SentInv
<1> QED BY <1>1, <1>2, <1>3, <1>4, <1>5, <1>6
        DEF Next, StartModules, Subscribe, HandleRequest, BrokerFromManager, RunErrorCallback, RunClearedCallback, subscriber, vars

LEMMA RequestNext ==
  ASSUME Types, RequestInv, [Next]_vars 
  PROVE  RequestInv' /\ \A r \in Requests : request[r] # "idle" => request'[r] # "idle"
<1> USE DEF Types, moduleVars, brokerVars, bridgeVars
<1>1. \A r \in Requests : request[r] # "idle" => request'[r] # "idle"
  BY Zenon DEF TypeOK, Next, Raise, RequestClear, BrokerFromModule, StartModules, Subscribe, HandleRequest, BrokerFromManager,
         TakeError, HandleError, RunErrorCallback, RunClearedCallback, vars
<1>2. ASSUME NEW f \in Uuids, Raise(f) PROVE RequestInv'
  <2>1. Send(From[f], Error(f)) /\ From[f] \in Impls
    BY <1>2, ErrorConstants DEF Raise
  <2>2. \A q \in Requests, m \in Modules : In(ClearRequest(q), out'[m]) => In(ClearRequest(q), out[m])
    BY <2>1, OutAppend, PacketIds
  <2> QED BY <1>1, <1>2, <2>2 DEF RequestInv, Raise
<1>3. ASSUME NEW r \in Requests, RequestClear(r) PROVE RequestInv'
  <2>1. Send(Request[r].impl, ClearRequest(r)) /\ Request[r].impl \in Impls
    BY <1>3, ErrorConstants DEF RequestClear
  <2>2. \A q \in Requests, m \in Modules : In(ClearRequest(q), out'[m]) => In(ClearRequest(q), out[m]) \/ q = r
    BY <2>1, OutAppend, PacketIds
  <2>3. request'[r] # "idle"
    BY <1>3 DEF RequestClear, TypeOK
  <2> QED BY <1>1, <1>3, <2>2, <2>3 DEF RequestInv, RequestClear
<1>4. ASSUME NEW n \in Modules, BrokerFromModule(n) PROVE RequestInv'
  <2> DEFINE p == Head(out[n])
  <2>1. \A q \in Requests, m \in Modules : In(ClearRequest(q), out'[m]) => In(ClearRequest(q), out[m])
    BY <1>4, FromModule, OutTail
  <2>2. In(p, out[n])
    BY <1>4, TailIn DEF TypeOK, BrokerFromModule
  <2>3. ASSUME NEW q \in Requests, In(q, requestQueue') PROVE In(q, requestQueue) \/ In(ClearRequest(q), out[n])
    <3>1. CASE UNCHANGED requestQueue
      BY <2>3, <3>1
    <3>2. CASE p.id \in Requests /\ p = ClearRequest(p.id) /\ requestQueue' = Append(requestQueue, p.id)
      <4> HIDE DEF p
      <4>1. In(q, requestQueue) \/ q = p.id
        BY <2>3, <3>2, AppendIn DEF TypeOK
      <4> QED BY <2>2, <3>2, <4>1
    <3>3. UNCHANGED requestQueue
          \/ (p.id \in Requests /\ p = ClearRequest(p.id) /\ requestQueue' = Append(requestQueue, p.id))
      BY <1>4, FromModule
    <3> QED BY <3>1, <3>2, <3>3
  <2> QED BY <1>1, <2>1, <2>3 DEF RequestInv
<1>5. CASE HandleRequest
  <2>1. \A q \in Requests : In(q, requestQueue') => In(q, requestQueue)
    BY <1>5, TailIn DEF TypeOK, HandleRequest
  <2> QED BY <1>1, <1>5, <2>1 DEF RequestInv, HandleRequest
<1>6. CASE UNCHANGED <<out, requestQueue>>
  BY <1>1, <1>6 DEF RequestInv
<1> QED BY <1>1, <1>2, <1>3, <1>4, <1>5, <1>6
        DEF Next, StartModules, Subscribe, TakeError, HandleError, BrokerFromManager, RunErrorCallback, RunClearedCallback, subscriber, vars

-----------------------------------------------------------------------------
(* Reported                                                                 *)

LEMMA FromManager ==
  ASSUME TypeOK, BrokerFromManager
  PROVE  LET p == Head(outManager) IN
         /\ outManager \in Seq(ManagerPackets) /\ outManager # <<>>
         /\ outManager' = Tail(outManager) /\ UNCHANGED seenCleared
         /\ \/ /\ p.id \in Uuids /\ p = Cleared(p.id)
               /\ clearedIn' = Queue(clearedIn, "cleared", Topic(p.id), p.id)
               /\ lost' = lost \cup Loss("cleared", Topic(p.id), p.id)
            \/ /\ \A e \in Uuids : p # Cleared(e)
               /\ UNCHANGED <<clearedIn, lost>>
<1>1. outManager \in Seq(ManagerPackets) /\ outManager # <<>> /\ Head(outManager) \in ManagerPackets
  BY TailIn DEF TypeOK, BrokerFromManager
<1>2. \A e \in Uuids : Cleared(e).kind = "cleared"
  BY PacketIds
<1> QED BY <1>1, <1>2, ManagerPacket DEF BrokerFromManager, subscriber

(* Where the clearing of an error is after a step of the broker             *)
LEMMA ClearedAppend ==
  ASSUME TypeOK, BrokerFromManager, NEW e \in Uuids
  PROVE  LET arrives == Head(outManager) = Cleared(e) IN
         /\ \A t \in Topics :
              In(e, clearedIn'[t])
                <=> In(e, clearedIn[t]) \/ (t = Topic(e) /\ arrives /\ <<"cleared", t>> \in subscribed)
         /\ <<"cleared", e>> \in lost'
              <=> <<"cleared", e>> \in lost \/ (arrives /\ <<"cleared", Topic(e)>> \notin subscribed)
         /\ Missed(e)' <=> Missed(e)
         /\ Unseen(e)' <=> Unseen(e)
<1> DEFINE p == Head(outManager)
<1>1. CASE (\A f \in Uuids : p # Cleared(f)) /\ UNCHANGED <<clearedIn, lost>>
  BY <1>1 DEF Missed, Unseen
<1>2. CASE /\ p.id \in Uuids /\ p = Cleared(p.id)
           /\ clearedIn' = Queue(clearedIn, "cleared", Topic(p.id), p.id)
           /\ lost' = lost \cup Loss("cleared", Topic(p.id), p.id)
  <2>1. p = Cleared(e) <=> e = p.id
    BY <1>2, PacketIds
  <2> HIDE DEF p
  <2>2. clearedIn \in [Topics -> Seq(Uuids)] /\ Topic(p.id) \in Topics
    BY <1>2, Homes DEF TypeOK
  <2>3. \A t \in Topics :
          In(e, clearedIn'[t])
            <=> In(e, clearedIn[t]) \/ (t = Topic(p.id) /\ e = p.id /\ <<"cleared", Topic(p.id)>> \in subscribed)
    BY <1>2, <2>2, QueueIn
  <2>4. /\ <<"cleared", e>> \in lost'
             <=> <<"cleared", e>> \in lost \/ (e = p.id /\ <<"cleared", Topic(p.id)>> \notin subscribed)
        /\ <<"manager", e>> \in lost' <=> <<"manager", e>> \in lost
        /\ <<"errors", e>> \in lost' <=> <<"errors", e>> \in lost
    BY <1>2 DEF Loss
  <2> QED BY <2>1, <2>3, <2>4 DEF p, Missed, Unseen
<1> QED BY <1>1, <1>2, FromManager, Zenon

LEMMA ClearedLost ==
  ASSUME TypeOK, [Next]_vars, NEW e \in Uuids
  PROVE  BrokerFromManager \/ (<<"cleared", e>> \in lost' <=> <<"cleared", e>> \in lost)
<1>1. ASSUME NEW m \in Modules, BrokerFromModule(m) PROVE <<"cleared", e>> \in lost' <=> <<"cleared", e>> \in lost
  BY <1>1, ErrorArrives
<1>2. CASE UNCHANGED lost
  BY <1>2
<1> QED BY <1>1, <1>2, Zenon
        DEF Next, Raise, RequestClear, StartModules, Subscribe, HandleRequest, TakeError, HandleError,
            RunErrorCallback, RunClearedCallback, brokerVars, vars

LEMMA HomeNext == ASSUME Types, [Next]_vars PROVE HomeInv'
<1> USE DEF Types, moduleVars, brokerVars, bridgeVars
<1>1. CASE BrokerFromManager
  BY <1>1, ClearedAppend DEF HomeInv
<1>2. ASSUME NEW u \in Topics, RunClearedCallback(u) PROVE HomeInv'
  <2>1. clearedIn \in [Topics -> Seq(Uuids)] /\ clearedIn[u] # <<>> /\ clearedIn' = [clearedIn EXCEPT ![u] = Tail(@)]
    BY <1>2 DEF TypeOK, RunClearedCallback
  <2>2. \A e \in Uuids, t \in Topics : In(e, clearedIn'[t]) => In(e, clearedIn[t])
    BY <2>1, QueueTail
  <2> QED BY <2>2 DEF HomeInv
<1>3. CASE UNCHANGED clearedIn
  BY <1>3 DEF HomeInv
<1> QED BY <1>1, <1>2, <1>3, Zenon
        DEF Next, Raise, RequestClear, BrokerFromModule, StartModules, Subscribe, HandleRequest, TakeError, HandleError,
            RunErrorCallback, subscriber, vars

LEMMA ReportedIn ==
  ASSUME TypeOK, NEW e \in Uuids
  PROVE  e \in Reported <=> In(Cleared(e), outManager) \/ In(e, clearedIn[Topic(e)]) \/ e \in seenCleared
                           \/ <<"cleared", e>> \in lost
<1>1. outManager \in Seq(ManagerPackets) /\ clearedIn[Topic(e)] \in Seq(Uuids)
  BY Homes DEF TypeOK
<1> QED BY <1>1, ElementsIn DEF Reported, ToSet

LEMMA ReportedInNext ==
  ASSUME TypeOK', NEW e \in Uuids
  PROVE  e \in Reported' <=> In(Cleared(e), outManager') \/ In(e, clearedIn'[Topic(e)]) \/ e \in seenCleared'
                            \/ <<"cleared", e>> \in lost'
<1>1. outManager' \in Seq(ManagerPackets) /\ clearedIn'[Topic(e)] \in Seq(Uuids)
  BY Homes DEF TypeOK
<1> QED BY <1>1, ElementsIn DEF Reported, ToSet

(* Only the handler of clear requests reports errors.                       *)
LEMMA ReportedNext ==
  ASSUME Types, [Next]_vars, NEW e \in Uuids
  PROVE  /\ HandleRequest => (e \in Reported' <=> e \in Reported \/ e \in ClearedBy(Head(requestQueue)))
         /\ \/ BrokerFromManager \/ \E u \in Topics : RunClearedCallback(u)
            \/ UNCHANGED <<outManager, clearedIn, seenCleared>>
            => (e \in Reported' <=> e \in Reported)
<1> USE DEF Types, moduleVars, brokerVars, bridgeVars
<1>0. TypeOK'
  BY TypeNext
<1>1. ASSUME HandleRequest PROVE e \in Reported' <=> e \in Reported \/ e \in ClearedBy(Head(requestQueue))
  <2> DEFINE r == Head(requestQueue)
  <2>1. outManager' = outManager \o Answer(r, ClearedBy(r)) /\ UNCHANGED <<clearedIn, seenCleared, lost>>
    BY <1>1 DEF HandleRequest, subscriber
  <2>2. /\ Answer(r, ClearedBy(r)) \in Seq(ManagerPackets) /\ outManager \in Seq(ManagerPackets)
        /\ In(Cleared(e), Answer(r, ClearedBy(r))) <=> e \in ClearedBy(r)
    BY <1>1, ClearedTypes DEF TypeOK
  <2> HIDE DEF r
  <2>3. In(Cleared(e), outManager') <=> In(Cleared(e), outManager) \/ e \in ClearedBy(r)
    BY <2>1, <2>2, ConcatIn
  <2>4. e \in Reported' <=> e \in Reported \/ e \in ClearedBy(r)
    BY <1>0, <2>1, <2>3, ReportedIn, ReportedInNext
  <2> QED BY <2>4 DEF r
<1>2. ASSUME BrokerFromManager PROVE e \in Reported' <=> e \in Reported
  <2>1. /\ In(Cleared(e), outManager') => In(Cleared(e), outManager)
        /\ In(Cleared(e), outManager) => In(Cleared(e), outManager') \/ Head(outManager) = Cleared(e)
        /\ Head(outManager) = Cleared(e) => In(Cleared(e), outManager)
        /\ UNCHANGED seenCleared
    <3>1. /\ outManager \in Seq(ManagerPackets) /\ outManager # <<>>
          /\ outManager' = Tail(outManager) /\ UNCHANGED seenCleared
      BY <1>2, FromManager
    <3> QED BY <3>1, TailIn
  <2>2. In(e, clearedIn'[Topic(e)]) \/ <<"cleared", e>> \in lost'
          <=> In(e, clearedIn[Topic(e)]) \/ <<"cleared", e>> \in lost \/ Head(outManager) = Cleared(e)
    BY <1>2, ClearedAppend, Homes
  <2> QED BY <1>0, <2>1, <2>2, ReportedIn, ReportedInNext
<1>3. ASSUME NEW u \in Topics, RunClearedCallback(u) PROVE e \in Reported' <=> e \in Reported
  <2>1. /\ clearedIn \in [Topics -> Seq(Uuids)] /\ clearedIn[u] # <<>> /\ clearedIn' = [clearedIn EXCEPT ![u] = Tail(@)]
        /\ seenCleared' = seenCleared \cup {Head(clearedIn[u])} /\ UNCHANGED <<outManager, lost>>
    BY <1>3 DEF TypeOK, RunClearedCallback
  <2>2. /\ In(e, clearedIn'[Topic(e)]) => In(e, clearedIn[Topic(e)])
        /\ In(e, clearedIn[Topic(e)]) => In(e, clearedIn'[Topic(e)]) \/ (Topic(e) = u /\ e = Head(clearedIn[u]))
    BY <2>1, QueueTail, Homes, Zenon
  <2>3. In(Head(clearedIn[u]), clearedIn[u])
    BY <2>1, TailIn
  <2>4. e = Head(clearedIn[u]) => In(e, clearedIn[Topic(e)])
    BY <2>3 DEF HomeInv
  <2> QED BY <1>0, <2>1, <2>2, <2>4, ReportedIn, ReportedInNext
<1>4. ASSUME UNCHANGED <<outManager, clearedIn, seenCleared>> PROVE e \in Reported' <=> e \in Reported
  BY <1>0, <1>2, <1>4, ClearedLost, ReportedIn, ReportedInNext
<1> QED BY <1>1, <1>2, <1>3, <1>4

(* The database                                                             *)
LEMMA DatabaseNext ==
  ASSUME Types, [Next]_vars
  PROVE  \/ UNCHANGED database
         \/ \E t \in Topics : /\ HandleError(t) /\ adding[t] \in raised /\ adding[t] \notin database
                              /\ database' = database \cup {adding[t]}
         \/ HandleRequest /\ database' = database \ ClearedBy(Head(requestQueue))
<1> USE DEF Types, moduleVars, brokerVars, bridgeVars
<1>1. ASSUME NEW t \in Topics, HandleError(t)
      PROVE  \/ UNCHANGED database
             \/ /\ adding[t] \in raised /\ adding[t] \notin database
                /\ database' = database \cup {adding[t]}
  BY <1>1 DEF TypeOK, HandleError, AddError, SentInv
<1>2. HandleRequest => database' = database \ ClearedBy(Head(requestQueue))
  BY DEF HandleRequest
<1> QED BY <1>1, <1>2, Zenon
        DEF Next, Raise, RequestClear, BrokerFromModule, StartModules, Subscribe, TakeError, BrokerFromManager,
            RunErrorCallback, RunClearedCallback, subscriber, vars

LEMMA HandlerNext == ASSUME Types, [Next]_vars PROVE HandlerInv'
<1> USE DEF Types, moduleVars, brokerVars, bridgeVars
<1>1. IsFiniteSet(database')
  BY DatabaseNext, FS_AddElement, FS_Subset DEF HandlerInv
<1>2. starts \in Nat /\ (starts' = starts \/ starts' = starts + 1)
  <2>1. starts \in Nat
    BY ErrorConstants DEF TypeOK
  <2> QED BY <2>1, Zenon DEF Next, Raise, RequestClear, BrokerFromModule, StartModules, Subscribe, HandleRequest, BrokerFromManager,
                      TakeError, HandleError, RunErrorCallback, RunClearedCallback, vars
<1>3. ASSUME NEW t \in Topics
      PROVE  handlersLeft'[t] \in {handlersLeft[t], handlersLeft[t] - 1, starts}
  <2>1. ASSUME NEW u \in Topics, TakeError(u)
        PROVE  handlersLeft'[t] \in {handlersLeft[t], handlersLeft[t] - 1, starts}
    BY <2>1 DEF TypeOK, TakeError, HandlersOf
  <2>2. ASSUME NEW u \in Topics, HandleError(u)
        PROVE  handlersLeft'[t] \in {handlersLeft[t], handlersLeft[t] - 1, starts}
    BY <2>2 DEF TypeOK, HandleError
  <2>3. CASE UNCHANGED handlersLeft
    BY <2>3
  <2>4. \/ UNCHANGED handlersLeft
        \/ \E u \in Topics : TakeError(u) \/ HandleError(u)
    BY Zenon DEF Next, Raise, RequestClear, BrokerFromModule, StartModules, Subscribe, HandleRequest,
                 BrokerFromManager, RunErrorCallback, RunClearedCallback, vars
  <2> QED BY <2>1, <2>2, <2>3, <2>4, Zenon
<1>4. ASSUME NEW t \in Topics PROVE handlersLeft[t] \in Nat /\ handlersLeft[t] <= starts
  <2>1. handlersLeft[t] \in 0..MaxStarts /\ MaxStarts \in Nat
    BY ErrorConstants DEF TypeOK
  <2>2. handlersLeft[t] <= starts
    BY DEF HandlerInv
  <2> QED BY <2>1, <2>2
<1>5. ASSUME NEW t \in Topics, <<"manager", t>> \in subscribed' \/ errorQueue'[t] # <<>> PROVE starts > 0
  <2>1. CASE <<"manager", t>> \in subscribed \/ errorQueue[t] # <<>>
    BY <2>1 DEF HandlerInv
  <2>2. ASSUME NEW s \in Subscriptions, Subscribe(s), s = <<"manager", t>> PROVE starts > 0
    BY <2>2 DEF Subscribe
  <2>3. ASSUME NEW n \in Modules, BrokerFromModule(n) PROVE starts > 0
    <3>1. UNCHANGED subscribed
      BY <2>3 DEF BrokerFromModule
    <3> DEFINE id == Head(out[n]).id
    <3>2. errorQueue' = errorQueue \/ (id \in Uuids /\ errorQueue' = Queue(errorQueue, "manager", Topic(id), id))
      BY <2>3, FromModule
    <3> HIDE DEF id
    <3>3. errorQueue'[t] = errorQueue[t] \/ <<"manager", t>> \in subscribed
      BY <3>2, Homes DEF Queue, TypeOK
    <3> QED BY <1>5, <2>1, <3>1, <3>3
  <2>4. ASSUME NEW u \in Topics, TakeError(u) PROVE starts > 0
    <3>1. UNCHANGED subscribed /\ (errorQueue'[t] = errorQueue[t] \/ errorQueue[t] # <<>>)
      BY <2>4 DEF TakeError, TypeOK
    <3> QED BY <1>5, <2>1, <3>1
  <2>5. CASE UNCHANGED <<subscribed, errorQueue>>
    BY <1>5, <2>1, <2>5
  <2>6. ASSUME NEW s \in Subscriptions, Subscribe(s), s # <<"manager", t>> PROVE starts > 0
    <3>1. UNCHANGED errorQueue /\ (<<"manager", t>> \in subscribed' => <<"manager", t>> \in subscribed)
      BY <2>6 DEF Subscribe
    <3> QED BY <1>5, <2>1, <3>1
  <2> QED BY <2>2, <2>3, <2>4, <2>5, <2>6, Zenon
          DEF Next, Raise, RequestClear, StartModules, HandleRequest, HandleError, BrokerFromManager,
              RunErrorCallback, RunClearedCallback, vars
<1> QED BY <1>1, <1>2, <1>3, <1>4, <1>5 DEF HandlerInv

LEMMA RaisedGrows == ASSUME [Next]_vars PROVE raised \subseteq raised'
  BY Zenon DEF Next, Raise, RequestClear, BrokerFromModule, StartModules, Subscribe, HandleRequest, BrokerFromManager,
         TakeError, HandleError, RunErrorCallback, RunClearedCallback, moduleVars, vars

LEMMA LostNext == ASSUME Types, LostInv, [Next]_vars PROVE LostInv'
<1> USE DEF Types
<1> SUFFICES ASSUME NEW e \in Uuids, Missed(e)' PROVE e \in raised'
  BY DEF LostInv, Missed
<1>1. Missed(e) => e \in raised'
  BY RaisedGrows DEF LostInv, Missed
<1>2. ASSUME NEW n \in Modules, BrokerFromModule(n) PROVE e \in raised'
  <2>1. Missed(e) \/ Error(e) = Head(out[n])
    BY <1>2, ErrorArrives
  <2>2. In(Head(out[n]), out[n])
    BY <1>2, TailIn DEF TypeOK, BrokerFromModule
  <2> QED BY <1>1, <2>1, <2>2, RaisedGrows DEF SentInv
<1>3. CASE BrokerFromManager
  BY <1>1, <1>3, ClearedAppend
<1>4. CASE UNCHANGED lost
  BY <1>1, <1>4 DEF Missed
<1> QED BY <1>2, <1>3, <1>4, Zenon
        DEF Next, Raise, RequestClear, StartModules, Subscribe, HandleRequest, TakeError, HandleError,
            RunErrorCallback, RunClearedCallback, brokerVars, vars

LEMMA ReportNext == ASSUME Types, RequestInv, ReportInv, [Next]_vars PROVE ReportInv'
<1> USE DEF Types
<1> SUFFICES ASSUME NEW e \in Uuids, e \in Reported'
             PROVE  /\ e \in raised'
                    /\ \E r \in Requests : request'[r] # "idle" /\ Request[r].impl = From[e] /\ Selects(r, e)
  BY DEF ReportInv, ClearedOnlyOnRequest, Reported
<1>1. \A r \in Requests : request[r] # "idle" => request'[r] # "idle"
  BY RequestNext
<1>2. CASE e \in Reported
  BY <1>1, <1>2, RaisedGrows DEF ReportInv, ClearedOnlyOnRequest
<1>3. CASE HandleRequest /\ e \in ClearedBy(Head(requestQueue))
  <2> DEFINE r == Head(requestQueue)
  <2>1. r \in Requests /\ In(r, requestQueue)
    BY <1>3, ClearedTypes, TailIn
  <2>2. e \in database /\ Request[r].impl = From[e] /\ Selects(r, e)
    BY <1>3 DEF ClearedBy
  <2> QED BY <1>1, <2>1, <2>2, RaisedGrows DEF TypeOK, RequestInv
<1>4. \/ HandleRequest \/ BrokerFromManager \/ \E u \in Topics : RunClearedCallback(u)
      \/ UNCHANGED <<outManager, clearedIn, seenCleared>>
  BY Zenon DEF Next, Raise, RequestClear, BrokerFromModule, StartModules, Subscribe, TakeError, HandleError, RunErrorCallback,
         subscriber, vars
<1> QED BY <1>2, <1>3, <1>4, ReportedNext

-----------------------------------------------------------------------------
(* What the subscriber sees                                                 *)

LEMMA SendingNext ==
  ASSUME TypeOK, NEW e \in Uuids
  PROVE  /\ \A f \in Uuids : Raise(f) => (Sending(e)' <=> Sending(e) \/ e = f)
         /\ \A r \in Requests : RequestClear(r) => (Sending(e)' <=> Sending(e))
         /\ \A n \in Modules : BrokerFromModule(n) =>
              /\ Sending(e)' => Sending(e)
              /\ Sending(e) => Sending(e)' \/ (n = ModuleOf[From[e]] /\ Error(e) = Head(out[n]))
<1> DEFINE m == ModuleOf[From[e]]
<1>1. m \in Modules
  BY Homes
<1>2. ASSUME NEW f \in Uuids, Raise(f) PROVE Sending(e)' <=> Sending(e) \/ e = f
  <2>1. Send(From[f], Error(f)) /\ From[f] \in Impls /\ Error(f) \in ModulePackets
    BY <1>2, ErrorConstants, PacketIds DEF Raise
  <2>2. In(Error(e), out'[m]) <=> In(Error(e), out[m]) \/ (m = ModuleOf[From[f]] /\ Error(e) = Error(f))
    BY <1>1, <2>1, OutAppend
  <2>3. Error(e) = Error(f) <=> e = f
    BY PacketIds
  <2> QED BY <2>2, <2>3 DEF Sending
<1>3. ASSUME NEW r \in Requests, RequestClear(r) PROVE Sending(e)' <=> Sending(e)
  <2>1. Send(Request[r].impl, ClearRequest(r)) /\ Request[r].impl \in Impls
    BY <1>3, ErrorConstants DEF RequestClear
  <2>2. ClearRequest(r) \in ModulePackets /\ Error(e) # ClearRequest(r)
    BY PacketIds DEF Error, ClearRequest
  <2>3. In(Error(e), out'[m]) <=> In(Error(e), out[m]) \/ (m = ModuleOf[Request[r].impl] /\ Error(e) = ClearRequest(r))
    <3> HIDE DEF m
    <3> QED BY <1>1, <2>1, <2>2, OutAppend, SMTT(30)
  <2> QED BY <2>2, <2>3 DEF Sending
<1>4. ASSUME NEW n \in Modules, BrokerFromModule(n)
      PROVE  /\ Sending(e)' => Sending(e)
             /\ Sending(e) => Sending(e)' \/ (n = m /\ Error(e) = Head(out[n]))
  BY <1>1, <1>4, OutTail DEF Sending, BrokerFromModule
<1> QED BY <1>2, <1>3, <1>4

LEMMA SeenNext == ASSUME Types, SeenInv, [Next]_vars PROVE SeenInv'
<1> USE DEF Types, moduleVars, brokerVars, bridgeVars
<1>1. ASSUME NEW f \in Uuids, Raise(f) PROVE SeenInv'
  <2>1. raised' = raised \cup {f} /\ f \notin raised /\ UNCHANGED <<errorsIn, seen, lost>>
    BY <1>1 DEF Raise, subscriber
  <2>2. \A e \in Uuids : Sending(e)' <=> Sending(e) \/ e = f
    BY <1>1, SendingNext
  <2>3. \A e \in Uuids : Once(Error(e), out'[ModuleOf[From[e]]])
    <3>1. Send(From[f], Error(f)) /\ From[f] \in Impls /\ Error(f) \in ModulePackets
      BY <1>1, ErrorConstants, PacketIds DEF Raise
    <3>2. \A e \in Uuids : Error(e) = Error(f) => ~In(Error(e), out[ModuleOf[From[e]]])
      BY <2>1, PacketIds DEF SeenInv, Sending
    <3> QED BY <3>1, <3>2, OutAppend, Homes DEF SeenInv
  <2> QED BY <2>1, <2>2, <2>3 DEF SeenInv, Unseen
<1>2. ASSUME NEW r \in Requests, RequestClear(r) PROVE SeenInv'
  <2>1. UNCHANGED <<raised, errorsIn, seen, lost>>
    BY <1>2 DEF RequestClear, subscriber
  <2>2. \A e \in Uuids : Sending(e)' <=> Sending(e)
    BY <1>2, SendingNext
  <2>3. ASSUME NEW e \in Uuids PROVE Once(Error(e), out'[ModuleOf[From[e]]])
    <3>1. Send(Request[r].impl, ClearRequest(r)) /\ Request[r].impl \in Impls
      BY <1>2, ErrorConstants DEF RequestClear
    <3>2. ClearRequest(r) \in ModulePackets /\ Error(e) # ClearRequest(r)
      BY PacketIds DEF Error, ClearRequest
    <3>3. Once(Error(e), out[ModuleOf[From[e]]])
      BY DEF SeenInv
    <3> QED BY <3>1, <3>2, <3>3, OutAppend, Homes
  <2> QED BY <2>1, <2>2, <2>3 DEF SeenInv, Unseen
<1>3. ASSUME NEW n \in Modules, BrokerFromModule(n) PROVE SeenInv'
  <2> DEFINE p == Head(out[n])
  <2>1. UNCHANGED <<raised, seen>> /\ out[n] # <<>> /\ out' = [out EXCEPT ![n] = Tail(@)]
    BY <1>3 DEF BrokerFromModule
  <2>2. \A e \in Uuids : Error(e) = p => n = ModuleOf[From[e]]
    <3>1. In(p, out[n])
      BY <2>1, TailIn DEF TypeOK
    <3> QED BY <3>1 DEF SentInv
  <2>3. ASSUME NEW e \in Uuids
        PROVE  /\ Once(Error(e), out'[ModuleOf[From[e]]])
               /\ Sending(e)' <=> Sending(e) /\ Error(e) # p
               /\ Error(e) = p => Sending(e)
    <3>1. Once(Error(e), out[ModuleOf[From[e]]])
      BY DEF SeenInv
    <3> QED BY <2>1, <2>2, <3>1, OutTail, Homes DEF Sending
  <2>4. \A e \in Uuids :
          /\ \A t \in Topics :
               In(e, errorsIn'[t])
                 <=> In(e, errorsIn[t]) \/ (t = Topic(e) /\ Error(e) = p /\ <<"errors", t>> \in subscribed)
          /\ Unseen(e)' <=> Unseen(e) \/ (Error(e) = p /\ <<"errors", Topic(e)>> \notin subscribed)
    BY <1>3, ErrorArrives
  <2> HIDE DEF p
  <2> SUFFICES ASSUME NEW e \in Uuids
               PROVE  /\ Once(Error(e), out'[ModuleOf[From[e]]])
                      /\ e \in raised <=> Sending(e)' \/ In(e, errorsIn'[Topic(e)]) \/ e \in seen \/ Unseen(e)'
                      /\ Sending(e)' => ~In(e, errorsIn'[Topic(e)]) /\ e \notin seen /\ ~Unseen(e)'
                      /\ Unseen(e)' => ~In(e, errorsIn'[Topic(e)]) /\ e \notin seen
                      /\ \A t \in Topics : In(e, errorsIn'[t]) => t = Topic(e)
    BY <2>1, Zenon DEF SeenInv
  <2>5. /\ e \in raised <=> Sending(e) \/ In(e, errorsIn[Topic(e)]) \/ e \in seen \/ Unseen(e)
        /\ Sending(e) => ~In(e, errorsIn[Topic(e)]) /\ e \notin seen /\ ~Unseen(e)
        /\ Unseen(e) => ~In(e, errorsIn[Topic(e)]) /\ e \notin seen
        /\ \A t \in Topics : In(e, errorsIn[t]) => t = Topic(e)
    BY Zenon DEF SeenInv
  <2>6. In(e, errorsIn'[Topic(e)])
          <=> In(e, errorsIn[Topic(e)]) \/ (Error(e) = p /\ <<"errors", Topic(e)>> \in subscribed)
    BY <2>4, Homes
  <2>7. \A t \in Topics : In(e, errorsIn'[t]) => t = Topic(e)
    BY <2>4, <2>5
  <2>8. Unseen(e)' <=> Unseen(e) \/ (Error(e) = p /\ <<"errors", Topic(e)>> \notin subscribed)
    BY <2>4
  <2> QED BY <2>3, <2>5, <2>6, <2>7, <2>8, Zenon
<1>4. ASSUME NEW u \in Topics, RunErrorCallback(u) PROVE SeenInv'
  <2>1. /\ errorsIn \in [Topics -> Seq(Uuids)] /\ errorsIn[u] # <<>> /\ errorsIn' = [errorsIn EXCEPT ![u] = Tail(@)]
        /\ seen' = seen \cup {Head(errorsIn[u])} /\ UNCHANGED <<raised, out, lost>>
    BY <1>4 DEF TypeOK, RunErrorCallback
  <2>2. \A e \in Uuids, t \in Topics :
          /\ In(e, errorsIn'[t]) => In(e, errorsIn[t])
          /\ In(e, errorsIn[t]) => In(e, errorsIn'[t]) \/ e = Head(errorsIn[u])
    BY <2>1, QueueTail
  <2>3. In(Head(errorsIn[u]), errorsIn[u])
    BY <2>1, TailIn
  <2>4. \A e \in Uuids : e = Head(errorsIn[u]) => In(e, errorsIn[Topic(e)])
    BY <2>3 DEF SeenInv
  <2>5. \A e \in Uuids : /\ Sending(e)' <=> Sending(e)
                         /\ Unseen(e)' <=> Unseen(e)
                         /\ Once(Error(e), out'[ModuleOf[From[e]]])
    BY <2>1 DEF Sending, Unseen, SeenInv
  <2>6. \A e \in Uuids : e \in seen' <=> e \in seen \/ e = Head(errorsIn[u])
    BY <2>1
  <2>7. UNCHANGED raised
    BY <2>1
  <2> QED BY <2>2, <2>4, <2>5, <2>6, <2>7, Homes DEF SeenInv
<1>5. CASE BrokerFromManager
  <2>1. UNCHANGED <<raised, out, errorsIn, seen>>
    BY <1>5 DEF BrokerFromManager
  <2>2. \A e \in Uuids : Unseen(e)' <=> Unseen(e)
    BY <1>5, ClearedAppend
  <2> QED BY <2>1, <2>2 DEF SeenInv, Sending
<1>6. CASE UNCHANGED <<raised, out, errorsIn, seen, lost>>
  BY <1>6 DEF SeenInv, Sending, Unseen
<1> QED BY <1>1, <1>2, <1>3, <1>4, <1>5, <1>6
        DEF Next, StartModules, Subscribe, HandleRequest, TakeError, HandleError, RunClearedCallback,
            subscriber, vars

-----------------------------------------------------------------------------
(* One place at a time                                                      *)

(* The places of an error after the steps that move it                      *)
LEMMA QueuedNext ==
  ASSUME TypeOK, NEW e \in Uuids, NEW u \in Topics, TakeError(u)
  PROVE  /\ Once(e, errorQueue[Topic(e)]) => Once(e, errorQueue'[Topic(e)])
         /\ Queued(e)' => Queued(e)
         /\ Queued(e) => Queued(e)' \/ (u = Topic(e) /\ e = Head(errorQueue[u]))
         /\ u = Topic(e) /\ e = Head(errorQueue[u]) =>
              Queued(e) /\ (Once(e, errorQueue[Topic(e)]) => ~Queued(e)')
<1>1. /\ errorQueue \in [Topics -> Seq(Uuids)] /\ errorQueue[u] # <<>>
      /\ errorQueue' = [errorQueue EXCEPT ![u] = Tail(@)]
  BY DEF TypeOK, TakeError
<1> QED BY <1>1, QueueTail, Homes DEF Queued

LEMMA PlaceKept ==
  ASSUME NEW e \in Uuids, PlaceInv(e),
         Once(Error(e), out'[ModuleOf[From[e]]]), Once(e, errorQueue'[Topic(e)]),
         Sending(e)' <=> Sending(e), Queued(e)' <=> Queued(e), Adding(e)' <=> Adding(e),
         e \in database' <=> e \in database, e \in Reported' <=> e \in Reported,
         e \in raised' <=> e \in raised, Missed(e)' <=> Missed(e)
  PROVE  PlaceInv(e)'
BY DEF PlaceInv

LEMMA PlaceRaise ==
  ASSUME Types, ReportInv, LostInv, NEW e \in Uuids, PlaceInv(e), NEW f \in Uuids, Raise(f), [Next]_vars
  PROVE  PlaceInv(e)'
<1> USE DEF Types
<1>1. UNCHANGED <<errorQueue, adding, database, outManager, clearedIn, seenCleared, lost>>
  BY DEF Raise, brokerVars, bridgeVars, subscriber
<1>2. /\ Once(e, errorQueue'[Topic(e)]) /\ (Queued(e)' <=> Queued(e)) /\ (Adding(e)' <=> Adding(e))
      /\ (e \in database' <=> e \in database) /\ (e \in Reported' <=> e \in Reported)
      /\ Missed(e)' <=> Missed(e)
  BY <1>1, ReportedNext DEF PlaceInv, Queued, Adding, Missed
<1>3. Sending(e)' <=> Sending(e) \/ e = f
  BY SendingNext
<1>4. f \notin raised /\ raised' = raised \cup {f}
  BY DEF Raise
<1>5. e = f => ~Sending(e) /\ ~Missed(e) /\ ~Queued(e) /\ ~Adding(e) /\ e \notin database /\ e \notin Reported
  BY <1>4, Homes DEF SentInv, ReportInv, LostInv, TypeOK, Sending, Queued, Adding, Missed
<1>6. Once(Error(e), out'[ModuleOf[From[e]]])
  <2>1. Send(From[f], Error(f)) /\ From[f] \in Impls /\ Error(f) \in ModulePackets
    BY ErrorConstants, PacketIds DEF Raise
  <2>2. Error(e) = Error(f) => ~In(Error(e), out[ModuleOf[From[e]]])
    BY <1>5, PacketIds DEF Sending
  <2>3. Once(Error(e), out[ModuleOf[From[e]]])
    BY DEF PlaceInv
  <2> QED BY <2>1, <2>2, <2>3, OutAppend, Homes
<1>7. CASE e = f
  BY <1>2, <1>3, <1>4, <1>5, <1>6, <1>7 DEF PlaceInv
<1>8. CASE e # f
  BY <1>2, <1>3, <1>4, <1>6, <1>8, PlaceKept
<1> QED BY <1>7, <1>8

LEMMA PlaceRequest ==
  ASSUME Types, NEW e \in Uuids, PlaceInv(e), NEW r \in Requests, RequestClear(r), [Next]_vars
  PROVE  PlaceInv(e)'
<1> USE DEF Types
<1>1. UNCHANGED <<raised, errorQueue, adding, database, outManager, clearedIn, seenCleared, lost>>
  BY DEF RequestClear, brokerVars, bridgeVars, subscriber
<1>2. /\ Once(e, errorQueue'[Topic(e)]) /\ (Queued(e)' <=> Queued(e)) /\ (Adding(e)' <=> Adding(e))
      /\ (e \in database' <=> e \in database) /\ (e \in Reported' <=> e \in Reported)
      /\ (e \in raised' <=> e \in raised) /\ (Missed(e)' <=> Missed(e))
  BY <1>1, ReportedNext DEF PlaceInv, Queued, Adding, Missed
<1>3. Sending(e)' <=> Sending(e)
  BY SendingNext
<1>4. Once(Error(e), out'[ModuleOf[From[e]]])
  <2>1. Send(Request[r].impl, ClearRequest(r)) /\ Request[r].impl \in Impls
    BY ErrorConstants DEF RequestClear
  <2>2. ClearRequest(r) \in ModulePackets /\ Error(e) # ClearRequest(r)
    BY PacketIds DEF Error, ClearRequest
  <2>3. Once(Error(e), out[ModuleOf[From[e]]])
    BY DEF PlaceInv
  <2> QED BY <2>1, <2>2, <2>3, OutAppend, Homes
<1> QED BY <1>2, <1>3, <1>4, PlaceKept

LEMMA PlaceBroker ==
  ASSUME Types, NEW e \in Uuids, PlaceInv(e), NEW n \in Modules, BrokerFromModule(n), [Next]_vars
  PROVE  PlaceInv(e)'
<1> USE DEF Types
<1> DEFINE p == Head(out[n])
           m == ModuleOf[From[e]]
<1>1. UNCHANGED <<raised, adding, database, outManager, clearedIn, seenCleared>> /\ out[n] # <<>>
  BY DEF BrokerFromModule
<1>2. /\ (Adding(e)' <=> Adding(e)) /\ (e \in raised' <=> e \in raised)
      /\ (e \in database' <=> e \in database) /\ (e \in Reported' <=> e \in Reported)
  BY <1>1, ReportedNext DEF Adding
<1>3. /\ Once(Error(e), out'[m])
      /\ Sending(e)' => Sending(e)
      /\ Sending(e) => Sending(e)' \/ (m = n /\ Error(e) = p)
      /\ m = n /\ Error(e) = p => Sending(e) /\ ~Sending(e)'
  <2>1. out' = [out EXCEPT ![n] = Tail(@)]
    BY DEF BrokerFromModule
  <2>2. Once(Error(e), out[m])
    BY DEF PlaceInv
  <2> QED BY <1>1, <2>1, <2>2, OutTail, Homes DEF Sending
<1>4. Error(e) = p => m = n
  <2>1. In(p, out[n])
    BY <1>1, TailIn DEF TypeOK
  <2> QED BY <2>1 DEF SentInv
<1>5. /\ Queued(e)' <=> Queued(e) \/ (Error(e) = p /\ <<"manager", Topic(e)>> \in subscribed)
      /\ Missed(e)' <=> Missed(e) \/ (Error(e) = p /\ <<"manager", Topic(e)>> \notin subscribed)
      /\ Once(e, errorQueue[Topic(e)]) /\ (Error(e) = p => ~Queued(e)) => Once(e, errorQueue'[Topic(e)])
  BY ErrorArrives, Homes DEF Queued
<1> HIDE DEF p, m
<1>6. CASE Error(e) = p
  BY <1>2, <1>3, <1>4, <1>5, <1>6 DEF PlaceInv, m
<1>7. CASE Error(e) # p
  BY <1>2, <1>3, <1>5, <1>7, PlaceKept DEF PlaceInv, m
<1> QED BY <1>6, <1>7

LEMMA PlaceTake ==
  ASSUME Types, NEW e \in Uuids, PlaceInv(e), NEW u \in Topics, TakeError(u), [Next]_vars
  PROVE  PlaceInv(e)'
<1> USE DEF Types
<1> DEFINE f == Head(errorQueue[u])
<1>1. UNCHANGED <<raised, out, database, outManager, clearedIn, seenCleared, lost>>
  BY DEF TakeError, moduleVars, brokerVars, subscriber
<1>2. /\ Once(Error(e), out'[ModuleOf[From[e]]]) /\ (Sending(e)' <=> Sending(e)) /\ (e \in raised' <=> e \in raised)
      /\ (e \in database' <=> e \in database) /\ (e \in Reported' <=> e \in Reported)
      /\ Missed(e)' <=> Missed(e)
  BY <1>1, ReportedNext DEF PlaceInv, Sending, Missed
<1>3. e = f => u = Topic(e)
  <2>1. In(f, errorQueue[u])
    BY TailIn DEF TypeOK, TakeError
  <2> QED BY <2>1 DEF SentInv
<1>4. /\ Once(e, errorQueue'[Topic(e)]) /\ (Queued(e)' => Queued(e)) /\ (Queued(e) => Queued(e)' \/ e = f)
      /\ e = f => Queued(e) /\ ~Queued(e)'
  BY <1>3, QueuedNext DEF PlaceInv
<1>5. Adding(e)' <=> Adding(e) \/ e = f
  <2>1. adding[u] = None /\ \A t \in Topics : adding'[t] = IF t = u THEN f ELSE adding[t]
    BY DEF TypeOK, TakeError
  <2> HIDE DEF f
  <2> QED BY <1>3, <2>1, Homes DEF Adding
<1> HIDE DEF f
<1>6. CASE e = f
  BY <1>2, <1>4, <1>5, <1>6 DEF PlaceInv
<1>7. CASE e # f
  BY <1>2, <1>4, <1>5, <1>7, PlaceKept
<1> QED BY <1>6, <1>7

(* The only handler of the topic adds the error and is done.                *)
LEMMA PlaceHandle ==
  ASSUME Types, starts <= 1, \A f \in Uuids : PlaceInv(f), NEW e \in Uuids, NEW u \in Topics, HandleError(u),
         [Next]_vars
  PROVE  PlaceInv(e)' /\ UNCHANGED terminated
<1> USE DEF Types
<1> DEFINE f == adding[u]
<1>1. UNCHANGED <<raised, out, errorQueue, outManager, clearedIn, seenCleared, lost>> /\ f # None
  BY DEF HandleError, moduleVars, brokerVars, subscriber
<1>2. /\ Once(Error(e), out'[ModuleOf[From[e]]]) /\ (Sending(e)' <=> Sending(e)) /\ (e \in raised' <=> e \in raised)
      /\ Once(e, errorQueue'[Topic(e)]) /\ (Queued(e)' <=> Queued(e)) /\ (e \in Reported' <=> e \in Reported)
      /\ Missed(e)' <=> Missed(e)
  BY <1>1, ReportedNext DEF PlaceInv, Sending, Queued, Missed
<1>3. f \in Uuids /\ u = Topic(f)
  BY <1>1 DEF TypeOK, SentInv
<1>4. Adding(f) /\ f \notin database
  BY <1>3 DEF Adding, PlaceInv
<1>5. database' = database \cup {f} /\ UNCHANGED terminated
  BY <1>4 DEF HandleError, AddError
<1>6. \A t \in Topics : adding'[t] = IF t = u THEN None ELSE adding[t]
  <2>1. handlersLeft[u] = 1
    <3>1. handlersLeft[u] \in 0..MaxStarts /\ handlersLeft[u] # 0
      BY <1>1 DEF TypeOK
    <3>2. handlersLeft[u] <= starts /\ starts \in 0..MaxStarts /\ MaxStarts \in Nat
      BY ErrorConstants DEF TypeOK, HandlerInv
    <3> QED BY <3>1, <3>2
  <2> QED BY <2>1 DEF TypeOK, HandleError
<1>7. Adding(e)' <=> Adding(e) /\ e # f
  <2> HIDE DEF f
  <2>1. Adding(e)' <=> Topic(e) # u /\ Adding(e)
    BY <1>6, Homes DEF Adding
  <2>2. Adding(e) /\ Topic(e) = u => e = f
    BY DEF Adding, f
  <2>3. e = f => Topic(e) = u
    BY <1>3
  <2> QED BY <2>1, <2>2, <2>3
<1> HIDE DEF f
<1>8. CASE e = f
  BY <1>2, <1>4, <1>5, <1>7, <1>8 DEF PlaceInv
<1>9. CASE e # f
  BY <1>2, <1>5, <1>7, <1>9, PlaceKept
<1> QED BY <1>5, <1>8, <1>9

LEMMA PlaceHandleRequest ==
  ASSUME Types, NEW e \in Uuids, PlaceInv(e), HandleRequest, [Next]_vars
  PROVE  PlaceInv(e)'
<1> USE DEF Types
<1> DEFINE errors == ClearedBy(Head(requestQueue))
<1>1. UNCHANGED <<raised, out, errorQueue, adding, lost>> /\ database' = database \ errors
  BY DEF HandleRequest, moduleVars, brokerVars
<1>2. errors \subseteq database /\ (e \in Reported' <=> e \in Reported \/ e \in errors)
  BY ReportedNext, ClearedTypes
<1>3. /\ Once(Error(e), out'[ModuleOf[From[e]]]) /\ (Sending(e)' <=> Sending(e)) /\ (e \in raised' <=> e \in raised)
      /\ Once(e, errorQueue'[Topic(e)]) /\ (Queued(e)' <=> Queued(e)) /\ (Adding(e)' <=> Adding(e))
      /\ Missed(e)' <=> Missed(e)
  BY <1>1 DEF PlaceInv, Sending, Queued, Adding, Missed
<1> HIDE DEF errors
<1> QED BY <1>1, <1>2, <1>3 DEF PlaceInv

LEMMA OneStartNext ==
  ASSUME Types, ReportInv, LostInv, OneStartInv, [Next]_vars
  PROVE  OneStartInv'
<1> SUFFICES ASSUME starts' <= 1 PROVE ~terminated' /\ \A e \in Uuids : PlaceInv(e)'
  BY DEF OneStartInv
<1>1. starts <= 1
  <2>1. starts \in Nat
    BY ErrorConstants DEF Types, TypeOK
  <2>2. UNCHANGED starts \/ starts' = starts + 1
    BY Zenon DEF Next, Raise, RequestClear, BrokerFromModule, StartModules, Subscribe, HandleRequest, BrokerFromManager,
           TakeError, HandleError, RunErrorCallback, RunClearedCallback, bridgeVars, vars
  <2> QED BY <2>1, <2>2
<1>2. ~terminated /\ \A f \in Uuids : PlaceInv(f)
  BY <1>1 DEF OneStartInv
<1>3. ~terminated'
  <2>1. ASSUME NEW u \in Topics, HandleError(u) PROVE ~terminated'
    <3>1. \A e \in Uuids : UNCHANGED terminated
      BY <1>1, <1>2, <2>1, PlaceHandle
    <3>2. adding[u] \in Uuids
      BY <2>1 DEF HandleError, Types, TypeOK
    <3> QED BY <1>2, <3>1, <3>2
  <2>2. CASE UNCHANGED terminated
    BY <1>2, <2>2
  <2> QED BY <1>1, <2>1, <2>2, Zenon
          DEF Next, Raise, RequestClear, BrokerFromModule, StartModules, Subscribe, HandleRequest, BrokerFromManager, TakeError,
              RunErrorCallback, RunClearedCallback, bridgeVars, vars
<1>4. ASSUME NEW e \in Uuids PROVE PlaceInv(e)'
  <2>1. PlaceInv(e)
    BY <1>2
  <2>2. CASE \/ BrokerFromManager \/ StartModules
             \/ (\E u \in Topics : RunErrorCallback(u) \/ RunClearedCallback(u))
             \/ (\E s \in Subscriptions : Subscribe(s)) \/ UNCHANGED vars
    <3>1. UNCHANGED <<raised, out, errorQueue, adding, database>>
      BY <2>2, Zenon DEF BrokerFromManager, StartModules, Subscribe, RunErrorCallback, RunClearedCallback,
                  moduleVars, bridgeVars, vars
    <3>2. e \in Reported' <=> e \in Reported
      <4>1. \/ BrokerFromManager \/ \E u \in Topics : RunClearedCallback(u)
            \/ UNCHANGED <<outManager, clearedIn, seenCleared>>
        BY <2>2, Zenon DEF StartModules, Subscribe, RunErrorCallback, vars, subscriber
      <4> QED BY <4>1, ReportedNext
    <3>3. Missed(e)' <=> Missed(e)
      <4>1. BrokerFromManager \/ UNCHANGED lost
        BY <2>2, Zenon DEF StartModules, Subscribe, RunErrorCallback, RunClearedCallback, brokerVars, vars
      <4> QED BY <4>1, ClearedAppend DEF Missed, Types
    <3> QED BY <2>1, <3>1, <3>2, <3>3 DEF PlaceInv, Sending, Queued, Adding
  <2>3. ASSUME NEW u \in Topics, HandleError(u) PROVE PlaceInv(e)'
    BY <1>1, <1>2, <2>3, PlaceHandle
  <2> QED BY <1>1, <2>1, <2>2, <2>3, PlaceRaise, PlaceRequest, PlaceBroker, PlaceTake, PlaceHandleRequest
          DEF Next
<1> QED BY <1>3, <1>4

-----------------------------------------------------------------------------
(* Clearings and results                                                    *)

ResultLast(a, r, S) ==
  \E N \in Nat : /\ Len(a) = N + 1 /\ a[N + 1] = Result(r, S # {})
                 /\ \A i \in 1..N : a[i].kind = "cleared"
                 /\ \A e \in S : \E i \in 1..N : a[i] = Cleared(e)

LEMMA AnswerOrder ==
  ASSUME NEW S \in SUBSET Uuids, IsFiniteSet(S), NEW r \in Requests
  PROVE  ResultLast(Answer(r, S), r, S)
<1> DEFINE N       == Cardinality(S)
           reports == [i \in 1..N |-> Cleared(SetToSeq(S)[i])]
           last    == Result(r, S # {})
           a       == Answer(r, S)
<1>1. /\ N \in Nat /\ \A i \in 1..N : SetToSeq(S)[i] \in S
      /\ \A x \in S : \E i \in 1..N : SetToSeq(S)[i] = x
  BY Listing
<1>2. reports \in Seq(ManagerPackets) /\ Len(reports) = N /\ \A i \in 1..N : reports[i] = Cleared(SetToSeq(S)[i])
  BY <1>1, PacketIds
<1>3. a = reports \o <<last>>
  BY DEF Answer
<1> HIDE DEF N, reports, last, a
<1>4. Len(a) = N + 1 /\ a[N + 1] = last /\ \A i \in 1..N : a[i] = Cleared(SetToSeq(S)[i])
  <2>1. \A t \in Seq(ManagerPackets) :
          /\ Len(t \o <<last>>) = Len(t) + 1 /\ (t \o <<last>>)[Len(t) + 1] = last
          /\ \A i \in 1..Len(t) : (t \o <<last>>)[i] = t[i]
    <3>1. last \in ManagerPackets
      <4>1. (S # {}) \in BOOLEAN
        OBVIOUS
      <4> QED BY <4>1 DEF last, Result, ManagerPackets
    <3> QED BY <3>1
  <2>2. /\ Len(reports \o <<last>>) = N + 1 /\ (reports \o <<last>>)[N + 1] = last
        /\ \A i \in 1..N : (reports \o <<last>>)[i] = reports[i]
    BY <1>2, <2>1
  <2> QED BY <1>2, <1>3, <2>2
<1>5. \A i \in 1..N : a[i].kind = "cleared"
  BY <1>1, <1>4, PacketIds
<1>6. \A e \in S : \E i \in 1..N : a[i] = Cleared(e)
  BY <1>1, <1>4
<1> QED BY <1>1, <1>4, <1>5, <1>6 DEF a, last, ResultLast

LEMMA KnownNext ==
  ASSUME Types, [Next]_vars, NEW e \in Uuids
  PROVE  /\ Known(e) => Known(e)'
         /\ BrokerFromManager /\ Head(outManager) = Cleared(e) => Known(e)'
<1> USE DEF Types
<1>1. ASSUME BrokerFromManager
      PROVE  (Known(e) => Known(e)') /\ (Head(outManager) = Cleared(e) => Known(e)')
  <2>1. UNCHANGED seenCleared
    BY <1>1 DEF BrokerFromManager
  <2> QED BY <1>1, <2>1, ClearedAppend, Homes DEF Known
<1>2. ASSUME NEW u \in Topics, RunClearedCallback(u) PROVE Known(e) => Known(e)'
  <2>1. /\ clearedIn \in [Topics -> Seq(Uuids)] /\ clearedIn[u] # <<>> /\ clearedIn' = [clearedIn EXCEPT ![u] = Tail(@)]
        /\ seenCleared' = seenCleared \cup {Head(clearedIn[u])} /\ UNCHANGED lost
    BY <1>2 DEF TypeOK, RunClearedCallback, brokerVars
  <2>2. In(e, clearedIn[Topic(e)]) => In(e, clearedIn'[Topic(e)]) \/ e = Head(clearedIn[u])
    BY <2>1, QueueTail, Homes, Zenon
  <2> QED BY <2>1, <2>2 DEF Known
<1>3. CASE UNCHANGED <<clearedIn, seenCleared>>
  BY <1>1, <1>3, ClearedLost DEF Known
<1>4. BrokerFromManager \/ (\E u \in Topics : RunClearedCallback(u)) \/ UNCHANGED <<clearedIn, seenCleared>>
  BY Zenon DEF Next, Raise, RequestClear, BrokerFromModule, StartModules, Subscribe, HandleRequest, TakeError, HandleError,
         RunErrorCallback, subscriber, vars
<1> QED BY <1>1, <1>2, <1>3, <1>4

LEMMA OrderNext ==
  ASSUME Types, OrderInv, [Next]_vars
  PROVE  OrderInv'
<1> USE DEF Types
<1> SUFFICES ASSUME NEW q \in Requests, Request[q].mode = "ClearUUID"
             PROVE  /\ request'[q] = "success" => Known(Request[q].uuid)'
                    /\ \A j \in 1..Len(outManager') :
                         outManager'[j] = Result(q, TRUE) =>
                           Known(Request[q].uuid)' \/ \E i \in 1..(j - 1) : outManager'[i] = Cleared(Request[q].uuid)
  BY DEF OrderInv
<1> DEFINE e == Request[q].uuid
<1>1. e \in Uuids
  BY ErrorConstants
<1>2. Known(e) => Known(e)'
  BY <1>1, KnownNext
<1>3. /\ request[q] = "success" => Known(e)
      /\ \A j \in 1..Len(outManager) :
           outManager[j] = Result(q, TRUE) => Known(e) \/ \E i \in 1..(j - 1) : outManager[i] = Cleared(e)
  BY DEF OrderInv
<1> HIDE DEF e
<1>4. CASE HandleRequest
  <2> DEFINE first == Head(requestQueue)
             a == Answer(first, ClearedBy(first))
             L == Len(outManager)
  <2>1. /\ outManager \in Seq(ManagerPackets) /\ a \in Seq(ManagerPackets) /\ outManager' = outManager \o a
        /\ UNCHANGED request
    BY <1>4, ClearedTypes DEF TypeOK, HandleRequest, moduleVars
  <2>2. /\ L \in Nat /\ Len(outManager') = L + Len(a) /\ Len(a) \in Nat
        /\ \A i \in 1..L : outManager'[i] = outManager[i]
        /\ \A i \in 1..Len(a) : outManager'[L + i] = a[i]
    <3> HIDE DEF a
    <3> QED BY <2>1
  <2>3. ASSUME NEW k \in 1..Len(a), a[k] = Result(q, TRUE)
        PROVE  \E i \in 1..(k - 1) : a[i] = Cleared(e)
    <3> DEFINE errors == ClearedBy(first)
    <3>1. first \in Requests /\ errors \in SUBSET Uuids /\ IsFiniteSet(errors)
      BY <1>4, ClearedTypes
    <3> HIDE DEF first, errors
    <3>2. ResultLast(a, first, errors)
      <4>1. ResultLast(Answer(first, errors), first, errors)
        BY <3>1, AnswerOrder
      <4> QED BY <4>1 DEF a, errors
    <3> HIDE DEF a
    <3>3. PICK N \in Nat : /\ Len(a) = N + 1 /\ a[N + 1] = Result(first, errors # {})
                           /\ \A i \in 1..N : a[i].kind = "cleared"
                           /\ \A f \in errors : \E i \in 1..N : a[i] = Cleared(f)
      BY <3>2 DEF ResultLast
    <3>4. k = N + 1
      <4>1. Result(q, TRUE).kind = "result"
        BY DEF Result
      <4>2. k \notin 1..N
        BY <2>3, <3>3, <4>1
      <4> QED BY <3>3, <4>2
    <3>5. q = first /\ errors # {}
      <4>1. Result(first, errors # {}) = Result(q, TRUE)
        BY <2>3, <3>3, <3>4
      <4>2. Result(first, errors # {}).id = first /\ Result(first, errors # {}).success = (errors # {})
        BY DEF Result
      <4>3. Result(q, TRUE).id = q /\ Result(q, TRUE).success = TRUE
        BY DEF Result
      <4> QED BY <4>1, <4>2, <4>3
    <3>6. \A f \in errors : f = e
      BY <3>5 DEF errors, ClearedBy, Selects, e
    <3> QED BY <3>3, <3>4, <3>5, <3>6
  <2> HIDE DEF a, L
  <2>4. ASSUME NEW j \in 1..Len(outManager'), outManager'[j] = Result(q, TRUE)
        PROVE  Known(e)' \/ \E i \in 1..(j - 1) : outManager'[i] = Cleared(e)
    <3>1. CASE j \in 1..L
      <4>1. Known(e) \/ \E i \in 1..(j - 1) : outManager[i] = Cleared(e)
        BY <1>3, <2>2, <2>4, <3>1 DEF L
      <4>2. \A i \in 1..(j - 1) : i \in 1..L
        BY <2>2, <3>1
      <4> QED BY <1>2, <2>2, <4>1, <4>2
    <3>2. CASE j \notin 1..L
      <4>1. j - L \in 1..Len(a) /\ a[j - L] = Result(q, TRUE)
        <5>1. j - L \in 1..Len(a) /\ j = L + (j - L)
          BY <2>2, <3>2
        <5> QED BY <2>2, <2>4, <5>1
      <4>2. PICK i \in 1..((j - L) - 1) : a[i] = Cleared(e)
        BY <2>3, <4>1
      <4>3. L + i \in 1..(j - 1) /\ i \in 1..Len(a)
        BY <2>2, <4>1
      <4> QED BY <2>2, <4>2, <4>3
    <3> QED BY <3>1, <3>2
  <2> QED BY <1>2, <1>3, <2>1, <2>4 DEF e
<1>5. CASE BrokerFromManager
  <2> DEFINE p == Head(outManager)
  <2>1. /\ outManager \in Seq(ManagerPackets) /\ outManager # <<>> /\ outManager' = Tail(outManager)
    BY <1>5, FromManager
  <2>2. /\ Len(outManager) \in Nat /\ 1 \in 1..Len(outManager) /\ p = outManager[1] /\ p \in ManagerPackets
        /\ \A j \in 1..Len(outManager') : j + 1 \in 1..Len(outManager) /\ outManager'[j] = outManager[j + 1]
    <3>1. \A s \in Seq(ManagerPackets) : s # <<>> =>
            /\ Len(s) \in Nat /\ 1 \in 1..Len(s) /\ Head(s) = s[1] /\ Head(s) \in ManagerPackets
            /\ \A j \in 1..Len(Tail(s)) : j + 1 \in 1..Len(s) /\ Tail(s)[j] = s[j + 1]
      OBVIOUS
    <3> QED BY <2>1, <3>1
  <2>3. p = Cleared(e) => Known(e)'
    BY <1>1, <1>5, KnownNext
  <2>4. p = Result(q, TRUE) => Known(e)
    <3>1. p = Result(q, TRUE) => Known(e) \/ \E i \in 1..(1 - 1) : outManager[i] = Cleared(e)
      BY <1>3, <2>2
    <3> QED BY <3>1
  <2>5. request'[q] = "success" => request[q] = "success" \/ p = Result(q, TRUE)
    <3>1. \/ UNCHANGED request
          \/ p.kind = "result" /\ request' = [request EXCEPT ![p.id] = IF p.success THEN "success" ELSE "failure"]
      BY <1>5 DEF BrokerFromManager
    <3>2. CASE p.kind = "result" /\ p.id = q /\ p.success
      <4>1. p \in [kind : {"result"}, id : Requests, success : BOOLEAN]
        BY <2>2, <3>2 DEF ManagerPackets
      <4>2. p = Result(q, TRUE)
        BY <3>2, <4>1 DEF Result
      <4> QED BY <4>2
    <3> HIDE DEF p
    <3>3. request \in [Requests -> {"idle", "waiting", "success", "failure"}]
      BY DEF TypeOK
    <3> QED BY <3>1, <3>2, <3>3
  <2> HIDE DEF p
  <2>6. ASSUME NEW j \in 1..Len(outManager'), outManager'[j] = Result(q, TRUE)
        PROVE  Known(e)' \/ \E i \in 1..(j - 1) : outManager'[i] = Cleared(e)
    <3>1. Known(e) \/ \E i \in 1..((j + 1) - 1) : outManager[i] = Cleared(e)
      BY <1>3, <2>2, <2>6
    <3>2. ASSUME NEW i \in 1..((j + 1) - 1), outManager[i] = Cleared(e)
          PROVE  Known(e)' \/ \E h \in 1..(j - 1) : outManager'[h] = Cleared(e)
      <4>1. CASE i = 1
        BY <2>2, <2>3, <3>2, <4>1
      <4>2. CASE i # 1
        <5>1. i - 1 \in 1..(j - 1) /\ i - 1 \in 1..Len(outManager') /\ (i - 1) + 1 = i
          BY <4>2
        <5> QED BY <2>2, <3>2, <5>1
      <4> QED BY <4>1, <4>2
    <3> QED BY <1>2, <3>1, <3>2
  <2> QED BY <1>2, <1>3, <2>4, <2>5, <2>6 DEF e
<1>6. ASSUME UNCHANGED outManager, request'[q] = request[q] \/ request'[q] # "success"
      PROVE  /\ request'[q] = "success" => Known(Request[q].uuid)'
             /\ \A j \in 1..Len(outManager') :
                  outManager'[j] = Result(q, TRUE) =>
                    Known(Request[q].uuid)' \/ \E i \in 1..(j - 1) : outManager'[i] = Cleared(Request[q].uuid)
  BY <1>2, <1>3, <1>6, Zenon DEF e
<1>7. ASSUME NEW r \in Requests, RequestClear(r)
      PROVE  UNCHANGED outManager /\ (request'[q] = request[q] \/ request'[q] # "success")
  BY <1>7 DEF TypeOK, RequestClear
<1>8. \/ HandleRequest \/ BrokerFromManager \/ \E r \in Requests : RequestClear(r)
      \/ UNCHANGED <<outManager, request>>
  BY Zenon DEF Next, Raise, BrokerFromModule, StartModules, Subscribe, TakeError, HandleError, RunErrorCallback, RunClearedCallback,
         moduleVars, vars
<1> QED BY <1>4, <1>5, <1>6, <1>7, <1>8

-----------------------------------------------------------------------------
LEMMA Invariance == Spec => []IInv
<1>1. IInv /\ [Next]_vars => IInv'
  <2> SUFFICES ASSUME IInv, [Next]_vars PROVE IInv'
    OBVIOUS
  <2>1. Types /\ RequestInv /\ ReportInv /\ SeenInv /\ LostInv /\ OrderInv /\ OneStartInv
    BY DEF IInv, Types
  <2>2. /\ TypeOK' /\ SentInv' /\ HomeInv' /\ HandlerInv' /\ RequestInv' /\ ReportInv'
        /\ SeenInv' /\ LostInv' /\ OrderInv' /\ OneStartInv'
    BY <2>1, TypeNext, SentNext, HomeNext, HandlerNext, RequestNext, ReportNext, SeenNext, LostNext, OrderNext, OneStartNext
  <2> QED BY <2>2 DEF IInv
<1> QED BY <1>1, InitInv, PTL DEF Spec

(* The values of all variables, among them that what is in the manager's    *)
(* database has been raised and that a handler thread without an error has  *)
(* no handlers left to call.                                                *)
THEOREM TypeCorrect == Spec => []TypeOK
<1>1. IInv => TypeOK
  BY DEF IInv
<1> QED BY <1>1, Invariance, PTL

(* An error is reported as cleared only when a request of the               *)
(* implementation that raised it has selected it: handle_request_clear_error *)
(* and clear_errors filter by origin.                                       *)
THEOREM ClearsOnlyOnRequest == Spec => []ClearedOnlyOnRequest
<1>1. IInv => ClearedOnlyOnRequest
  BY DEF IInv, ReportInv
<1> QED BY <1>1, Invariance, PTL

(* Until a restart of the modules, no error that was reported as cleared is *)
(* active: its message cannot be handled again after its clearing.          *)
THEOREM ClearedIsFinal == Spec => []ClearedStaysCleared
<1>1. IInv => ClearedStaysCleared
  BY DEF IInv, OneStartInv, PlaceInv, ClearedStaysCleared, Reported
<1> QED BY <1>1, Invariance, PTL

(* add_error meets a handle a second time, and throws, only after a restart. *)
THEOREM NoDuplicateHandle == Spec => []TerminatesOnlyAfterRestart
<1>1. IInv => TerminatesOnlyAfterRestart
  BY ErrorConstants DEF IInv, TypeOK, OneStartInv, TerminatesOnlyAfterRestart
<1> QED BY <1>1, Invariance, PTL

(* When nothing is on its way, the subscriber has been called with every    *)
(* error raised and the database holds those not reported as cleared: only  *)
(* what reached the broker before a subscription is missing, and missing    *)
(* for that receiver only.                                                  *)
THEOREM LostOnlyUnsubscribed == Spec => []NothingElseLost
<1>1. IInv => NothingElseLost
  <2> SUFFICES ASSUME IInv, Quiet, starts <= 1
               PROVE  /\ seen = Received("errors")
                      /\ database = (Received("manager") \cap Received("cleared")) \ seenCleared
    BY DEF NothingElseLost
  <2>1. TypeOK /\ SeenInv /\ ReportInv /\ \A e \in Uuids : PlaceInv(e)
    BY DEF IInv, OneStartInv
  <2>2. \A e \in Uuids : /\ ~Sending(e) /\ ~Queued(e) /\ ~Adding(e)
                         /\ ~In(e, errorsIn[Topic(e)]) /\ ~In(e, clearedIn[Topic(e)]) /\ ~In(Cleared(e), outManager)
    BY Homes, EmptyIn DEF Quiet, Sending, Queued, Adding
  <2>3. \A e \in Uuids : e \in Reported <=> e \in seenCleared \/ <<"cleared", e>> \in lost
    BY <2>1, <2>2, ReportedIn
  <2>4. \A e \in Uuids : e \in seen <=> e \in raised /\ ~Unseen(e)
    BY <2>1, <2>2 DEF SeenInv
  <2>5. \A e \in Uuids : e \in database <=> e \in raised /\ ~Missed(e) /\ e \notin Reported
    BY <2>1, <2>2 DEF PlaceInv, TypeOK
  <2> QED BY <2>1, <2>3, <2>4, <2>5 DEF TypeOK, Received, Missed, Unseen
<1> QED BY <1>1, Invariance, PTL

(* A request for one error that succeeded comes after its clearing: the     *)
(* message of the clearing is at the subscriber, or its callback has run,   *)
(* unless the subscriber had not asked for it.                              *)
THEOREM SuccessComesAfterClearing == Spec => []SuccessMeansCleared
<1>1. IInv => SuccessMeansCleared
  <2> SUFFICES ASSUME IInv, NEW r \in Requests, request[r] = "success", Request[r].mode = "ClearUUID",
                      NEW e, e = Request[r].uuid
               PROVE  e \in ToSet(clearedIn[Topic(e)]) \/ e \in seenCleared \/ <<"cleared", e>> \in lost
    BY DEF SuccessMeansCleared
  <2>1. Known(e) /\ e \in Uuids
    BY ErrorConstants DEF IInv, OrderInv
  <2>2. clearedIn[Topic(e)] \in Seq(Uuids)
    BY <2>1, Homes DEF IInv, TypeOK
  <2> QED BY <2>1, <2>2, ElementsIn DEF Known, ToSet
<1> QED BY <1>1, Invariance, PTL

-----------------------------------------------------------------------------
(* Requests and their answers                                               *)

Asked(r)      == In(ClearRequest(r), out[ModuleOf[Request[r].impl]])
Pending(r)    == In(r, requestQueue)
Granted(r)    == In(Result(r, TRUE), outManager)
Denied(r)     == In(Result(r, FALSE), outManager)
Dropped(r)    == <<"requests", r>> \in lost

(* A request is in one place until its result has arrived.                  *)
AnswerInv(r) ==
  /\ Once(ClearRequest(r), out[ModuleOf[Request[r].impl]]) /\ Once(r, requestQueue)
  /\ Once(Result(r, TRUE), outManager) /\ Once(Result(r, FALSE), outManager)
  /\ Dropped(r) => ~Asked(r) /\ ~Pending(r) /\ ~Granted(r) /\ ~Denied(r)
  /\ Asked(r) => ~Pending(r) /\ ~Granted(r) /\ ~Denied(r)
  /\ Pending(r) => ~Granted(r) /\ ~Denied(r)
  /\ Granted(r) => ~Denied(r)
  /\ (request[r] = "waiting") <=> Asked(r) \/ Dropped(r) \/ Pending(r) \/ Granted(r) \/ Denied(r)

(* Requests are sent on their module's connection.                          *)
AskInv ==
  \A r \in Requests, m \in Modules : In(ClearRequest(r), out[m]) => m = ModuleOf[Request[r].impl]

AnswersInv == AskInv /\ \A r \in Requests : AnswerInv(r)

LEMMA Results ==
  ASSUME NEW r \in Requests, NEW q \in Requests
  PROVE  /\ Result(r, TRUE) \in ManagerPackets /\ Result(r, TRUE).kind = "result" /\ Result(r, TRUE).id = r
         /\ Result(r, FALSE) \in ManagerPackets /\ Result(r, FALSE).kind = "result" /\ Result(r, FALSE).id = r
         /\ Result(r, TRUE) # Result(q, FALSE)
         /\ Result(r, TRUE) = Result(q, TRUE) => r = q
         /\ Result(r, FALSE) = Result(q, FALSE) => r = q
<1>1. /\ Result(r, TRUE) \in ManagerPackets /\ Result(r, TRUE).kind = "result" /\ Result(r, TRUE).id = r
      /\ Result(r, FALSE) \in ManagerPackets /\ Result(r, FALSE).kind = "result" /\ Result(r, FALSE).id = r
      /\ Result(q, TRUE).id = q /\ Result(q, FALSE).id = q
  BY DEF Result, ManagerPackets
<1>2. Result(r, TRUE) # Result(q, FALSE)
  BY DEF Result
<1> QED BY <1>1, <1>2, Zenon

LEMMA ResultPacket ==
  ASSUME NEW p \in ManagerPackets, p.kind = "result"
  PROVE  p.id \in Requests /\ (p = Result(p.id, TRUE) \/ p = Result(p.id, FALSE))
BY DEF ManagerPackets, Result

(* An answer has one result, that of its request.                           *)
LEMMA AnswerResults ==
  ASSUME NEW S \in SUBSET Uuids, IsFiniteSet(S), NEW r \in Requests, NEW q \in Requests
  PROVE  /\ In(Result(q, TRUE), Answer(r, S)) <=> q = r /\ S # {}
         /\ In(Result(q, FALSE), Answer(r, S)) <=> q = r /\ S = {}
         /\ Once(Result(q, TRUE), Answer(r, S)) /\ Once(Result(q, FALSE), Answer(r, S))
<1> DEFINE a == Answer(r, S)
<1>1. PICK N \in Nat : /\ Len(a) = N + 1 /\ a[N + 1] = Result(r, S # {})
                       /\ \A i \in 1..N : a[i].kind = "cleared"
  BY AnswerOrder DEF ResultLast
<1> HIDE DEF a
<1>2. \A x : x.kind = "result" => /\ Once(x, a)
                                  /\ In(x, a) <=> a[N + 1] = x
  <2> SUFFICES ASSUME NEW x, x.kind = "result" PROVE Once(x, a) /\ (In(x, a) <=> a[N + 1] = x)
    OBVIOUS
  <2>1. \A i \in 1..N : a[i] # x
    BY <1>1
  <2>2. \A i \in 1..(N + 1) : a[i] = x => i = N + 1
    BY <2>1
  <2>3. N + 1 \in 1..(N + 1)
    OBVIOUS
  <2> QED BY <1>1, <2>2, <2>3 DEF In, Once
<1>3. CASE S # {}
  <2>1. (S # {}) = TRUE
    BY <1>3
  <2>2. a[N + 1] = Result(r, TRUE)
    BY <1>1, <2>1
  <2>3. /\ Once(Result(q, TRUE), a) /\ Once(Result(q, FALSE), a)
        /\ In(Result(q, TRUE), a) <=> Result(r, TRUE) = Result(q, TRUE)
        /\ In(Result(q, FALSE), a) <=> Result(r, TRUE) = Result(q, FALSE)
    <3>1. Result(q, TRUE).kind = "result" /\ Result(q, FALSE).kind = "result"
      BY Results
    <3>2. /\ Once(Result(q, TRUE), a)
          /\ In(Result(q, TRUE), a) <=> a[N + 1] = Result(q, TRUE)
      BY <1>2, <3>1
    <3>3. /\ Once(Result(q, FALSE), a)
          /\ In(Result(q, FALSE), a) <=> a[N + 1] = Result(q, FALSE)
      BY <1>2, <3>1
    <3> QED BY <2>2, <3>2, <3>3
  <2>4. In(Result(q, TRUE), a) <=> q = r
    BY <2>3, Results, Zenon
  <2>5. ~In(Result(q, FALSE), a)
    BY <2>3, Results, Zenon
  <2> QED BY <1>3, <2>3, <2>4, <2>5, Zenon DEF a
<1>4. CASE S = {}
  <2>1. (S # {}) = FALSE
    BY <1>4
  <2>2. a[N + 1] = Result(r, FALSE)
    BY <1>1, <2>1
  <2>3. /\ Once(Result(q, TRUE), a) /\ Once(Result(q, FALSE), a)
        /\ In(Result(q, TRUE), a) <=> Result(r, FALSE) = Result(q, TRUE)
        /\ In(Result(q, FALSE), a) <=> Result(r, FALSE) = Result(q, FALSE)
    <3>1. Result(q, TRUE).kind = "result" /\ Result(q, FALSE).kind = "result"
      BY Results
    <3>2. /\ Once(Result(q, TRUE), a)
          /\ In(Result(q, TRUE), a) <=> a[N + 1] = Result(q, TRUE)
      BY <1>2, <3>1
    <3>3. /\ Once(Result(q, FALSE), a)
          /\ In(Result(q, FALSE), a) <=> a[N + 1] = Result(q, FALSE)
      BY <1>2, <3>1
    <3> QED BY <2>2, <3>2, <3>3
  <2>4. In(Result(q, FALSE), a) <=> q = r
    BY <2>3, Results, Zenon
  <2>5. ~In(Result(q, TRUE), a)
    BY <2>3, Results, Zenon
  <2> QED BY <1>4, <2>3, <2>4, <2>5, Zenon DEF a
<1> QED BY <1>3, <1>4

LEMMA ConcatOnce ==
  ASSUME NEW S, NEW s \in Seq(S), NEW u \in Seq(S), NEW x, Once(x, s), Once(x, u), ~(In(x, s) /\ In(x, u))
  PROVE  Once(x, s \o u)
<1> SUFFICES ASSUME NEW i \in 1..Len(s \o u), NEW j \in 1..Len(s \o u), (s \o u)[i] = x, (s \o u)[j] = x
             PROVE  i = j
  BY DEF Once
<1>1. \A k \in 1..Len(s \o u) :
        \/ k \in 1..Len(s) /\ (s \o u)[k] = s[k]
        \/ k - Len(s) \in 1..Len(u) /\ (s \o u)[k] = u[k - Len(s)]
  OBVIOUS
<1>2. i \in Int /\ j \in Int /\ Len(s) \in Int
  OBVIOUS
<1>3. CASE i \in 1..Len(s) /\ j \in 1..Len(s)
  BY <1>1, <1>3 DEF Once
<1>4. CASE i - Len(s) \in 1..Len(u) /\ j - Len(s) \in 1..Len(u)
  <2>1. u[i - Len(s)] = x /\ u[j - Len(s)] = x
    BY <1>4
  <2>2. i - Len(s) = j - Len(s)
    BY <1>4, <2>1 DEF Once
  <2> QED BY <1>2, <2>2
<1>5. CASE In(x, s)
  BY <1>1, <1>3, <1>5 DEF In
<1>6. CASE ~In(x, s)
  BY <1>1, <1>4, <1>6 DEF In
<1> QED BY <1>5, <1>6

(* A request that did not move                                              *)
LEMMA AnswerKept ==
  ASSUME NEW r \in Requests, AnswerInv(r),
         Once(ClearRequest(r), out'[ModuleOf[Request[r].impl]]), Once(r, requestQueue'),
         Once(Result(r, TRUE), outManager'), Once(Result(r, FALSE), outManager'),
         Asked(r)' <=> Asked(r), Pending(r)' <=> Pending(r),
         Granted(r)' <=> Granted(r), Denied(r)' <=> Denied(r), Dropped(r)' <=> Dropped(r),
         request'[r] = request[r]
  PROVE  AnswerInv(r)'
BY Zenon DEF AnswerInv

LEMMA AnswerOnce ==
  ASSUME AnswersInv, NEW r \in Requests
  PROVE  /\ AnswerInv(r)
         /\ Once(ClearRequest(r), out[ModuleOf[Request[r].impl]]) /\ Once(r, requestQueue)
         /\ Once(Result(r, TRUE), outManager) /\ Once(Result(r, FALSE), outManager)
BY Zenon DEF AnswersInv, AnswerInv

LEMMA AnswerRaise ==
  ASSUME Types, AnswersInv, NEW e \in Uuids, Raise(e)
  PROVE  AnswersInv'
<1>1. /\ Send(From[e], Error(e)) /\ From[e] \in Impls /\ Error(e) \in ModulePackets
      /\ UNCHANGED <<request, requestQueue, outManager, lost>>
  BY ErrorConstants, PacketIds DEF Raise, brokerVars, bridgeVars
<1>2. \A q \in Requests, m \in Modules :
        /\ In(ClearRequest(q), out'[m]) <=> In(ClearRequest(q), out[m])
        /\ Once(ClearRequest(q), out[m]) => Once(ClearRequest(q), out'[m])
  BY <1>1, OutAppend, PacketIds DEF Types
<1>3. ASSUME NEW q \in Requests PROVE AnswerInv(q)'
  <2>1. /\ Asked(q)' <=> Asked(q)
        /\ Once(ClearRequest(q), out'[ModuleOf[Request[q].impl]])
    BY <1>2, Senders, AnswerOnce DEF Asked
  <2>2. /\ Pending(q)' <=> Pending(q)
        /\ Granted(q)' <=> Granted(q)
        /\ Denied(q)' <=> Denied(q)
        /\ Dropped(q)' <=> Dropped(q)
    BY <1>1 DEF Pending, Granted, Denied, Dropped
  <2> QED BY <1>1, <2>1, <2>2, AnswerOnce, AnswerKept
<1> QED BY <1>2, <1>3 DEF AnswersInv, AskInv

LEMMA AnswerRequest ==
  ASSUME Types, AnswersInv, NEW r \in Requests, RequestClear(r)
  PROVE  AnswersInv'
<1>1. /\ Send(Request[r].impl, ClearRequest(r)) /\ Request[r].impl \in Impls /\ ClearRequest(r) \in ModulePackets
      /\ UNCHANGED <<requestQueue, outManager, lost>> /\ request[r] = "idle"
      /\ \A q \in Requests : request'[q] = IF q = r THEN "waiting" ELSE request[q]
  BY ErrorConstants, PacketIds DEF RequestClear, brokerVars, bridgeVars, Types, TypeOK
<1>2. ~In(ClearRequest(r), out[ModuleOf[Request[r].impl]])
  <2>1. request[r] # "waiting" /\ AnswerInv(r)
    BY <1>1, AnswerOnce
  <2> QED BY <2>1, Zenon DEF AnswerInv, Asked
<1>3. \A q \in Requests, m \in Modules :
        /\ In(ClearRequest(q), out'[m]) <=> In(ClearRequest(q), out[m]) \/ (q = r /\ m = ModuleOf[Request[r].impl])
        /\ Once(ClearRequest(q), out[m]) => Once(ClearRequest(q), out'[m])
  BY <1>1, <1>2, OutAppend, PacketIds DEF Types
<1>4. ASSUME NEW q \in Requests PROVE AnswerInv(q)'
  <2>1. /\ Asked(q)' <=> Asked(q) \/ q = r
        /\ Once(ClearRequest(q), out'[ModuleOf[Request[q].impl]])
    BY <1>3, Senders, AnswerOnce DEF Asked
  <2>2. /\ Pending(q)' <=> Pending(q)
        /\ Granted(q)' <=> Granted(q)
        /\ Denied(q)' <=> Denied(q)
        /\ Dropped(q)' <=> Dropped(q)
    BY <1>1 DEF Pending, Granted, Denied, Dropped
  <2>3. CASE q # r
    BY <1>1, <2>1, <2>2, <2>3, AnswerOnce, AnswerKept
  <2>4. CASE q = r
    <3>1. ~Pending(q) /\ ~Granted(q) /\ ~Denied(q) /\ ~Dropped(q)
      <4>1. request[q] # "waiting"
        BY <1>1, <2>4
      <4> QED BY <4>1, AnswerOnce, Zenon DEF AnswerInv
    <3>2. /\ request'[q] = "waiting" /\ Asked(q)' /\ ~Pending(q)' /\ ~Granted(q)' /\ ~Denied(q)' /\ ~Dropped(q)'
          /\ Once(q, requestQueue') /\ Once(Result(q, TRUE), outManager') /\ Once(Result(q, FALSE), outManager')
      BY <1>1, <2>1, <2>2, <2>4, <3>1, AnswerOnce
    <3> QED BY <2>1, <3>2, Zenon DEF AnswerInv
  <2> QED BY <2>3, <2>4
<1> QED BY <1>3, <1>4 DEF AnswersInv, AskInv

LEMMA RequestArrives ==
  ASSUME TypeOK, NEW m \in Modules, BrokerFromModule(m), NEW q \in Requests
  PROVE  LET arrives == ClearRequest(q) = Head(out[m]) IN
         /\ In(q, requestQueue') <=> In(q, requestQueue) \/ (arrives /\ AllRequests \in subscribed)
         /\ Once(q, requestQueue) /\ (arrives => ~In(q, requestQueue)) => Once(q, requestQueue')
         /\ Dropped(q)' <=> Dropped(q) \/ (arrives /\ AllRequests \notin subscribed)
<1> DEFINE p == Head(out[m])
<1>1. CASE /\ p.id \in Uuids /\ p = Error(p.id) /\ UNCHANGED requestQueue
           /\ lost' = lost \cup Loss("manager", Topic(p.id), p.id) \cup Loss("errors", Topic(p.id), p.id)
  <2>1. ClearRequest(q) # p
    BY <1>1, PacketIds DEF Error, ClearRequest
  <2> HIDE DEF p
  <2>2. <<"requests", q>> \in lost' <=> <<"requests", q>> \in lost
    BY <1>1 DEF Loss
  <2> QED BY <1>1, <2>1, <2>2 DEF p, Dropped
<1>2. CASE /\ p.id \in Requests /\ p = ClearRequest(p.id)
           /\ requestQueue' = IF AllRequests \in subscribed THEN Append(requestQueue, p.id) ELSE requestQueue
           /\ lost' = lost \cup Loss("requests", None, p.id)
  <2>1. ClearRequest(q) = p <=> q = p.id
    BY <1>2, PacketIds
  <2> HIDE DEF p
  <2>2. /\ In(q, requestQueue') <=> In(q, requestQueue) \/ (q = p.id /\ AllRequests \in subscribed)
        /\ Once(q, requestQueue) /\ (q = p.id => ~In(q, requestQueue)) => Once(q, requestQueue')
    <3>1. requestQueue \in Seq(Requests)
      BY DEF TypeOK
    <3> QED BY <1>2, <3>1, AppendIn
  <2>3. <<"requests", q>> \in lost' <=> <<"requests", q>> \in lost \/ (q = p.id /\ AllRequests \notin subscribed)
    BY <1>2 DEF Loss, AllRequests
  <2> QED BY <2>1, <2>2, <2>3 DEF p, Dropped
<1> QED BY <1>1, <1>2, FromModule, Zenon

LEMMA AnswerBroker ==
  ASSUME Types, AnswersInv, NEW n \in Modules, BrokerFromModule(n)
  PROVE  AnswersInv'
<1> DEFINE p == Head(out[n])
<1>1. /\ out[n] # <<>> /\ out' = [out EXCEPT ![n] = Tail(@)] /\ UNCHANGED <<request, outManager>>
      /\ requestQueue \in Seq(Requests) /\ TypeOK
  BY DEF BrokerFromModule, Types, TypeOK
<1>2. \A q \in Requests, m \in Modules :
        /\ In(ClearRequest(q), out'[m]) => In(ClearRequest(q), out[m])
        /\ In(ClearRequest(q), out[m]) => In(ClearRequest(q), out'[m]) \/ (m = n /\ ClearRequest(q) = p)
        /\ Once(ClearRequest(q), out[m]) => Once(ClearRequest(q), out'[m])
        /\ m = n /\ ClearRequest(q) = p =>
             In(ClearRequest(q), out[m]) /\ (Once(ClearRequest(q), out[m]) => ~In(ClearRequest(q), out'[m]))
  BY <1>1, OutTail
<1>3. ASSUME NEW q \in Requests
      PROVE  /\ In(q, requestQueue') <=> In(q, requestQueue) \/ (ClearRequest(q) = p /\ AllRequests \in subscribed)
             /\ Once(q, requestQueue) /\ (ClearRequest(q) = p => ~In(q, requestQueue)) => Once(q, requestQueue')
             /\ Dropped(q)' <=> Dropped(q) \/ (ClearRequest(q) = p /\ AllRequests \notin subscribed)
  BY <1>1, RequestArrives
<1>4. ASSUME NEW q \in Requests PROVE ClearRequest(q) = p => n = ModuleOf[Request[q].impl] /\ Asked(q)
  BY <1>2 DEF AnswersInv, AskInv, Asked
<1> HIDE DEF p
<1>5. ASSUME NEW q \in Requests PROVE AnswerInv(q)'
  <2>1. /\ Granted(q)' <=> Granted(q)
        /\ Denied(q)' <=> Denied(q)
        /\ Once(ClearRequest(q), out'[ModuleOf[Request[q].impl]])
        /\ Once(Result(q, TRUE), outManager') /\ Once(Result(q, FALSE), outManager')
    BY <1>1, <1>2, Senders, AnswerOnce DEF Granted, Denied
  <2>2. CASE ClearRequest(q) # p
    <3>1. /\ Asked(q)' <=> Asked(q)
          /\ Pending(q)' <=> Pending(q)
          /\ Dropped(q)' <=> Dropped(q)
          /\ Once(q, requestQueue')
      BY <1>2, <1>3, <2>2, Senders, AnswerOnce DEF Asked, Pending
    <3> QED BY <1>1, <2>1, <3>1, AnswerOnce, AnswerKept
  <2>3. CASE ClearRequest(q) = p
    <3>1. Asked(q) /\ ~Asked(q)'
      BY <1>2, <1>4, <2>3, Senders, AnswerOnce DEF Asked
    <3>2. request[q] = "waiting" /\ ~Pending(q) /\ ~Granted(q) /\ ~Denied(q) /\ ~Dropped(q)
      BY <3>1, AnswerOnce, Zenon DEF AnswerInv
    <3>3. /\ Once(q, requestQueue')
          /\ Pending(q)' <=> AllRequests \in subscribed
          /\ Dropped(q)' <=> AllRequests \notin subscribed
      BY <1>3, <2>3, <3>2, AnswerOnce DEF Pending
    <3>4. request'[q] = "waiting" /\ ~Granted(q)' /\ ~Denied(q)'
      BY <1>1, <2>1, <3>2
    <3> QED BY <2>1, <3>1, <3>3, <3>4, Zenon DEF AnswerInv
  <2> QED BY <2>2, <2>3
<1> QED BY <1>2, <1>5 DEF AnswersInv, AskInv

LEMMA AnswerHandle ==
  ASSUME Types, AnswersInv, HandleRequest
  PROVE  AnswersInv'
<1>0. PICK r \in Requests : r = Head(requestQueue)
  BY TailIn DEF HandleRequest, Types, TypeOK
<1> DEFINE a == Answer(r, ClearedBy(r))
           found == ClearedBy(r) # {}
<1>1. /\ requestQueue \in Seq(Requests) /\ requestQueue # <<>> /\ requestQueue' = Tail(requestQueue)
      /\ outManager \in Seq(ManagerPackets) /\ outManager' = outManager \o a /\ UNCHANGED <<request, out, lost>>
  BY <1>0 DEF HandleRequest, Types, TypeOK, moduleVars, brokerVars
<1>3. ClearedBy(r) \in SUBSET Uuids /\ IsFiniteSet(ClearedBy(r))
  BY FS_Subset DEF ClearedBy, Types, TypeOK, HandlerInv
<1>4. a \in Seq(ManagerPackets) /\ \A q \in Requests :
        /\ In(Result(q, TRUE), a) <=> q = r /\ found
        /\ In(Result(q, FALSE), a) <=> q = r /\ ~found
        /\ Once(Result(q, TRUE), a) /\ Once(Result(q, FALSE), a)
  BY <1>3, Answers, AnswerResults
<1>5. /\ \A q \in Requests : /\ In(q, Tail(requestQueue)) => In(q, requestQueue)
                             /\ In(q, requestQueue) => q = r \/ In(q, Tail(requestQueue))
                             /\ Once(q, requestQueue) => Once(q, Tail(requestQueue))
      /\ In(r, requestQueue) /\ (Once(r, requestQueue) => ~In(r, Tail(requestQueue)))
  BY <1>0, <1>1, TailIn
<1> HIDE DEF a, found
<1>6. ~Asked(r) /\ Pending(r) /\ ~Pending(r)' /\ request[r] = "waiting" /\ ~Granted(r) /\ ~Denied(r) /\ ~Dropped(r)
  <2>1. AnswerInv(r)
    BY AnswerOnce
  <2>2. Pending(r) /\ ~Pending(r)'
    BY <1>1, <1>5, AnswerOnce DEF Pending
  <2> QED BY <2>1, <2>2, Zenon DEF AnswerInv
<1>7. ASSUME NEW q \in Requests PROVE AnswerInv(q)'
  <2>1. /\ AnswerInv(q) /\ (Asked(q)' <=> Asked(q)) /\ (q # r => (Pending(q)' <=> Pending(q)))
        /\ Dropped(q)' <=> Dropped(q)
    BY <1>1, <1>5 DEF AnswersInv, Asked, Pending, Dropped
  <2>2. /\ In(Result(q, TRUE), outManager') <=> In(Result(q, TRUE), outManager) \/ (q = r /\ found)
        /\ In(Result(q, FALSE), outManager') <=> In(Result(q, FALSE), outManager) \/ (q = r /\ ~found)
    BY <1>1, <1>4, ConcatIn
  <2>3. Once(Result(q, TRUE), outManager') /\ Once(Result(q, FALSE), outManager')
    <3>1. /\ ~(In(Result(q, TRUE), outManager) /\ In(Result(q, TRUE), a))
          /\ ~(In(Result(q, FALSE), outManager) /\ In(Result(q, FALSE), a))
      BY <1>4, <1>6 DEF Granted, Denied
    <3>2. Once(Result(q, TRUE), outManager) /\ Once(Result(q, FALSE), outManager)
      BY <2>1, Zenon DEF AnswerInv
    <3> QED BY <1>1, <1>4, <3>1, <3>2, ConcatOnce
  <2>4. Once(ClearRequest(q), out'[ModuleOf[Request[q].impl]]) /\ Once(q, requestQueue')
    BY <1>1, <1>5, <2>1 DEF AnswerInv
  <2>5. (Granted(q)' <=> Granted(q) \/ (q = r /\ found)) /\ (Denied(q)' <=> Denied(q) \/ (q = r /\ ~found))
    BY <2>2 DEF Granted, Denied
  <2>6. CASE q = r
    <3>1. /\ ~Asked(q)' /\ ~Dropped(q)' /\ ~Pending(q)' /\ request'[q] = "waiting"
          /\ (Granted(q)' <=> found) /\ (Denied(q)' <=> ~found)
      <4>1. request' = request
        BY <1>1
      <4> QED BY <1>6, <2>1, <2>5, <2>6, <4>1, Zenon
    <3> QED BY <2>3, <2>4, <3>1, Zenon DEF AnswerInv
  <2>7. CASE q # r
    <3>1. /\ Asked(q)' <=> Asked(q)
          /\ Pending(q)' <=> Pending(q)
          /\ Granted(q)' <=> Granted(q)
          /\ Denied(q)' <=> Denied(q)
          /\ Dropped(q)' <=> Dropped(q)
          /\ request'[q] = request[q]
      BY <1>1, <2>1, <2>5, <2>7
    <3> QED BY <2>1, <2>3, <2>4, <3>1, Zenon DEF AnswerInv
  <2> QED BY <2>6, <2>7
<1> QED BY <1>1, <1>7 DEF AnswersInv, AskInv

LEMMA DropKept ==
  ASSUME TypeOK, BrokerFromManager, NEW q \in Requests
  PROVE  Dropped(q)' <=> Dropped(q)
<1> DEFINE id == Head(outManager).id
<1>1. lost' = lost \/ lost' = lost \cup Loss("cleared", Topic(id), id)
  BY FromManager
<1> HIDE DEF id
<1> QED BY <1>1 DEF Dropped, Loss

LEMMA AnswerArrives ==
  ASSUME Types, AnswersInv, BrokerFromManager
  PROVE  AnswersInv'
<1> DEFINE p == Head(outManager)
<1>1. /\ outManager \in Seq(ManagerPackets) /\ outManager # <<>> /\ outManager' = Tail(outManager)
      /\ p \in ManagerPackets /\ UNCHANGED <<out, requestQueue>>
      /\ request \in [Requests -> {"idle", "waiting", "success", "failure"}]
  BY TailIn DEF BrokerFromManager, Types, TypeOK, bridgeVars
<1>2. \A x : /\ In(x, Tail(outManager)) => In(x, outManager)
             /\ In(x, outManager) => x = p \/ In(x, Tail(outManager))
             /\ Once(x, outManager) => Once(x, Tail(outManager))
             /\ x = p => In(x, outManager) /\ (Once(x, outManager) => ~In(x, Tail(outManager)))
  BY <1>1, TailIn
<1>3. \/ p.kind = "cleared" /\ UNCHANGED request
      \/ p.kind = "result" /\ request' = [request EXCEPT ![p.id] = IF p.success THEN "success" ELSE "failure"]
  BY DEF BrokerFromManager
<1> HIDE DEF p
<1>4. ASSUME NEW q \in Requests
      PROVE  /\ AnswerInv(q) /\ (Asked(q)' <=> Asked(q)) /\ (Pending(q)' <=> Pending(q))
             /\ Dropped(q)' <=> Dropped(q)
             /\ Once(ClearRequest(q), out'[ModuleOf[Request[q].impl]]) /\ Once(q, requestQueue')
             /\ Once(Result(q, TRUE), outManager') /\ Once(Result(q, FALSE), outManager')
             /\ Granted(q)' <=> Granted(q) /\ Result(q, TRUE) # p
             /\ Denied(q)' <=> Denied(q) /\ Result(q, FALSE) # p
             /\ Result(q, TRUE) = p => Granted(q)
             /\ Result(q, FALSE) = p => Denied(q)
  <2>1. AnswerInv(q)
    BY DEF AnswersInv
  <2>2. /\ Once(ClearRequest(q), out[ModuleOf[Request[q].impl]]) /\ Once(q, requestQueue)
        /\ Once(Result(q, TRUE), outManager) /\ Once(Result(q, FALSE), outManager)
    BY <2>1, Zenon DEF AnswerInv
  <2>3. (Asked(q)' <=> Asked(q)) /\ (Pending(q)' <=> Pending(q))
    BY <1>1 DEF Asked, Pending
  <2>4. Dropped(q)' <=> Dropped(q)
    BY DropKept DEF Types
  <2> QED BY <1>1, <1>2, <2>1, <2>2, <2>3, <2>4 DEF Granted, Denied
<1>5. CASE p.kind = "cleared" /\ UNCHANGED request
  <2>1. ASSUME NEW q \in Requests PROVE AnswerInv(q)'
    <3>1. Result(q, TRUE) # p /\ Result(q, FALSE) # p
      BY <1>5, Results
    <3>2. (Granted(q)' <=> Granted(q)) /\ (Denied(q)' <=> Denied(q)) /\ request'[q] = request[q]
      BY <1>4, <1>5, <3>1
    <3> QED BY <1>4, <3>2, Zenon DEF AnswerInv
  <2> QED BY <1>1, <2>1 DEF AnswersInv, AskInv
<1>6. CASE p.kind = "result" /\ request' = [request EXCEPT ![p.id] = IF p.success THEN "success" ELSE "failure"]
  <2>1. PICK r \in Requests : r = p.id /\ (p = Result(r, TRUE) \/ p = Result(r, FALSE))
    BY <1>1, <1>6, ResultPacket
  <2>2. request'[r] # "waiting" /\ \A q \in Requests : q # r => request'[q] = request[q]
    BY <1>1, <1>6, <2>1
  <2>3. ASSUME NEW q \in Requests PROVE AnswerInv(q)'
    <3>1. CASE q = r
      <4>1. /\ Granted(q)' <=> Granted(q) /\ Result(q, TRUE) # p
            /\ Denied(q)' <=> Denied(q) /\ Result(q, FALSE) # p
            /\ Result(q, TRUE) = p => Granted(q)
            /\ Result(q, FALSE) = p => Denied(q)
        BY <1>4
      <4>2. /\ Dropped(q) => ~Granted(q) /\ ~Denied(q)
            /\ Asked(q) => ~Pending(q) /\ ~Granted(q) /\ ~Denied(q)
            /\ Pending(q) => ~Granted(q) /\ ~Denied(q)
            /\ Granted(q) => ~Denied(q)
        BY <1>4, Zenon DEF AnswerInv
      <4>3. ~Asked(q)' /\ ~Dropped(q)' /\ ~Pending(q)' /\ ~Granted(q)' /\ ~Denied(q)'
        BY <1>4, <2>1, <3>1, <4>1, <4>2, Zenon
      <4> QED BY <1>4, <2>2, <3>1, <4>3, Zenon DEF AnswerInv
    <3>2. CASE q # r
      <4>1. Result(q, TRUE) # p /\ Result(q, FALSE) # p
        BY <2>1, <3>2, Results
      <4>2. (Granted(q)' <=> Granted(q)) /\ (Denied(q)' <=> Denied(q)) /\ request'[q] = request[q]
        BY <1>4, <2>2, <3>2, <4>1
      <4> QED BY <1>4, <4>2, Zenon DEF AnswerInv
    <3> QED BY <3>1, <3>2
  <2> QED BY <1>1, <2>3 DEF AnswersInv, AskInv
<1> QED BY <1>3, <1>5, <1>6

LEMMA AnswersNext == ASSUME Types, AnswersInv, [Next]_vars PROVE AnswersInv'
<1>1. CASE UNCHANGED <<request, out, requestQueue, outManager, lost>>
  BY <1>1 DEF AnswersInv, AskInv, AnswerInv, Asked, Pending, Granted, Denied, Dropped
<1>2. ASSUME NEW s \in Subscriptions, Subscribe(s) PROVE AnswersInv'
  BY <1>1, <1>2 DEF Subscribe, moduleVars, bridgeVars
<1> QED BY <1>1, <1>2, AnswerRaise, AnswerRequest, AnswerBroker, AnswerHandle, AnswerArrives, ZenonT(60)
        DEF Next, StartModules, TakeError, HandleError, RunErrorCallback, RunClearedCallback, subscriber, moduleVars,
            brokerVars, bridgeVars, vars

LEMMA AnswersInit == Init => AnswersInv
<1> SUFFICES ASSUME Init PROVE AnswersInv
  OBVIOUS
<1>1. /\ \A m \in Modules : out[m] = <<>>
      /\ requestQueue = <<>> /\ outManager = <<>> /\ \A r \in Requests : request[r] = "idle"
      /\ lost = {}
  BY DEF Init
<1> QED BY <1>1, EmptyIn, Senders DEF AnswersInv, AskInv, AnswerInv, Asked, Pending, Granted, Denied, Dropped

LEMMA OccursOnce ==
  ASSUME NEW x, NEW s, Once(x, s), Len(s) \in Nat
  PROVE  Occurrences(x, s) = IF In(x, s) THEN 1 ELSE 0
<1> DEFINE P == {i \in 1..Len(s) : s[i] = x}
<1>1. CASE In(x, s)
  <2>1. PICK i \in 1..Len(s) : s[i] = x
    BY <1>1 DEF In
  <2>2. P = {i}
    BY <2>1 DEF Once
  <2> QED BY <1>1, <2>2, FS_Singleton DEF Occurrences
<1>2. CASE ~In(x, s)
  <2>1. P = {}
    BY <1>2 DEF In
  <2> QED BY <1>2, <2>1, FS_EmptySet DEF Occurrences
<1> QED BY <1>1, <1>2

(* Until its result has arrived, a clear request is in exactly one place:   *)
(* none is lost on the way through the manager's threads and none answered  *)
(* twice (error_comm_bridge.cpp, handle_request_clear_error).  One that     *)
(* came before the bridge's subscription stays at the broker, unanswered.   *)
THEOREM RequestsAreKept == Spec => []RequestsInOnePlace
<1>1. Types /\ AnswersInv => RequestsInOnePlace
  <2> SUFFICES ASSUME Types, AnswersInv, NEW r \in Requests
               PROVE  Occurrences(ClearRequest(r), out[ModuleOf[Request[r].impl]]) + Occurrences(r, requestQueue)
                        + Occurrences(Result(r, TRUE), outManager) + Occurrences(Result(r, FALSE), outManager)
                        + Cardinality({l \in lost : l = <<"requests", r>>})
                        = IF request[r] = "waiting" THEN 1 ELSE 0
    BY DEF RequestsInOnePlace
  <2>1. AnswerInv(r)
    BY DEF AnswersInv
  <2>2. /\ out[ModuleOf[Request[r].impl]] \in Seq(ModulePackets)
        /\ requestQueue \in Seq(Requests) /\ outManager \in Seq(ManagerPackets)
    BY Senders DEF Types, TypeOK
  <2>3. /\ Occurrences(ClearRequest(r), out[ModuleOf[Request[r].impl]]) = IF Asked(r) THEN 1 ELSE 0
        /\ Occurrences(r, requestQueue) = IF Pending(r) THEN 1 ELSE 0
        /\ Occurrences(Result(r, TRUE), outManager) = IF Granted(r) THEN 1 ELSE 0
        /\ Occurrences(Result(r, FALSE), outManager) = IF Denied(r) THEN 1 ELSE 0
        /\ Cardinality({l \in lost : l = <<"requests", r>>}) = IF Dropped(r) THEN 1 ELSE 0
    <3>1. Len(out[ModuleOf[Request[r].impl]]) \in Nat /\ Len(requestQueue) \in Nat /\ Len(outManager) \in Nat
      BY <2>2
    <3>2. /\ Once(ClearRequest(r), out[ModuleOf[Request[r].impl]]) /\ Once(r, requestQueue)
          /\ Once(Result(r, TRUE), outManager) /\ Once(Result(r, FALSE), outManager)
      BY <2>1, <3>1 DEF AnswerInv
    <3>3. Cardinality({l \in lost : l = <<"requests", r>>}) = IF Dropped(r) THEN 1 ELSE 0
      <4>1. CASE Dropped(r)
        <5>1. {l \in lost : l = <<"requests", r>>} = {<<"requests", r>>}
          BY <4>1 DEF Dropped
        <5> QED BY <4>1, <5>1, FS_Singleton
      <4>2. CASE ~Dropped(r)
        <5>1. {l \in lost : l = <<"requests", r>>} = {}
          BY <4>2 DEF Dropped
        <5> QED BY <4>2, <5>1, FS_EmptySet
      <4> QED BY <4>1, <4>2
    <3> QED BY <3>1, <3>2, <3>3, OccursOnce, Zenon DEF Asked, Pending, Granted, Denied
  <2>4. /\ (request[r] = "waiting") <=> Asked(r) \/ Dropped(r) \/ Pending(r) \/ Granted(r) \/ Denied(r)
        /\ Dropped(r) => ~Asked(r) /\ ~Pending(r) /\ ~Granted(r) /\ ~Denied(r)
        /\ Asked(r) => ~Pending(r) /\ ~Granted(r) /\ ~Denied(r)
        /\ Pending(r) => ~Granted(r) /\ ~Denied(r)
        /\ Granted(r) => ~Denied(r)
    BY <2>1 DEF AnswerInv
  <2> DEFINE a == Occurrences(ClearRequest(r), out[ModuleOf[Request[r].impl]])
             p == Occurrences(r, requestQueue)
             t == Occurrences(Result(r, TRUE), outManager)
             f == Occurrences(Result(r, FALSE), outManager)
             d == Cardinality({l \in lost : l = <<"requests", r>>})
  <2>5. \/ request[r] # "waiting" /\ a = 0 /\ p = 0 /\ t = 0 /\ f = 0 /\ d = 0
        \/ request[r] = "waiting" /\ a = 1 /\ p = 0 /\ t = 0 /\ f = 0 /\ d = 0
        \/ request[r] = "waiting" /\ a = 0 /\ p = 1 /\ t = 0 /\ f = 0 /\ d = 0
        \/ request[r] = "waiting" /\ a = 0 /\ p = 0 /\ t = 1 /\ f = 0 /\ d = 0
        \/ request[r] = "waiting" /\ a = 0 /\ p = 0 /\ t = 0 /\ f = 1 /\ d = 0
        \/ request[r] = "waiting" /\ a = 0 /\ p = 0 /\ t = 0 /\ f = 0 /\ d = 1
    BY <2>3, <2>4, Zenon
  <2> HIDE DEF a, p, t, f, d
  <2>6. a + p + t + f + d = IF request[r] = "waiting" THEN 1 ELSE 0
    BY <2>5
  <2> QED BY <2>6 DEF a, p, t, f, d
<1>2. IInv => Types
  BY DEF IInv, Types
<1>3. Types /\ AnswersInv /\ [Next]_vars => AnswersInv'
  BY AnswersNext
<1> QED BY <1>1, <1>2, <1>3, AnswersInit, Invariance, PTL DEF Spec

=============================================================================
