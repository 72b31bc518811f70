---------------------------- MODULE ManagerProofs ----------------------------
(***************************************************************************)
(* Proofs for Manager: what its ready handlers and restarts may do, for    *)
(* any config, and any number of restarts, deaths and lives of a module.   *)
(***************************************************************************)
EXTENDS Manager, FiniteSetTheorems, SequenceFacts

LEMMA Packets ==
  /\ \A m \in Modules : Subscribe(m) \in Packet /\ Unsubscribe(m) \in Packet
  /\ \A m \in Modules : Subscribe(m) # Announce /\ Unsubscribe(m) # Announce
  /\ Announce \in Packet
<1>1. \A m \in Modules : Subscribe(m) \in Packet /\ Unsubscribe(m) \in Packet
  BY DEF Packet, Subscribe, Unsubscribe
<1>2. Announce \in Packet
  BY DEF Packet, Announce
<1>3. \A m \in Modules : Subscribe(m).kind = "subscribe" /\ Unsubscribe(m).kind = "unsubscribe"
  BY DEF Subscribe, Unsubscribe
<1>4. Announce.kind = "announce"
  BY DEF Announce
<1> QED BY <1>1, <1>2, <1>3, <1>4

LEMMA PacketKinds ==
  ASSUME NEW p \in Packet
  PROVE  /\ p.kind \in {"subscribe", "unsubscribe"} => p.module \in Modules
         /\ p.kind = "announce" <=> p = Announce
BY DEF Packet, Announce

LEMMA Positions ==
  /\ Len(Order) \in Nat
  /\ \A i \in 1..Len(Order) : Order[i] \in Modules
  /\ \A m \in Modules : \E i \in 1..Len(Order) : Order[i] = m
  /\ Cardinality(Modules) = Len(Order) /\ Cardinality({}) = 0
<1>1. Order \in Seq(Modules) /\ Cardinality(Modules) = Len(Order)
  BY ManagerConstants
<1>2. Cardinality({}) = 0
  BY FS_EmptySet
<1>3. Len(Order) \in Nat
  BY <1>1
<1> QED BY <1>1, <1>2, <1>3 DEF Modules

-----------------------------------------------------------------------------
(* The invariant                                                            *)

(* The entries of modules_ready in the stages of the main thread            *)
StageInv ==
  /\ stage = "starting" => ~modulesStarted /\ \A i \in 1..(next - 1) : Order[i] \in registered
  /\ stage = "looping" =>
       /\ registered \in {{}, Modules}
       /\ modulesStarted \/ restarts = 0 => registered = Modules
       /\ restartModules => ~modulesStarted
  /\ ShuttingDown => registered = {}
  /\ stage \in {"killing_to_restart", "reloading"} => restarts # 0

(* A ready thread holds a handler without an entry only from a shutdown on. *)
HoldInv ==
  Serving /\ (restarts = 0 \/ modulesStarted) => holding \subseteq registered

(* Children without a handle do not run.                                    *)
ChildrenInv ==
  /\ stage = "starting" => \A m \in Children : ~Alive(m)
  /\ stage = "looping" \/ ShuttingDown => \A m \in Children \ handles : ~Alive(m)

LifeInv ==
  \A m \in Modules :
    /\ process[m].stage # "none" => process[m].lives > 0
    /\ process[m].stage = "none" => ~process[m].onReady
    /\ process[m].stage = "signalled" => process[m].onReady

(* Whatever is left of a ready signal comes from a module that is ready, or *)
(* has died since.                                                          *)
Done(m) == process[m].stage = "dead" \/ (process[m].stage = "signalled" /\ m \in moduleSubs)

Signals(m) ==
  /\ m \in holding \/ readyQueue[m] > 0 \/ late[m] > 0 => Done(m)
  /\ m \in DOMAIN modulesReady /\ modulesReady[m] => Done(m)
  /\ process[m].stage \in {"looping", "signalled"} => m \in moduleSubs \/ In("subscribe", out[m])
  /\ \A j \in 1..Len(out[m]) :
       out[m][j] = "ready" =>
         /\ process[m].stage = "signalled"
         /\ m \in moduleSubs \/ \E i \in 1..(j - 1) : out[m][i] = "subscribe"

SignalInv == FirstRun => \A m \in Modules : Signals(m)

(* Global ready finds the handlers registered.                              *)
AnnounceInv ==
  FirstRun /\ ~early =>
    \A m \in Modules :
      /\ In(Announce, outManager) \/ globalQueue[m] > 0 => process[m].stage = "dead" \/ process[m].onReady
      /\ process[m].readyReceived => process[m].ran

IInv == TypeOK /\ StageInv /\ HoldInv /\ ChildrenInv /\ LifeInv /\ SignalInv /\ AnnounceInv

LEMMA InitInv == Init => IInv
<1> SUFFICES ASSUME Init PROVE IInv
  OBVIOUS
<1> USE DEF Init
<1>1. \A m \in Modules : process[m] = NoProcess
  OBVIOUS
<1>2. TypeOK
  <2>1. NoProcess \in [stage : {"none", "spawned", "looping", "signalled", "dead"},
                       onReady : BOOLEAN, readyReceived : BOOLEAN, ran : BOOLEAN, lives : 0..MaxLives]
    BY ManagerConstants DEF NoProcess
  <2>2. 1 \in 1..(Len(Order) + 1) /\ 0 \in 0..MaxRestarts /\ 0 \in 0..MaxDeaths
    BY Positions, ManagerConstants
  <2>3. /\ process \in [Modules ->
             [stage : {"none", "spawned", "looping", "signalled", "dead"},
              onReady : BOOLEAN, readyReceived : BOOLEAN, ran : BOOLEAN, lives : 0..MaxLives]]
        /\ out \in [Modules -> Seq({"subscribe", "ready"})]
        /\ outManager \in Seq(Packet)
        /\ readyQueue \in [Modules -> Nat] /\ globalQueue \in [Modules -> Nat] /\ late \in [Modules -> Nat]
    BY <2>1
  <2> QED BY <2>2, <2>3 DEF TypeOK
<1>3. StageInv
  BY DEF StageInv, ShuttingDown
<1>4. HoldInv
  BY DEF HoldInv
<1>5. ChildrenInv /\ LifeInv
  BY <1>1 DEF ChildrenInv, LifeInv, NoProcess, Alive, Children, ShuttingDown
<1>6. SignalInv /\ AnnounceInv
  BY <1>1, EmptyIn DEF SignalInv, Signals, AnnounceInv, NoProcess
<1> QED BY <1>2, <1>3, <1>4, <1>5, <1>6 DEF IInv

-----------------------------------------------------------------------------
(* Types                                                                    *)

LEMMA UnsubscribesTypes ==
  ASSUME registered \in {{}, Modules}
  PROVE  Unsubscribes \in Seq(Packet) /\ \A i \in 1..Len(Unsubscribes) : Unsubscribes[i] # Announce
<1>1. Cardinality(registered) \in 0..Len(Order)
  <2>1. CASE registered = {}
    BY <2>1, Positions
  <2>2. CASE registered = Modules
    BY <2>2, Positions
  <2> QED BY <2>1, <2>2
<1>2. \A i \in 1..Cardinality(registered) : Unsubscribe(Order[i]) \in Packet /\ Unsubscribe(Order[i]) # Announce
  BY <1>1, Positions, Packets
<1> QED BY <1>1, <1>2, Positions DEF Unsubscribes

(* What a restart or the death of a module does to the entries and packets  *)
LEMMA ShutdownTypes ==
  ASSUME TypeOK, StageInv, stage = "looping", DropHandlers
  PROVE  /\ registered' = {} /\ DOMAIN modulesReady' = {}
         /\ outManager' \in Seq(Packet)
         /\ In(Announce, outManager') <=> In(Announce, outManager)
         /\ Len(outManager') > Len(outManager) => Last(outManager') # Announce
<1>1. Unsubscribes \in Seq(Packet) /\ \A i \in 1..Len(Unsubscribes) : Unsubscribes[i] # Announce
  BY UnsubscribesTypes DEF StageInv
<1>2. outManager \in Seq(Packet) /\ outManager' = outManager \o Unsubscribes
  BY DEF TypeOK, DropHandlers
<1>3. outManager' \in Seq(Packet)
  BY <1>1, <1>2
<1>4. In(Announce, outManager') <=> In(Announce, outManager)
  BY <1>1, <1>2, ConcatIn DEF In
<1>5. ASSUME Len(outManager') > Len(outManager) PROVE Last(outManager') # Announce
  <2>1. Len(outManager') = Len(outManager) + Len(Unsubscribes) /\ Len(Unsubscribes) \in Nat /\ Len(outManager) \in Nat
    BY <1>1, <1>2
  <2>2. Len(Unsubscribes) \in 1..Len(Unsubscribes)
    BY <1>5, <2>1
  <2>3. outManager'[Len(outManager')] = Unsubscribes[Len(Unsubscribes)]
    BY <1>1, <1>2, <2>1, <2>2
  <2> QED BY <1>1, <2>2, <2>3 DEF Last
<1> QED BY <1>3, <1>4, <1>5 DEF DropHandlers

ProcessStates ==
  [stage : {"none", "spawned", "looping", "signalled", "dead"},
   onReady : BOOLEAN, readyReceived : BOOLEAN, ran : BOOLEAN, lives : 0..MaxLives]

LEMMA StartedTypes ==
  ASSUME NEW p \in ProcessStates, p.lives < MaxLives
  PROVE  /\ Started(p) \in ProcessStates /\ Started(p).lives = p.lives + 1 /\ Started(p).stage = "spawned"
         /\ ~Started(p).onReady /\ ~Started(p).readyReceived
<1>1. p.lives \in Nat /\ p.lives + 1 \in 0..MaxLives
  BY ManagerConstants DEF ProcessStates
<1>2. NoProcess \in ProcessStates /\ ~NoProcess.onReady /\ ~NoProcess.readyReceived
  BY ManagerConstants DEF ProcessStates, NoProcess
<1> QED BY <1>1, <1>2 DEF ProcessStates, Started

(* The steps of a process                                                   *)
NewProcess(m) ==
  /\ process[m].lives < MaxLives
  /\ process'[m] = Started(process[m]) /\ globalQueue'[m] = 0
  /\ (m \in Children /\ SpawnModules) \/ Launch(m)
  /\ UNCHANGED <<restarts, registered, modulesReady, holding, readyQueue, late, out, moduleSubs, outManager, early>>

ProcessStep(m) ==
  \/ process'[m] = process[m]
  \/ NewProcess(m)
  \/ Boot(m) /\ process[m].stage = "spawned" /\ process'[m] = [process[m] EXCEPT !.stage = "looping"]
  \/ SetOnReady(m) /\ process'[m] = [process[m] EXCEPT !.onReady = TRUE]
  \/ /\ SignalReady(m) /\ process[m].onReady /\ process[m].stage = "looping"
     /\ process'[m] = [process[m] EXCEPT !.stage = "signalled"]
  \/ /\ HandleReady(m) /\ ~process[m].readyReceived
     /\ process'[m] = [process[m] EXCEPT !.readyReceived = TRUE, !.ran = process[m].onReady]
  \/ Ends(m) /\ process'[m] = [process[m] EXCEPT !.stage = "dead"]

LEMMA ProcessNext ==
  ASSUME TypeOK, [Next]_vars
  PROVE  /\ process \in [Modules -> ProcessStates] /\ process' \in [Modules -> ProcessStates]
         /\ \A m \in Modules : ProcessStep(m)
<1> DEFINE Goal == process' \in [Modules -> ProcessStates] /\ \A m \in Modules : ProcessStep(m)
<1>0. process \in [Modules -> ProcessStates]
  BY DEF TypeOK, ProcessStates
<1>1. ASSUME SpawnModules PROVE Goal
  <2>1. /\ process' = [x \in Modules |-> IF x \in Children THEN Started(process[x]) ELSE process[x]]
        /\ globalQueue' = [x \in Modules |-> IF x \in Children THEN 0 ELSE globalQueue[x]]
        /\ stage = "starting" /\ \A x \in Children : process[x].lives < MaxLives
        /\ UNCHANGED <<restarts, registered, modulesReady, holding, readyQueue, late, out, moduleSubs, outManager, early>>
    BY <1>1 DEF SpawnModules, readyVars, threadVars, bounds
  <2>2. process' \in [Modules -> ProcessStates]
    BY <1>0, <2>1, StartedTypes
  <2>3. ASSUME NEW m \in Modules PROVE ProcessStep(m)
    <3>1. CASE m \in Children
      <4>1. process'[m] = Started(process[m]) /\ globalQueue'[m] = 0
        BY <2>1, <3>1
      <4>2. NewProcess(m)
        BY <1>1, <2>1, <3>1, <4>1 DEF NewProcess
      <4> QED BY <4>2 DEF ProcessStep
    <3>2. CASE m \notin Children
      BY <2>1, <3>2 DEF ProcessStep
    <3> QED BY <3>1, <3>2
  <2> QED BY <2>2, <2>3
<1>2. ASSUME NEW n \in Modules, NEW p \in ProcessStates, process' = [process EXCEPT ![n] = p],
             process'[n] = p => ProcessStep(n)
      PROVE  Goal
  <2>1. /\ process' \in [Modules -> ProcessStates] /\ process'[n] = p
        /\ \A m \in Modules \ {n} : process'[m] = process[m]
    BY <1>0, <1>2
  <2>2. \A m \in Modules \ {n} : ProcessStep(m)
    BY <2>1 DEF ProcessStep
  <2>3. \A m \in Modules : ProcessStep(m)
    <3> SUFFICES ASSUME NEW m \in Modules PROVE ProcessStep(m)
      OBVIOUS
    <3>1. CASE m = n
      BY <1>2, <2>1, <3>1
    <3>2. CASE m # n
      BY <2>2, <3>2
    <3> QED BY <3>1, <3>2
  <2> QED BY <2>1, <2>3
<1>3. ASSUME NEW n \in Modules, Launch(n) PROVE Goal
  <2>1. /\ process' = [process EXCEPT ![n] = Started(process[n])] /\ globalQueue' = [globalQueue EXCEPT ![n] = 0]
        /\ process[n].lives < MaxLives
        /\ UNCHANGED <<restarts, registered, modulesReady, holding, readyQueue, late, out, moduleSubs, outManager, early>>
    BY <1>3 DEF Launch, readyVars, threadVars, bounds
  <2>2. Started(process[n]) \in ProcessStates
    BY <1>0, <2>1, StartedTypes
  <2>3. globalQueue'[n] = 0
    BY <2>1 DEF TypeOK
  <2>4. process'[n] = Started(process[n]) => ProcessStep(n)
    BY <1>3, <2>1, <2>3 DEF ProcessStep, NewProcess
  <2> QED BY <1>2, <2>1, <2>2, <2>4
<1>4. ASSUME NEW n \in Modules, Boot(n) PROVE Goal
  <2>1. /\ process[n].stage = "spawned" /\ process' = [process EXCEPT ![n] = [process[n] EXCEPT !.stage = "looping"]]
        /\ [process[n] EXCEPT !.stage = "looping"] \in ProcessStates
    BY <1>0, <1>4 DEF Boot, Advance, ProcessStates
  <2>2. process'[n] = [process[n] EXCEPT !.stage = "looping"] => ProcessStep(n)
    BY <1>4, <2>1 DEF ProcessStep
  <2> QED BY <1>2, <2>1, <2>2
<1>5. ASSUME NEW n \in Modules, SetOnReady(n) PROVE Goal
  <2>1. /\ process' = [process EXCEPT ![n] = [process[n] EXCEPT !.onReady = TRUE]]
        /\ [process[n] EXCEPT !.onReady = TRUE] \in ProcessStates
    BY <1>0, <1>5 DEF SetOnReady, ProcessStates
  <2>2. process'[n] = [process[n] EXCEPT !.onReady = TRUE] => ProcessStep(n)
    BY <1>5, <2>1 DEF ProcessStep
  <2> QED BY <1>2, <2>1, <2>2
<1>6. ASSUME NEW n \in Modules, SignalReady(n) PROVE Goal
  <2>1. /\ process[n].onReady /\ process[n].stage = "looping"
        /\ process' = [process EXCEPT ![n] = [process[n] EXCEPT !.stage = "signalled"]]
        /\ [process[n] EXCEPT !.stage = "signalled"] \in ProcessStates
    BY <1>0, <1>6 DEF SignalReady, Advance, ProcessStates
  <2>2. process'[n] = [process[n] EXCEPT !.stage = "signalled"] => ProcessStep(n)
    BY <1>6, <2>1 DEF ProcessStep
  <2> QED BY <1>2, <2>1, <2>2
<1>7. ASSUME UNCHANGED process PROVE Goal
  BY <1>0, <1>7 DEF ProcessStep
<1>8. ASSUME NEW n \in Modules, HandleReady(n) PROVE Goal
  <2>1. CASE process[n].readyReceived
    BY <1>7, <1>8, <2>1 DEF HandleReady
  <2>2. CASE ~process[n].readyReceived
    <3>1. /\ process' = [process EXCEPT ![n] = [process[n] EXCEPT !.readyReceived = TRUE, !.ran = process[n].onReady]]
          /\ [process[n] EXCEPT !.readyReceived = TRUE, !.ran = process[n].onReady] \in ProcessStates
      BY <1>0, <1>8, <2>2 DEF HandleReady, ProcessStates
    <3>2. process'[n] = [process[n] EXCEPT !.readyReceived = TRUE, !.ran = process[n].onReady] => ProcessStep(n)
      BY <1>8, <2>2, <3>1 DEF ProcessStep
    <3> QED BY <1>2, <3>1, <3>2
  <2> QED BY <2>1, <2>2
<1>9. ASSUME NEW n \in Modules, Ends(n) PROVE Goal
  <2>1. /\ process' = [process EXCEPT ![n] = [process[n] EXCEPT !.stage = "dead"]]
        /\ [process[n] EXCEPT !.stage = "dead"] \in ProcessStates
    BY <1>0, <1>9 DEF Ends, ProcessStates
  <2>2. process'[n] = [process[n] EXCEPT !.stage = "dead"] => ProcessStep(n)
    BY <1>9, <2>1 DEF ProcessStep
  <2> QED BY <1>2, <2>1, <2>2
<1>10. Goal
  <2>1. \/ SpawnModules \/ UNCHANGED process
        \/ \E n \in Modules : Launch(n) \/ Boot(n) \/ SetOnReady(n) \/ SignalReady(n) \/ HandleReady(n) \/ Ends(n)
    BY ZenonT(40) DEF Next, ModuleStep, Terminate, Die, RegisterModule, SpawnFails, RestartRequest, SignalChildren, ExitManager, ReloadConfig, StartAgain, ControllerExits,
       BrokerFromManager, TakeReady, RunReady, MissesEntry, ReapModule, BrokerFromModule, BrokerLate, moduleVars, vars
  <2>2. CASE SpawnModules \/ UNCHANGED process
    BY <1>1, <1>7, <2>2
  <2>3. ASSUME NEW n \in Modules, Launch(n) \/ Boot(n) \/ SetOnReady(n) \/ SignalReady(n) \/ HandleReady(n) \/ Ends(n)
        PROVE  Goal
    <3> HIDE DEF Goal
    <3> QED BY <1>3, <1>4, <1>5, <1>6, <1>8, <1>9, <2>3
  <2> HIDE DEF Goal
  <2> QED BY <2>1, <2>2, <2>3
<1> QED BY <1>0, <1>10

LEMMA Counters ==
  ASSUME NEW f \in [Modules -> Nat], NEW m \in Modules
  PROVE  [f EXCEPT ![m] = @ + 1] \in [Modules -> Nat] /\ (f[m] > 0 => [f EXCEPT ![m] = @ - 1] \in [Modules -> Nat])
OBVIOUS

LEMMA Outs ==
  ASSUME NEW f \in [Modules -> Seq({"subscribe", "ready"})], NEW m \in Modules
  PROVE  /\ \A k \in {"subscribe", "ready"} : [f EXCEPT ![m] = Append(@, k)] \in [Modules -> Seq({"subscribe", "ready"})]
         /\ f[m] # <<>> => [f EXCEPT ![m] = Tail(@)] \in [Modules -> Seq({"subscribe", "ready"})]
<1>1. \A k \in {"subscribe", "ready"} : Append(f[m], k) \in Seq({"subscribe", "ready"})
  OBVIOUS
<1>2. f[m] # <<>> => Tail(f[m]) \in Seq({"subscribe", "ready"})
  OBVIOUS
<1> QED BY <1>1, <1>2

LEMMA TypeNext == TypeOK /\ StageInv /\ [Next]_vars => TypeOK'
<1> SUFFICES ASSUME TypeOK, StageInv, [Next]_vars PROVE TypeOK'
  OBVIOUS
<1> USE DEF mainVars, readyVars, threadVars, moduleVars, bounds
<1>0. process' \in [Modules -> [stage : {"none", "spawned", "looping", "signalled", "dead"},
        onReady : BOOLEAN, readyReceived : BOOLEAN, ran : BOOLEAN, lives : 0..MaxLives]]
  BY ProcessNext DEF ProcessStates
<1>1. CASE RegisterModule
  <2>1. /\ Order[next] \in Modules /\ Subscribe(Order[next]) \in Packet
        /\ next \in 1..Len(Order) /\ next + 1 \in 1..(Len(Order) + 1)
    BY <1>1, Positions, Packets DEF RegisterModule, TypeOK
  <2>2. /\ DOMAIN modulesReady' = DOMAIN modulesReady \cup {Order[next]}
        /\ \A m \in DOMAIN modulesReady' : modulesReady'[m] \in BOOLEAN
    BY <1>1 DEF RegisterModule, TypeOK
  <2>3. outManager' \in Seq(Packet)
    BY <1>1, <2>1 DEF RegisterModule, TypeOK
  <2> QED BY <1>0, <1>1, <2>1, <2>2, <2>3 DEF RegisterModule, TypeOK
<1>2. CASE SpawnModules
  <2>1. globalQueue' \in [Modules -> Nat]
    BY <1>2 DEF SpawnModules, TypeOK
  <2> QED BY <1>0, <1>2, <2>1 DEF SpawnModules, TypeOK
<1>3. CASE SpawnFails
  BY <1>0, <1>3 DEF SpawnFails, TypeOK
<1>4. CASE RestartRequest
  <2>1. /\ registered' = {} /\ DOMAIN modulesReady' = {} /\ outManager' \in Seq(Packet)
    BY <1>4, ShutdownTypes DEF RestartRequest
  <2>2. restarts' \in 0..MaxRestarts
    BY <1>4, ManagerConstants DEF RestartRequest, TypeOK
  <2> QED BY <1>0, <1>4, <2>1, <2>2 DEF RestartRequest, TypeOK
<1>5. CASE StartAgain
  <2>1. 1 \in 1..(Len(Order) + 1)
    BY Positions
  <2> QED BY <1>0, <1>5, <2>1 DEF StartAgain, TypeOK
<1>6. CASE ControllerExits
  BY <1>0, <1>6 DEF ControllerExits, ManagerEnds, Children, TypeOK
<1>7. CASE BrokerFromManager
  <2>1. Head(outManager) \in Packet /\ outManager' \in Seq(Packet)
    BY <1>7 DEF BrokerFromManager, TypeOK
  <2>2. managerSubs' \subseteq Modules
    <3>1. CASE Head(outManager).kind = "subscribe"
      <4>1. Head(outManager).module \in Modules
        BY <2>1, <3>1, PacketKinds
      <4>2. managerSubs' \in {managerSubs, managerSubs \cup {Head(outManager).module}, managerSubs \ {Head(outManager).module}}
        BY <1>7 DEF BrokerFromManager
      <4> QED BY <4>1, <4>2 DEF TypeOK
    <3>2. CASE Head(outManager).kind # "subscribe"
      BY <1>7, <3>2 DEF BrokerFromManager, TypeOK
    <3> QED BY <3>1, <3>2
  <2>3. globalQueue' \in [Modules -> Nat]
    <3>1. \/ globalQueue' = globalQueue
          \/ globalQueue' = [m \in Modules |-> IF m \in moduleSubs THEN globalQueue[m] + 1 ELSE globalQueue[m]]
      BY <1>7 DEF BrokerFromManager
    <3>2. globalQueue \in [Modules -> Nat]
      BY DEF TypeOK
    <3> QED BY <3>1, <3>2
  <2> QED BY <1>0, <1>7, <2>1, <2>2, <2>3 DEF BrokerFromManager, TypeOK
<1>8. ASSUME NEW m \in Modules, TakeReady(m) PROVE TypeOK'
  <2>1. readyQueue' \in [Modules -> Nat] /\ holding' \subseteq Modules
    BY <1>8 DEF TakeReady, TypeOK
  <2> QED BY <1>0, <1>8, <2>1 DEF TakeReady, TypeOK
<1>9. ASSUME NEW m \in Modules, RunReady(m) PROVE TypeOK'
  <2>1. /\ DOMAIN modulesReady' = DOMAIN modulesReady
        /\ \A x \in DOMAIN modulesReady' : modulesReady'[x] \in BOOLEAN
    BY <1>9 DEF RunReady, TypeOK
  <2>2. outManager' \in Seq(Packet) /\ early' \in BOOLEAN /\ status' \in {"none", "waiting_for_standalone", "all_started"}
    <3>1. outManager' \in {outManager, Append(outManager, Announce)} /\ outManager \in Seq(Packet)
      BY <1>9 DEF RunReady, TypeOK
    <3>2. early' = early \/ early' = (early \/ ~EveryModuleReady)
      BY <1>9 DEF RunReady, TypeOK
    <3>3. early' \in BOOLEAN
      BY <3>2 DEF TypeOK
    <3>4. status' \in {"none", "waiting_for_standalone", "all_started"}
      BY <1>9 DEF RunReady, TypeOK
    <3> QED BY <3>1, <3>3, <3>4, Packets
  <2> QED BY <1>0, <1>9, <2>1, <2>2 DEF RunReady, TypeOK
<1>10. ASSUME NEW m \in Modules, MissesEntry(m) PROVE TypeOK'
  BY <1>0, <1>10 DEF MissesEntry, ManagerEnds, Children, TypeOK
<1>11. ASSUME NEW m \in Modules, ReapModule(m) PROVE TypeOK'
  <2>1. CASE modulesStarted
    <3>1. DropHandlers /\ stage = "looping"
      BY <1>11, <2>1 DEF ReapModule
    <3>2. /\ registered' = {} /\ DOMAIN modulesReady' = {} /\ outManager' \in Seq(Packet)
      BY <3>1, ShutdownTypes
    <3> QED BY <1>0, <1>11, <2>1, <3>2 DEF ReapModule, TypeOK
  <2>2. CASE ~modulesStarted
    BY <1>0, <1>11, <2>2 DEF ReapModule, TypeOK
  <2> QED BY <2>1, <2>2
<1>12. ASSUME NEW m \in Modules, Launch(m) PROVE TypeOK'
  <2>1. globalQueue' \in [Modules -> Nat]
    BY <1>12 DEF Launch, TypeOK
  <2> QED BY <1>0, <1>12, <2>1 DEF Launch, TypeOK
<1>13. ASSUME NEW m \in Modules, Boot(m) \/ SignalReady(m) PROVE TypeOK'
  <2>1. out' \in [Modules -> Seq({"subscribe", "ready"})]
    <3>1. \/ out' = [out EXCEPT ![m] = Append(@, "subscribe")]
          \/ out' = [out EXCEPT ![m] = Append(@, "ready")]
      BY <1>13 DEF Boot, SignalReady
    <3>2. /\ [out EXCEPT ![m] = Append(@, "subscribe")] \in [Modules -> Seq({"subscribe", "ready"})]
          /\ [out EXCEPT ![m] = Append(@, "ready")] \in [Modules -> Seq({"subscribe", "ready"})]
      BY Outs DEF TypeOK
    <3> QED BY <3>1, <3>2
  <2> QED BY <1>0, <1>13, <2>1 DEF Boot, SignalReady, TypeOK
<1>14. ASSUME NEW m \in Modules, SetOnReady(m) PROVE TypeOK'
  BY <1>0, <1>14 DEF SetOnReady, TypeOK
<1>15. ASSUME NEW m \in Modules, HandleReady(m) PROVE TypeOK'
  <2>1. globalQueue' \in [Modules -> Nat]
    BY <1>15 DEF HandleReady, TypeOK
  <2> QED BY <1>0, <1>15, <2>1 DEF HandleReady, TypeOK
<1>16. ASSUME NEW m \in Modules, Terminate(m) \/ Die(m) PROVE TypeOK'
  <2>1. Ends(m) /\ doomed' \subseteq Modules /\ deaths' \in 0..MaxDeaths
    BY <1>16, ManagerConstants DEF Terminate, Die, TypeOK
  <2>2. out' \in [Modules -> Seq({"subscribe", "ready"})] /\ moduleSubs' \subseteq Modules
    BY <2>1 DEF Ends, TypeOK
  <2>3. late' \in [Modules -> Nat]
    <3>1. late' = late \/ late' = [late EXCEPT ![m] = @ + 1]
      BY <2>1 DEF Ends
    <3>2. late \in [Modules -> Nat]
      BY DEF TypeOK
    <3>3. [late EXCEPT ![m] = @ + 1] \in [Modules -> Nat]
      BY <3>2, Counters
    <3> QED BY <3>1, <3>2, <3>3
  <2> QED BY <1>0, <2>1, <2>2, <2>3 DEF Ends, TypeOK
<1>17. ASSUME NEW m \in Modules, BrokerFromModule(m) PROVE TypeOK'
  <2>1. readyQueue' \in [Modules -> Nat] /\ moduleSubs' \subseteq Modules
    <3>1. moduleSubs' \in {moduleSubs, moduleSubs \cup {m}}
      BY <1>17 DEF BrokerFromModule
    <3>2. readyQueue' = readyQueue \/ readyQueue' = [readyQueue EXCEPT ![m] = @ + 1]
      BY <1>17 DEF BrokerFromModule, Delivered
    <3>3. readyQueue \in [Modules -> Nat] /\ moduleSubs \subseteq Modules
      BY DEF TypeOK
    <3>4. [readyQueue EXCEPT ![m] = @ + 1] \in [Modules -> Nat]
      BY <3>3, Counters
    <3> QED BY <3>1, <3>2, <3>3, <3>4
  <2>2. out' \in [Modules -> Seq({"subscribe", "ready"})]
    BY <1>17, Outs DEF BrokerFromModule, TypeOK
  <2> QED BY <1>0, <1>17, <2>1, <2>2 DEF BrokerFromModule, TypeOK
<1>18. ASSUME NEW m \in Modules, BrokerLate(m) PROVE TypeOK'
  <2>1. readyQueue' \in [Modules -> Nat] /\ late' \in [Modules -> Nat]
    <3>1. readyQueue \in [Modules -> Nat] /\ late \in [Modules -> Nat]
      BY DEF TypeOK
    <3>2. late' \in [Modules -> Nat]
      BY <1>18, <3>1, Counters DEF BrokerLate
    <3>3. readyQueue' = readyQueue \/ readyQueue' = [readyQueue EXCEPT ![m] = @ + 1]
      BY <1>18 DEF BrokerLate, Delivered
    <3>4. [readyQueue EXCEPT ![m] = @ + 1] \in [Modules -> Nat]
      BY <3>1, Counters
    <3> QED BY <3>1, <3>2, <3>3, <3>4
  <2> QED BY <1>0, <1>18, <2>1 DEF BrokerLate, TypeOK
<1>19. CASE SignalChildren
  BY <1>0, <1>19 DEF SignalChildren, Children, TypeOK
<1>20. CASE ExitManager \/ ReloadConfig
  BY <1>0, <1>20 DEF ExitManager, ReloadConfig, ManagerEnds, Children, TypeOK
<1>21. CASE UNCHANGED vars
  BY <1>21 DEF vars, TypeOK
<1> QED
  BY <1>1, <1>2, <1>3, <1>4, <1>5, <1>6, <1>7, <1>8, <1>9, <1>10, <1>11, <1>12, <1>13, <1>14,
     <1>15, <1>16, <1>17, <1>18, <1>19, <1>20, <1>21 DEF Next, ModuleStep

-----------------------------------------------------------------------------
(* The main thread, its ready handlers and its children                     *)

LEMMA MainSteps ==
  ASSUME [Next]_vars
  PROVE  \/ RegisterModule \/ SpawnModules \/ SpawnFails \/ RestartRequest \/ StartAgain \/ ControllerExits
         \/ SignalChildren \/ ExitManager \/ ReloadConfig
         \/ \E m \in Modules : MissesEntry(m) \/ ReapModule(m)
         \/ /\ UNCHANGED <<mainVars, registered, restarts>>
            /\ UNCHANGED holding \/ \E m \in Modules : TakeReady(m) \/ RunReady(m)
BY ZenonT(40) DEF Next, ModuleStep, BrokerFromManager, TakeReady, RunReady, Launch, Boot, SetOnReady, SignalReady,
   HandleReady, Terminate, Die, Ends, BrokerFromModule, BrokerLate, readyVars, threadVars, bounds, vars

LEMMA StageNext == TypeOK /\ StageInv /\ [Next]_vars => StageInv'
<1> SUFFICES ASSUME TypeOK, StageInv, [Next]_vars PROVE StageInv'
  OBVIOUS
<1> USE DEF readyVars, bounds, ShuttingDown
<1>0. next \in 1..(Len(Order) + 1) /\ registered \subseteq Modules /\ restarts \in Nat
  BY DEF TypeOK
<1>1. CASE RegisterModule
  <2>1. /\ next' = next + 1 /\ registered' = registered \cup {Order[next]} /\ stage = "starting"
        /\ UNCHANGED <<stage, modulesStarted>>
    BY <1>1 DEF RegisterModule
  <2>2. \A i \in 1..(next' - 1) : i = next \/ i \in 1..(next - 1)
    BY <1>0, <2>1, Positions
  <2> QED BY <2>1, <2>2 DEF StageInv
<1>2. CASE SpawnModules
  <2>1. stage = "starting" /\ next > Len(Order) /\ registered' = registered /\ stage' = "looping" /\ ~restartModules'
    BY <1>2 DEF SpawnModules
  <2>2. \A i \in 1..Len(Order) : i \in 1..(next - 1)
    BY <1>0, <2>1, Positions
  <2>3. registered = Modules
    BY <1>0, <2>1, <2>2, Positions DEF StageInv
  <2> QED BY <2>1, <2>3 DEF StageInv
<1>3. CASE SpawnFails \/ ControllerExits
  BY <1>3 DEF SpawnFails, ControllerExits, ManagerEnds, StageInv
<1>4. CASE RestartRequest
  <2>1. restarts' # 0 /\ registered' = {}
    BY <1>0, <1>4 DEF RestartRequest, DropHandlers
  <2>2. stage' = "killing_to_restart"
    BY <1>4 DEF RestartRequest
  <2> QED BY <2>1, <2>2 DEF StageInv
<1>5. CASE StartAgain
  BY <1>5 DEF StartAgain, StageInv
<1>6. ASSUME NEW m \in Modules, MissesEntry(m) PROVE StageInv'
  BY <1>6 DEF MissesEntry, ManagerEnds, StageInv
<1>7. ASSUME NEW m \in Modules, ReapModule(m) PROVE StageInv'
  BY <1>7 DEF ReapModule, DropHandlers, StageInv
<1>8. CASE SignalChildren \/ ExitManager \/ ReloadConfig
  BY <1>8 DEF SignalChildren, ExitManager, ReloadConfig, ManagerEnds, StageInv
<1>9. CASE UNCHANGED <<mainVars, registered, restarts>>
  BY <1>9 DEF mainVars, StageInv
<1> QED BY <1>1, <1>2, <1>3, <1>4, <1>5, <1>6, <1>7, <1>8, <1>9, MainSteps

LEMMA HoldNext == TypeOK /\ StageInv /\ HoldInv /\ [Next]_vars => HoldInv'
<1> SUFFICES ASSUME TypeOK, StageInv, HoldInv, [Next]_vars PROVE HoldInv'
  OBVIOUS
<1> USE DEF readyVars, threadVars, bounds, Serving, ShuttingDown
<1>0. next \in 1..(Len(Order) + 1) /\ registered = DOMAIN modulesReady /\ restarts \in Nat /\ holding \subseteq Modules
  BY DEF TypeOK
<1>1. CASE RegisterModule
  BY <1>1 DEF RegisterModule, HoldInv
<1>2. CASE SpawnModules
  <2>1. stage = "starting" /\ next > Len(Order) /\ registered' = registered /\ holding' = holding /\ stage' = "looping"
    BY <1>2 DEF SpawnModules
  <2>2. \A i \in 1..Len(Order) : i \in 1..(next - 1)
    BY <1>0, <2>1, Positions
  <2>3. \A m \in Modules : m \in registered
    BY <2>1, <2>2, Positions DEF StageInv
  <2> QED BY <1>0, <2>1, <2>3 DEF HoldInv
<1>3. CASE SpawnFails \/ ControllerExits
  BY <1>3 DEF SpawnFails, ControllerExits, ManagerEnds, HoldInv
<1>4. CASE RestartRequest
  BY <1>4 DEF RestartRequest, HoldInv
<1>5. CASE StartAgain
  BY <1>5 DEF StartAgain, HoldInv
<1>6. ASSUME NEW m \in Modules, MissesEntry(m) PROVE HoldInv'
  BY <1>6 DEF MissesEntry, ManagerEnds, HoldInv
<1>7. ASSUME NEW m \in Modules, ReapModule(m) PROVE HoldInv'
  BY <1>7 DEF ReapModule, HoldInv
<1>8. CASE SignalChildren \/ ExitManager \/ ReloadConfig
  BY <1>8 DEF SignalChildren, ExitManager, ReloadConfig, ManagerEnds, StageInv, HoldInv
<1>10. CASE UNCHANGED <<mainVars, registered, restarts>> /\ UNCHANGED holding
  BY <1>10 DEF mainVars, HoldInv
<1>9. ASSUME NEW m \in Modules, TakeReady(m) \/ RunReady(m) PROVE HoldInv'
  <2>1. /\ UNCHANGED <<mainVars, registered, restarts>>
        /\ \/ holding' \subseteq holding
           \/ holding' = holding \cup {m} /\ m \in registered
    <3>1. CASE TakeReady(m)
      BY <3>1 DEF TakeReady
    <3>2. CASE RunReady(m)
      BY <3>2 DEF RunReady
    <3> QED BY <1>9, <3>1, <3>2
  <2> QED BY <2>1 DEF mainVars, HoldInv
<1> QED BY <1>1, <1>2, <1>3, <1>4, <1>5, <1>6, <1>7, <1>8, <1>9, <1>10, MainSteps

LEMMA LifeNext == TypeOK /\ LifeInv /\ [Next]_vars => LifeInv'
<1> SUFFICES ASSUME TypeOK, LifeInv, [Next]_vars, NEW m \in Modules
             PROVE  /\ process'[m].stage # "none" => process'[m].lives > 0
                    /\ process'[m].stage = "none" => ~process'[m].onReady
                    /\ process'[m].stage = "signalled" => process'[m].onReady
  BY DEF LifeInv
<1>1. process[m] \in ProcessStates /\ ProcessStep(m)
  BY ProcessNext
<1>2. /\ process[m].stage # "none" => process[m].lives > 0
      /\ process[m].stage = "none" => ~process[m].onReady
      /\ process[m].stage = "signalled" => process[m].onReady
  BY DEF LifeInv
<1>3. CASE process'[m] = process[m]
  BY <1>2, <1>3
<1>4. CASE NewProcess(m)
  <2>1. process[m].lives < MaxLives /\ process'[m] = Started(process[m])
    BY <1>4 DEF NewProcess
  <2>2. process'[m].stage = "spawned" /\ process'[m].lives = process[m].lives + 1 /\ process[m].lives \in Nat
    BY <1>1, <2>1, StartedTypes DEF ProcessStates
  <2> QED BY <2>2
<1>5. CASE SetOnReady(m) /\ process'[m] = [process[m] EXCEPT !.onReady = TRUE]
  <2>1. process[m].stage # "none"
    BY <1>5 DEF SetOnReady
  <2> QED BY <1>1, <1>2, <1>5, <2>1 DEF ProcessStates
<1>6. CASE process[m].stage = "spawned" /\ process'[m] = [process[m] EXCEPT !.stage = "looping"]
  BY <1>1, <1>2, <1>6 DEF ProcessStates
<1>7. CASE process[m].onReady /\ process[m].stage = "looping" /\ process'[m] = [process[m] EXCEPT !.stage = "signalled"]
  BY <1>1, <1>2, <1>7 DEF ProcessStates
<1>8. CASE process'[m] = [process[m] EXCEPT !.readyReceived = TRUE, !.ran = process[m].onReady]
  BY <1>1, <1>2, <1>8 DEF ProcessStates
<1>9. CASE Ends(m) /\ process'[m] = [process[m] EXCEPT !.stage = "dead"]
  <2>1. process[m].stage # "none"
    BY <1>9 DEF Ends, Alive
  <2> QED BY <1>1, <1>2, <1>9, <2>1 DEF ProcessStates
<1> QED BY <1>1, <1>3, <1>4, <1>5, <1>6, <1>7, <1>8, <1>9 DEF ProcessStep

(* A child that does not run is started by SpawnModules only                *)
LEMMA StaysDown ==
  ASSUME TypeOK, [Next]_vars, ~SpawnModules, NEW m \in Children, ~Alive(m)
  PROVE  ~Alive(m)'
<1>1. m \in Modules /\ m \notin Standalone
  BY DEF Children
<1>2. process[m] \in ProcessStates /\ ProcessStep(m)
  BY <1>1, ProcessNext
<1>3. CASE process'[m] = process[m]
  BY <1>3 DEF Alive
<1>4. ~NewProcess(m)
  BY <1>1 DEF NewProcess, Launch
<1>5. CASE SetOnReady(m) /\ process'[m] = [process[m] EXCEPT !.onReady = TRUE]
  BY <1>2, <1>5 DEF Alive, ProcessStates
<1>6. CASE process'[m] = [process[m] EXCEPT !.readyReceived = TRUE, !.ran = process[m].onReady]
  BY <1>2, <1>6 DEF Alive, ProcessStates
<1>7. CASE process'[m] = [process[m] EXCEPT !.stage = "dead"]
  BY <1>2, <1>7 DEF Alive, ProcessStates
<1>8. process[m].stage \notin {"spawned", "looping"}
  BY DEF Alive
<1> QED BY <1>2, <1>3, <1>4, <1>5, <1>6, <1>7, <1>8 DEF ProcessStep

LEMMA ChildrenNext == TypeOK /\ ChildrenInv /\ [Next]_vars => ChildrenInv'
<1> SUFFICES ASSUME TypeOK, ChildrenInv, [Next]_vars PROVE ChildrenInv'
  OBVIOUS
<1> USE DEF ShuttingDown
<1>1. CASE SpawnModules
  BY <1>1 DEF SpawnModules, ChildrenInv
<1>2. CASE ~SpawnModules
  <2>0. \A m \in Children : ~Alive(m) => ~Alive(m)'
    BY <1>2, StaysDown
  <2>1. CASE RegisterModule \/ SpawnFails \/ RestartRequest \/ ControllerExits \/ UNCHANGED mainVars
    <3>1. /\ UNCHANGED handles
          /\ UNCHANGED stage \/ stage' = "exited" \/ (stage = "looping" /\ stage' = "killing_to_restart")
      BY <2>1 DEF RegisterModule, SpawnFails, RestartRequest, ControllerExits, ManagerEnds, mainVars
    <3> QED BY <2>0, <3>1 DEF ChildrenInv
  <2>2. CASE StartAgain
    BY <2>0, <2>2 DEF StartAgain, ChildrenInv
  <2>3. ASSUME NEW m \in Modules, MissesEntry(m) PROVE ChildrenInv'
    BY <2>3 DEF MissesEntry, ManagerEnds, ChildrenInv
  <2>4. ASSUME NEW m \in Modules, ReapModule(m) PROVE ChildrenInv'
    <3>1. ~Alive(m) /\ stage = "looping" /\ handles' = handles \ {m} /\ stage' \in {"looping", "killing_to_exit"}
      BY <2>4 DEF ReapModule, Alive
    <3> QED BY <2>0, <3>1 DEF ChildrenInv
  <2>5. CASE SignalChildren \/ ExitManager \/ ReloadConfig
    <3>1. UNCHANGED handles /\ ShuttingDown /\ (stage' = "looping" \/ ShuttingDown' \/ stage' = "exited")
      BY <2>5 DEF SignalChildren, ExitManager, ReloadConfig, ManagerEnds
    <3> QED BY <2>0, <2>5, <3>1 DEF ChildrenInv, SignalChildren, ExitManager, ReloadConfig, ManagerEnds
  <2> QED BY <1>2, <2>1, <2>2, <2>3, <2>4, <2>5, MainSteps
<1> QED BY <1>1, <1>2

-----------------------------------------------------------------------------
(* The ready signals in the first run                                       *)

LEMMA FirstRunSteps ==
  ASSUME TypeOK, LifeInv, [Next]_vars, FirstRun'
  PROVE  FirstRun /\ \A m \in Modules : NewProcess(m) => process[m].stage = "none"
<1>1. ~RestartRequest /\ UNCHANGED restarts
  <2>1. UNCHANGED restarts \/ restarts' = restarts + 1
    BY MainSteps DEF RegisterModule, SpawnModules, SpawnFails, RestartRequest, SignalChildren, ExitManager, ReloadConfig, StartAgain, ControllerExits,
       MissesEntry, ReapModule, bounds
  <2>2. restarts \in Nat /\ restarts' = 0
    BY DEF TypeOK, FirstRun
  <2> QED BY <2>1, <2>2 DEF RestartRequest
<1>2. ASSUME NEW m \in Modules
      PROVE  process[m].lives <= 1 /\ (NewProcess(m) => process[m].stage = "none")
  <2>1. process[m] \in ProcessStates /\ ProcessStep(m) /\ process'[m].lives <= 1 /\ process[m].lives \in Nat
    BY ProcessNext DEF FirstRun, ProcessStates
  <2>2. CASE NewProcess(m)
    <3>1. process'[m].lives = process[m].lives + 1
      BY <2>1, <2>2, StartedTypes DEF NewProcess
    <3> QED BY <2>1, <3>1 DEF LifeInv
  <2>3. CASE ~NewProcess(m)
    <3>1. process'[m].lives = process[m].lives
      BY <2>1, <2>3 DEF ProcessStep, ProcessStates
    <3> QED BY <2>1, <2>3, <3>1
  <2> QED BY <2>2, <2>3
<1> QED BY <1>1, <1>2 DEF FirstRun

LEMMA OutSteps ==
  ASSUME [Next]_vars
  PROVE  \/ UNCHANGED <<out, moduleSubs>>
         \/ \E m \in Modules : Boot(m) \/ SignalReady(m) \/ Ends(m) \/ BrokerFromModule(m)
BY ZenonT(40) DEF Next, ModuleStep, Terminate, Die, RegisterModule, SpawnModules, SpawnFails, RestartRequest, SignalChildren, ExitManager, ReloadConfig, StartAgain,
   ControllerExits, BrokerFromManager, TakeReady, RunReady, MissesEntry, ReapModule, Launch, SetOnReady, HandleReady,
   BrokerLate, moduleVars, vars

LEMMA StageSteps ==
  ASSUME TypeOK, [Next]_vars, NEW m \in Modules, ~NewProcess(m), ~Boot(m), ~SignalReady(m), ~Ends(m)
  PROVE  process'[m].stage = process[m].stage
<1>1. process[m] \in ProcessStates /\ ProcessStep(m)
  BY ProcessNext
<1> QED BY <1>1 DEF ProcessStep, ProcessStates

LEMMA DoneStays ==
  ASSUME TypeOK, LifeInv, [Next]_vars, FirstRun', NEW m \in Modules, Done(m)
  PROVE  Done(m)'
<1>1. ~NewProcess(m) /\ ~Boot(m) /\ ~SignalReady(m)
  BY FirstRunSteps DEF Done, Boot, SignalReady, Advance
<1>2. CASE Ends(m)
  BY <1>2 DEF Ends, Done, TypeOK
<1>3. CASE ~Ends(m)
  <2>1. process'[m].stage = process[m].stage
    BY <1>1, <1>3, StageSteps
  <2>2. m \in moduleSubs => m \in moduleSubs'
    BY <1>1, <1>3, OutSteps DEF Boot, SignalReady, Ends, BrokerFromModule
  <2> QED BY <2>1, <2>2 DEF Done
<1> QED BY <1>2, <1>3

(* The steps of the queues                                                  *)
LEMMA QueueSteps ==
  ASSUME [Next]_vars
  PROVE  UNCHANGED readyQueue \/ \E m \in Modules : TakeReady(m) \/ BrokerFromModule(m) \/ BrokerLate(m)
BY ZenonT(40) DEF Next, ModuleStep, Terminate, Die, Ends, RegisterModule, SpawnModules, SpawnFails, RestartRequest, SignalChildren, ExitManager,
   ReloadConfig, StartAgain, ControllerExits, BrokerFromManager, ReapModule, Launch, Boot, SetOnReady, SignalReady, HandleReady,
   RunReady, MissesEntry, threadVars, vars

LEMMA HoldingSteps ==
  ASSUME [Next]_vars
  PROVE  UNCHANGED holding \/ \E m \in Modules : TakeReady(m) \/ RunReady(m) \/ MissesEntry(m)
BY ZenonT(40) DEF Next, ModuleStep, Terminate, Die, Ends, RegisterModule, SpawnModules, SpawnFails, RestartRequest, SignalChildren, ExitManager,
   ReloadConfig, StartAgain, ControllerExits, BrokerFromManager, ReapModule, Launch, Boot, SetOnReady, SignalReady, HandleReady,
   BrokerFromModule, BrokerLate, threadVars, vars

LEMMA GlobalQueueSteps ==
  ASSUME [Next]_vars
  PROVE  UNCHANGED globalQueue \/ SpawnModules \/ BrokerFromManager \/ \E m \in Modules : Launch(m) \/ HandleReady(m)
BY ZenonT(40) DEF Next, ModuleStep, Terminate, Die, Ends, RegisterModule, SpawnFails, RestartRequest, SignalChildren, ExitManager, ReloadConfig, StartAgain,
   ControllerExits, ReapModule, Boot, SetOnReady, SignalReady, BrokerFromModule, BrokerLate, TakeReady, RunReady,
   MissesEntry, moduleVars, vars

(* Where a signal on its way to the ready handler comes from                *)
LEMMA SignalSources ==
  ASSUME TypeOK, [Next]_vars, NEW m \in Modules
  PROVE  /\ m \in holding' => m \in holding \/ readyQueue[m] > 0
         /\ readyQueue'[m] > 0 => readyQueue[m] > 0 \/ late[m] > 0 \/ (BrokerFromModule(m) /\ Head(out[m]) = "ready")
         /\ late'[m] > 0 => late[m] > 0 \/ Ends(m)
         /\ m \in DOMAIN modulesReady' /\ modulesReady'[m] => (m \in DOMAIN modulesReady /\ modulesReady[m]) \/ m \in holding
<1>0. readyQueue \in [Modules -> Nat] /\ late \in [Modules -> Nat]
  BY DEF TypeOK
<1>1. m \in holding' => m \in holding \/ readyQueue[m] > 0
  <2>1. UNCHANGED holding \/ \E x \in Modules : TakeReady(x) \/ RunReady(x) \/ MissesEntry(x)
    BY HoldingSteps
  <2> QED BY <2>1 DEF TakeReady, RunReady, MissesEntry
<1>2. readyQueue'[m] > 0 => readyQueue[m] > 0 \/ late[m] > 0 \/ (BrokerFromModule(m) /\ Head(out[m]) = "ready")
  <2>1. UNCHANGED readyQueue \/ \E x \in Modules : TakeReady(x) \/ BrokerFromModule(x) \/ BrokerLate(x)
    BY QueueSteps
  <2>2. ASSUME NEW x \in Modules, TakeReady(x) PROVE readyQueue'[m] <= readyQueue[m]
    BY <1>0, <2>2 DEF TakeReady
  <2>3. ASSUME NEW x \in Modules, BrokerFromModule(x) \/ BrokerLate(x), x # m PROVE readyQueue'[m] = readyQueue[m]
    <3>1. readyQueue' = readyQueue \/ readyQueue' = [readyQueue EXCEPT ![x] = @ + 1]
      BY <2>3 DEF BrokerFromModule, BrokerLate, Delivered
    <3> QED BY <1>0, <2>3, <3>1
  <2>4. CASE BrokerLate(m)
    BY <2>4 DEF BrokerLate
  <2>5. CASE BrokerFromModule(m) /\ Head(out[m]) # "ready"
    BY <2>5 DEF BrokerFromModule
  <2>6. readyQueue[m] \in Nat /\ (UNCHANGED readyQueue => readyQueue'[m] = readyQueue[m])
    BY <1>0
  <2>7. readyQueue'[m] \in Nat
    BY <1>0, <2>1, <2>2, <2>3, <2>4, <2>6 DEF TakeReady, BrokerFromModule, BrokerLate, Delivered
  <2> QED BY <2>1, <2>2, <2>3, <2>4, <2>5, <2>6, <2>7
<1>3. late'[m] > 0 => late[m] > 0 \/ Ends(m)
  <2>1. UNCHANGED late \/ \E x \in Modules : Ends(x) \/ BrokerLate(x)
    BY ZenonT(40) DEF Next, ModuleStep, Terminate, Die, RegisterModule, SpawnModules, SpawnFails, RestartRequest, SignalChildren, ExitManager,
       ReloadConfig, StartAgain, ControllerExits, BrokerFromManager, ReapModule, Launch, Boot, SetOnReady, SignalReady, HandleReady,
       BrokerFromModule, TakeReady, RunReady, MissesEntry, moduleVars, vars
  <2>2. ASSUME NEW x \in Modules, Ends(x), x # m PROVE late'[m] = late[m]
    <3>1. late' = late \/ late' = [late EXCEPT ![x] = @ + 1]
      BY <2>2 DEF Ends
    <3> QED BY <1>0, <2>2, <3>1
  <2>3. ASSUME NEW x \in Modules, BrokerLate(x) PROVE late[m] > 0 \/ late'[m] = late[m]
    BY <1>0, <2>3 DEF BrokerLate
  <2> QED BY <2>1, <2>2, <2>3
<1>4. m \in DOMAIN modulesReady' /\ modulesReady'[m] => (m \in DOMAIN modulesReady /\ modulesReady[m]) \/ m \in holding
  <2>1. \/ UNCHANGED modulesReady \/ DOMAIN modulesReady' = {}
        \/ RegisterModule \/ \E x \in Modules : RunReady(x)
    <3>1. \/ UNCHANGED modulesReady \/ DropHandlers
          \/ RegisterModule \/ \E x \in Modules : RunReady(x)
      BY ZenonT(40) DEF Next, ModuleStep, Terminate, Die, Ends, SpawnModules, SpawnFails, RestartRequest, SignalChildren, ExitManager,
         ReloadConfig, StartAgain, ControllerExits, BrokerFromManager, ReapModule, Launch, Boot, SetOnReady, SignalReady, HandleReady,
         BrokerFromModule, BrokerLate, TakeReady, MissesEntry, readyVars, vars
    <3> QED BY <3>1 DEF DropHandlers
  <2>2. CASE RegisterModule
    BY <2>2 DEF RegisterModule
  <2>3. ASSUME NEW x \in Modules, RunReady(x)
        PROVE  /\ DOMAIN modulesReady' = DOMAIN modulesReady /\ x \in holding
               /\ \A y \in DOMAIN modulesReady \ {x} : modulesReady'[y] = modulesReady[y]
    BY <2>3 DEF RunReady
  <2> QED BY <2>1, <2>2, <2>3
<1> QED BY <1>1, <1>2, <1>3, <1>4

LEMMA SignalNext == TypeOK /\ TypeOK' /\ LifeInv /\ SignalInv /\ [Next]_vars => SignalInv'
<1> SUFFICES ASSUME TypeOK, TypeOK', LifeInv, SignalInv, [Next]_vars, FirstRun', NEW m \in Modules
             PROVE  Signals(m)'
  BY DEF SignalInv
<1> DEFINE Subscribed == process'[m].stage \in {"looping", "signalled"} => m \in moduleSubs' \/ In("subscribe", out'[m])
           Ordered == \A j \in 1..Len(out'[m]) :
                        out'[m][j] = "ready" =>
                          /\ process'[m].stage = "signalled"
                          /\ m \in moduleSubs' \/ \E i \in 1..(j - 1) : out'[m][i] = "subscribe"
<1>1. Signals(m)
  BY FirstRunSteps DEF SignalInv
<1>2. out[m] \in Seq({"subscribe", "ready"}) /\ out \in [Modules -> Seq({"subscribe", "ready"})] /\ Len(out[m]) \in Nat
  <2>1. out \in [Modules -> Seq({"subscribe", "ready"})]
    BY DEF TypeOK
  <2>2. out[m] \in Seq({"subscribe", "ready"})
    BY <2>1
  <2> QED BY <2>1, <2>2
<1>3. BrokerFromModule(m) /\ Head(out[m]) = "ready" => Done(m)
  <2>1. BrokerFromModule(m) /\ Head(out[m]) = "ready" => 1 \in 1..Len(out[m]) /\ out[m][1] = "ready"
    BY <1>2 DEF BrokerFromModule
  <2>2. 1..(1 - 1) = {}
    OBVIOUS
  <2> QED BY <1>1, <2>1, <2>2 DEF Signals, Done
<1>4. m \in holding' \/ readyQueue'[m] > 0 \/ late'[m] > 0 => Done(m)'
  <2>1. Ends(m) => Done(m)'
    BY DEF Ends, Done, TypeOK
  <2> QED BY <1>1, <1>3, <2>1, SignalSources, DoneStays DEF Signals
<1>5. m \in DOMAIN modulesReady' /\ modulesReady'[m] => Done(m)'
  BY <1>1, SignalSources, DoneStays DEF Signals
<1>6. CASE Boot(m)
  <2>1. process[m].stage = "spawned" /\ out'[m] = Append(out[m], "subscribe")
    BY <1>2, <1>6 DEF Boot, Advance
  <2>2. In("subscribe", out'[m])
    BY <1>2, <2>1, AppendIn
  <2>3. \A j \in 1..Len(out'[m]) : out'[m][j] # "ready"
    BY <1>1, <1>2, <2>1 DEF Signals
  <2> QED BY <1>4, <1>5, <2>2, <2>3 DEF Signals
<1>7. CASE SignalReady(m)
  <2>1. process[m].stage = "looping" /\ out'[m] = Append(out[m], "ready") /\ UNCHANGED moduleSubs
    BY <1>2, <1>7 DEF SignalReady, Advance, moduleVars
  <2>2. process'[m].stage = "signalled"
    BY <1>7 DEF SignalReady, Advance, TypeOK
  <2>3. m \in moduleSubs \/ In("subscribe", out[m])
    BY <1>1, <2>1 DEF Signals
  <2>4. m \in moduleSubs' \/ In("subscribe", out'[m])
    BY <1>2, <2>1, <2>3, AppendIn
  <2>5. \A j \in 1..Len(out'[m]) : out'[m][j] = "ready" => j = Len(out[m]) + 1
    BY <1>1, <1>2, <2>1 DEF Signals
  <2>6. m \notin moduleSubs => \E i \in 1..Len(out[m]) : out'[m][i] = "subscribe"
    BY <1>2, <2>1, <2>3 DEF In
  <2>7. Ordered
    BY <1>2, <2>1, <2>2, <2>5, <2>6
  <2> QED BY <1>4, <1>5, <2>4, <2>7 DEF Signals
<1>8. CASE Ends(m)
  <2>1. out'[m] = <<>> /\ process'[m].stage = "dead"
    BY <1>8 DEF Ends, TypeOK
  <2> QED BY <1>4, <1>5, <2>1 DEF Signals
<1>9. CASE BrokerFromModule(m)
  <2>1. /\ out[m] # <<>> /\ out'[m] = Tail(out[m]) /\ UNCHANGED process
        /\ Head(out[m]) = "subscribe" => m \in moduleSubs'
        /\ m \in moduleSubs => m \in moduleSubs'
    BY <1>2, <1>9 DEF BrokerFromModule
  <2>2. Subscribed
    BY <1>1, <1>2, <2>1, TailIn DEF Signals
  <2>3. Ordered
    <3> SUFFICES ASSUME NEW j \in 1..Len(out'[m]), out'[m][j] = "ready"
                 PROVE  /\ process'[m].stage = "signalled"
                        /\ m \in moduleSubs' \/ \E i \in 1..(j - 1) : out'[m][i] = "subscribe"
      OBVIOUS
    <3>1. /\ Len(out'[m]) = Len(out[m]) - 1 /\ Head(out[m]) = out[m][1]
          /\ \A i \in 1..Len(out'[m]) : out'[m][i] = out[m][i + 1]
      BY <1>2, <2>1
    <3>2. j + 1 \in 1..Len(out[m]) /\ out[m][j + 1] = "ready"
      BY <1>2, <3>1
    <3>3. process'[m].stage = "signalled"
      BY <1>1, <2>1, <3>2 DEF Signals
    <3>4. CASE m \in moduleSubs
      BY <2>1, <3>3, <3>4
    <3>5. CASE m \notin moduleSubs
      <4>1. PICK i \in 1..((j + 1) - 1) : out[m][i] = "subscribe"
        BY <1>1, <3>2, <3>5 DEF Signals
      <4>2. CASE i = 1
        BY <2>1, <3>1, <3>3, <4>1, <4>2
      <4>3. CASE i # 1
        <5>1. i - 1 \in 1..(j - 1) /\ i - 1 \in 1..Len(out'[m]) /\ (i - 1) + 1 = i
          BY <1>2, <4>3
        <5>2. out'[m][i - 1] = "subscribe"
          BY <3>1, <4>1, <5>1
        <5> QED BY <3>3, <5>1, <5>2
      <4> QED BY <4>2, <4>3
    <3> QED BY <3>4, <3>5
  <2> QED BY <1>4, <1>5, <2>2, <2>3 DEF Signals
<1>10. CASE ~Boot(m) /\ ~SignalReady(m) /\ ~Ends(m) /\ ~BrokerFromModule(m)
  <2>1. out'[m] = out[m] /\ (m \in moduleSubs' <=> m \in moduleSubs)
    BY <1>2, <1>10, OutSteps DEF Boot, SignalReady, Ends, BrokerFromModule, moduleVars
  <2>2. CASE NewProcess(m)
    <3>1. process[m].stage = "none" /\ process'[m].stage = "spawned"
      <4>1. process[m] \in ProcessStates
        BY ProcessNext
      <4> QED BY <2>2, <4>1, FirstRunSteps, StartedTypes DEF NewProcess
    <3>2. \A j \in 1..Len(out'[m]) : out'[m][j] # "ready"
      BY <1>1, <2>1, <3>1 DEF Signals
    <3> QED BY <1>4, <1>5, <3>1, <3>2 DEF Signals
  <2>3. CASE ~NewProcess(m)
    <3>1. process'[m].stage = process[m].stage
      BY <1>10, <2>3, StageSteps
    <3> QED BY <1>1, <1>4, <1>5, <2>1, <3>1 DEF Signals
  <2> QED BY <2>2, <2>3
<1> QED BY <1>6, <1>7, <1>8, <1>9, <1>10

-----------------------------------------------------------------------------
(* Global ready in the first run                                            *)

LEMMA ManagerPackets ==
  ASSUME [Next]_vars
  PROVE  \/ UNCHANGED outManager \/ RegisterModule \/ (DropHandlers /\ stage = "looping")
         \/ BrokerFromManager \/ \E m \in Modules : RunReady(m)
BY ZenonT(40) DEF Next, ModuleStep, Terminate, Die, Ends, SpawnModules, SpawnFails, RestartRequest, SignalChildren, ExitManager, ReloadConfig, StartAgain,
   ControllerExits, ReapModule, Launch, Boot, SetOnReady, SignalReady, HandleReady, BrokerFromModule, BrokerLate,
   TakeReady, MissesEntry, vars

(* Where a global ready comes from                                          *)
LEMMA AnnounceSources ==
  ASSUME TypeOK, StageInv, [Next]_vars
  PROVE  /\ In(Announce, outManager') =>
              \/ In(Announce, outManager)
              \/ UNCHANGED process /\ early' = (early \/ ~EveryModuleReady)
         /\ \A m \in Modules : globalQueue'[m] > 0 => globalQueue[m] > 0 \/ In(Announce, outManager)
         /\ early => early'
<1>0. outManager \in Seq(Packet) /\ globalQueue \in [Modules -> Nat]
  BY DEF TypeOK
<1>1. /\ In(Announce, outManager') =>
           \/ In(Announce, outManager)
           \/ UNCHANGED process /\ early' = (early \/ ~EveryModuleReady)
  <2>1. CASE RegisterModule
    <3>1. Order[next] \in Modules /\ outManager' = Append(outManager, Subscribe(Order[next]))
      BY <2>1, Positions DEF RegisterModule, TypeOK
    <3>2. Subscribe(Order[next]) \in Packet /\ Subscribe(Order[next]) # Announce
      BY <3>1, Packets
    <3> QED BY <1>0, <3>1, <3>2, AppendIn
  <2>2. CASE BrokerFromManager
    BY <1>0, <2>2, TailIn DEF BrokerFromManager
  <2>3. ASSUME NEW m \in Modules, RunReady(m)
        PROVE  \/ UNCHANGED outManager
               \/ UNCHANGED process /\ early' = (early \/ ~EveryModuleReady)
    BY <2>3 DEF RunReady, moduleVars
  <2>4. CASE DropHandlers /\ stage = "looping"
    BY <2>4, ShutdownTypes
  <2> QED BY ManagerPackets, <2>1, <2>2, <2>3, <2>4
<1>2. ASSUME NEW m \in Modules, globalQueue'[m] > 0
      PROVE  globalQueue[m] > 0 \/ In(Announce, outManager)
  <2>1. \/ UNCHANGED globalQueue \/ SpawnModules \/ BrokerFromManager
        \/ \E x \in Modules : Launch(x) \/ HandleReady(x)
    BY GlobalQueueSteps
  <2>2. CASE SpawnModules
    BY <1>2, <2>2 DEF SpawnModules
  <2>3. CASE BrokerFromManager
    <3>1. Head(outManager) \in Packet /\ outManager # <<>> /\ In(Head(outManager), outManager)
      BY <1>0, <2>3, TailIn DEF BrokerFromManager
    <3>2. CASE Head(outManager).kind = "announce"
      BY <3>1, <3>2, PacketKinds
    <3>3. CASE Head(outManager).kind # "announce"
      BY <1>2, <2>3, <3>3 DEF BrokerFromManager
    <3> QED BY <3>2, <3>3
  <2>4. ASSUME NEW x \in Modules, Launch(x) PROVE globalQueue[m] > 0
    BY <1>0, <1>2, <2>4 DEF Launch
  <2>5. ASSUME NEW x \in Modules, HandleReady(x) PROVE globalQueue[m] > 0
    BY <1>0, <1>2, <2>5 DEF HandleReady
  <2> QED BY <1>2, <2>1, <2>2, <2>3, <2>4, <2>5
<1>3. early => early'
  <2>1. UNCHANGED early \/ \E m \in Modules : RunReady(m)
    BY ZenonT(40) DEF Next, ModuleStep, Terminate, Die, Ends, RegisterModule, SpawnModules, SpawnFails, RestartRequest, SignalChildren, ExitManager,
       ReloadConfig, StartAgain, ControllerExits, ReapModule, Launch, Boot, SetOnReady, SignalReady, HandleReady, BrokerFromModule,
       BrokerLate, BrokerFromManager, TakeReady, MissesEntry, vars
  <2>2. ASSUME NEW m \in Modules, RunReady(m) PROVE early => early'
    BY <2>2 DEF RunReady
  <2> QED BY <2>1, <2>2
<1> QED BY <1>1, <1>2, <1>3

LEMMA AnnounceNext == TypeOK /\ StageInv /\ LifeInv /\ AnnounceInv /\ [Next]_vars => AnnounceInv'
<1> SUFFICES ASSUME TypeOK, StageInv, LifeInv, AnnounceInv, [Next]_vars, FirstRun', ~early', NEW m \in Modules
             PROVE  /\ In(Announce, outManager') \/ globalQueue'[m] > 0 => process'[m].stage = "dead" \/ process'[m].onReady
                    /\ process'[m].readyReceived => process'[m].ran
  BY DEF AnnounceInv
<1>1. /\ In(Announce, outManager) \/ globalQueue[m] > 0 => process[m].stage = "dead" \/ process[m].onReady
      /\ process[m].readyReceived => process[m].ran
  BY FirstRunSteps, AnnounceSources DEF AnnounceInv
<1>2. process[m] \in ProcessStates /\ ProcessStep(m)
  BY ProcessNext
<1>3. process[m].stage = "none" => ~process[m].onReady
  BY DEF LifeInv
<1>4. ASSUME process[m].stage = "dead" \/ process[m].onReady PROVE process'[m].stage = "dead" \/ process'[m].onReady
  <2>1. ~NewProcess(m)
    BY <1>3, <1>4, FirstRunSteps
  <2> QED BY <1>2, <1>4, <2>1 DEF ProcessStep, ProcessStates
<1>5. ASSUME In(Announce, outManager') \/ globalQueue'[m] > 0 PROVE process'[m].stage = "dead" \/ process'[m].onReady
  <2>1. CASE In(Announce, outManager) \/ globalQueue[m] > 0
    BY <1>1, <1>4, <2>1
  <2>2. CASE UNCHANGED process /\ early' = (early \/ ~EveryModuleReady)
    <3>1. process[m].stage = "dead" \/ process[m].stage = "signalled"
      BY <2>2 DEF EveryModuleReady
    <3> QED BY <2>2, <3>1 DEF LifeInv
  <2> QED BY <1>5, <2>1, <2>2, AnnounceSources
<1>6. ASSUME process'[m].readyReceived PROVE process'[m].ran
  <2>1. CASE NewProcess(m)
    BY <1>2, <1>6, <2>1, StartedTypes DEF NewProcess
  <2>2. CASE HandleReady(m) /\ process'[m] = [process[m] EXCEPT !.readyReceived = TRUE, !.ran = process[m].onReady]
    <3>1. process[m].onReady
      BY <1>1, <2>2 DEF HandleReady, Alive
    <3> QED BY <1>2, <2>2, <3>1 DEF ProcessStates
  <2>3. CASE process'[m].readyReceived = process[m].readyReceived /\ process'[m].ran = process[m].ran
    BY <1>1, <1>6, <2>3
  <2> QED BY <1>2, <2>1, <2>2, <2>3 DEF ProcessStep, ProcessStates
<1> QED BY <1>5, <1>6

-----------------------------------------------------------------------------
LEMMA Invariance == Spec => []IInv
<1>1. IInv /\ [Next]_vars => IInv'
  <2> SUFFICES ASSUME IInv, [Next]_vars PROVE IInv'
    OBVIOUS
  <2>1. TypeOK /\ StageInv /\ HoldInv /\ ChildrenInv /\ LifeInv /\ SignalInv /\ AnnounceInv
    BY DEF IInv
  <2>2. TypeOK' /\ StageInv' /\ HoldInv' /\ ChildrenInv' /\ LifeInv'
    BY <2>1, TypeNext, StageNext, HoldNext, ChildrenNext, LifeNext
  <2>3. SignalInv' /\ AnnounceInv'
    BY <2>1, <2>2, SignalNext, AnnounceNext
  <2> QED BY <2>2, <2>3 DEF IInv
<1> QED BY InitInv, <1>1, PTL DEF Spec

(* The state of the manager, its threads and the modules keeps its types    *)
(* through any number of restarts, deaths and lives.                        *)
THEOREM TypeCorrect == Spec => []TypeOK
<1>1. IInv => TypeOK
  BY DEF IInv
<1> QED BY Invariance, <1>1, PTL

(* The entry that module_ready_handler looks up is missing only from        *)
(* shutdown_modules on, after the death of a module or for a restart, until *)
(* the end of the next start_modules.                                       *)
THEOREM MissesOnlyAfterShutdown == Spec => TerminatesOnlyAfterShutdown
<1> DEFINE Missed == stage' = "terminated" /\ ManagerUp => ShuttingDown \/ (restarts > 0 /\ ~modulesStarted)
<1>1. ASSUME IInv, [Next]_vars, stage' = "terminated", Serving
      PROVE  restarts > 0 /\ ~modulesStarted
  <2>1. PICK m \in Modules : MissesEntry(m)
    <3>1. ~RegisterModule /\ ~SpawnModules /\ ~SpawnFails /\ ~RestartRequest /\ ~StartAgain /\ ~ControllerExits
      BY <1>1 DEF RegisterModule, SpawnModules, SpawnFails, RestartRequest, StartAgain, ControllerExits, ManagerEnds, Serving
    <3>2. ~SignalChildren /\ ~ExitManager /\ ~ReloadConfig /\ ~UNCHANGED mainVars
      BY <1>1 DEF SignalChildren, ExitManager, ReloadConfig, ManagerEnds, mainVars, Serving
    <3>3. \A m \in Modules : ~ReapModule(m)
      BY <1>1 DEF ReapModule, Serving
    <3> QED BY <1>1, <3>1, <3>2, <3>3, MainSteps
  <2>2. m \in holding /\ m \notin registered
    BY <1>1, <2>1 DEF MissesEntry, IInv, TypeOK
  <2>3. restarts # 0 /\ ~modulesStarted /\ restarts \in Nat
    BY <1>1, <2>2 DEF IInv, HoldInv, TypeOK
  <2> QED BY <2>3
<1>2. IInv /\ [Next]_vars => [Missed]_vars
  BY <1>1 DEF ManagerUp
<1> QED BY Invariance, <1>2, PTL DEF Spec, TerminatesOnlyAfterShutdown

(* handle_ready finds the ready handler of a module, unless ready was       *)
(* announced early or something has been restarted.                         *)
THEOREM AcceptedReadyRuns == Spec => []ReadyHandlerRuns
<1>1. IInv => ReadyHandlerRuns
  BY DEF IInv, AnnounceInv, ReadyHandlerRuns
<1> QED BY Invariance, <1>1, PTL

(* No restart, and no start by hand, gives a module a second process.       *)
THEOREM NoSecondProcess == Spec => OneProcessPerModule
<1>1. ASSUME IInv, [Next]_vars, NEW m \in Modules, process'[m].lives > process[m].lives PROVE ~Alive(m)
  <2>1. process[m] \in ProcessStates /\ ProcessStep(m)
    BY <1>1, ProcessNext DEF IInv
  <2>2. CASE NewProcess(m)
    <3>1. CASE m \in Children /\ SpawnModules
      BY <1>1, <3>1 DEF IInv, ChildrenInv, SpawnModules
    <3>2. CASE Launch(m)
      BY <3>2 DEF Launch
    <3> QED BY <2>2, <3>1, <3>2 DEF NewProcess
  <2>3. CASE process'[m].lives = process[m].lives
    BY <1>1, <2>1, <2>3 DEF ProcessStates
  <2> QED BY <2>1, <2>2, <2>3 DEF ProcessStep, ProcessStates
<1>2. IInv /\ [Next]_vars => [\A m \in Modules : process'[m].lives > process[m].lives => ~Alive(m)]_vars
  BY <1>1
<1> QED BY Invariance, <1>2, PTL DEF Spec, OneProcessPerModule

(* A ready handler that finds all flags set has them from modules that have *)
(* signalled and are subscribed, once start_modules knows every module.     *)
THEOREM AnnouncesWhenReady == Spec => AnnouncedWhenAllReady
<1> DEFINE Announces == Len(outManager') > Len(outManager) /\ Last(outManager') = Announce
<1>1. ASSUME IInv, [Next]_vars, Announces, FirstRun, next > Len(Order) PROVE EveryModuleReady
  <2>1. TypeOK /\ StageInv /\ SignalInv
    BY <1>1 DEF IInv
  <2>2. outManager \in Seq(Packet)
    BY <2>1 DEF TypeOK
  <2>3. ~RegisterModule
    <3>1. next \in Nat /\ Len(Order) \in Nat /\ next > Len(Order)
      BY <1>1, <2>1, Positions DEF TypeOK
    <3>2. RegisterModule => next <= Len(Order)
      BY DEF RegisterModule
    <3> QED BY <3>1, <3>2
  <2>4. ~(DropHandlers /\ stage = "looping")
    BY <1>1, <2>1, ShutdownTypes
  <2>5. ~BrokerFromManager
    BY <1>1, <2>2 DEF BrokerFromManager
  <2>6. ~UNCHANGED outManager
    BY <1>1, <2>2
  <2>7. PICK m \in Modules : RunReady(m)
    BY <1>1, ManagerPackets, <2>3, <2>4, <2>5, <2>6
  <2>8. ManagerUp /\ m \in holding /\ m \in DOMAIN modulesReady /\ AllReady([modulesReady EXCEPT ![m] = TRUE])
    BY <2>6, <2>7 DEF RunReady
  <2>9. registered = Modules
    <3>1. restarts = 0 /\ next \in 1..(Len(Order) + 1) /\ registered \subseteq Modules
      BY <1>1, <2>1 DEF FirstRun, TypeOK
    <3>2. CASE stage = "starting"
      <4>1. \A i \in 1..Len(Order) : i \in 1..(next - 1)
        BY <1>1, <3>1, Positions
      <4> QED BY <2>1, <3>1, <3>2, <4>1, Positions DEF StageInv
    <3>3. CASE stage = "looping"
      BY <2>1, <3>1, <3>3 DEF StageInv
    <3>4. CASE ShuttingDown
      BY <2>1, <2>8, <3>4 DEF StageInv, TypeOK
    <3> QED BY <2>8, <3>2, <3>3, <3>4 DEF ManagerUp, Serving
  <2>10. ASSUME NEW x \in Modules PROVE Done(x)
    <3>1. x \in DOMAIN modulesReady
      BY <2>1, <2>9 DEF TypeOK
    <3>2. x = m \/ modulesReady[x]
      BY <2>8, <3>1 DEF AllReady
    <3> QED BY <1>1, <2>1, <2>8, <3>1, <3>2 DEF SignalInv, Signals
  <2> QED BY <2>10 DEF EveryModuleReady, Done
<1>2. IInv /\ [Next]_vars => [Announces /\ FirstRun /\ next > Len(Order) => EveryModuleReady]_vars
  BY <1>1
<1> QED BY Invariance, <1>2, PTL DEF Spec, AnnouncedWhenAllReady

-----------------------------------------------------------------------------
(* No signal of the handshake is lost in the first run                      *)

(* A module whose ready messages can get to the manager has its handler.    *)
HandlerInv ==
  FirstRun /\ Serving =>
    \A m \in Modules :
      m \in managerSubs \/ In(Subscribe(m), outManager) \/ readyQueue[m] > 0 => m \in registered

(* The ready signal of a module, from its connection to modules_ready       *)
FlagInv ==
  FirstRun /\ Serving =>
    \A m \in Modules : process[m].stage = "signalled" =>
      \/ In("ready", out[m]) \/ readyQueue[m] > 0 \/ m \in holding
      \/ m \in DOMAIN modulesReady /\ modulesReady[m]

AllFlags == registered # {} /\ AllReady(modulesReady)

(* Global ready comes after the signals of all modules, and gets to each.   *)
GlobalInv ==
  FirstRun /\ Serving /\ ~early =>
    /\ AllFlags \/ In(Announce, outManager) => \A m \in Modules : Done(m)
    /\ AllFlags => \A m \in Modules : process[m].stage = "signalled" =>
         In(Announce, outManager) \/ globalQueue[m] > 0 \/ process[m].readyReceived

KeptInv == HandlerInv /\ FlagInv /\ GlobalInv

(* While the manager is up in the first run, no entry and no packet of it   *)
(* is dropped.                                                              *)
LEMMA EntriesStay ==
  ASSUME TypeOK, StageInv, LifeInv, [Next]_vars, FirstRun', Serving'
  PROVE  /\ FirstRun /\ Serving
         /\ \/ UNCHANGED <<registered, modulesReady, outManager>>
            \/ BrokerFromManager \/ RegisterModule \/ \E m \in Modules : RunReady(m)
<1> USE DEF Serving
<1>1. FirstRun /\ ~RestartRequest
  <2>1. FirstRun /\ restarts' = 0 /\ restarts \in Nat
    BY FirstRunSteps DEF FirstRun, TypeOK
  <2> QED BY <2>1 DEF RestartRequest
<1>2. ~SpawnFails /\ ~ControllerExits /\ \A m \in Modules : ~MissesEntry(m)
  BY DEF SpawnFails, ControllerExits, MissesEntry, ManagerEnds
<1>3. \A m \in Modules : ReapModule(m) => UNCHANGED <<stage, registered, modulesReady, outManager>>
  BY DEF ReapModule, readyVars
<1>4. Serving
  <2>1. CASE RegisterModule \/ SpawnModules \/ StartAgain
    BY <2>1 DEF RegisterModule, SpawnModules, StartAgain
  <2>2. ~SignalChildren /\ ~ExitManager
    BY DEF SignalChildren, ExitManager, ManagerEnds
  <2>3. CASE ReloadConfig
    BY <1>1, <2>3 DEF ReloadConfig, StageInv, FirstRun
  <2> QED BY <1>1, <1>2, <1>3, <2>1, <2>2, <2>3, MainSteps DEF mainVars
<1>5. \/ UNCHANGED <<registered, modulesReady, outManager>>
      \/ BrokerFromManager \/ RegisterModule \/ RestartRequest
      \/ \E m \in Modules : RunReady(m) \/ ReapModule(m)
  BY ZenonT(40) DEF Next, ModuleStep, Terminate, Die, Ends, SpawnModules, SpawnFails, SignalChildren, ExitManager, ReloadConfig,
     StartAgain, ControllerExits, Launch,
     Boot, SetOnReady, SignalReady, HandleReady, BrokerFromModule, BrokerLate, TakeReady, MissesEntry, readyVars, vars
<1> QED BY <1>1, <1>3, <1>4, <1>5

LEMMA HandlerNext == TypeOK /\ StageInv /\ LifeInv /\ HandlerInv /\ [Next]_vars => HandlerInv'
<1> SUFFICES ASSUME TypeOK, StageInv, LifeInv, HandlerInv, [Next]_vars, FirstRun', Serving', NEW m \in Modules,
                    m \in managerSubs' \/ In(Subscribe(m), outManager') \/ readyQueue'[m] > 0
             PROVE  m \in registered'
  BY DEF HandlerInv
<1>1. /\ m \in managerSubs \/ In(Subscribe(m), outManager) \/ readyQueue[m] > 0 => m \in registered
      /\ outManager \in Seq(Packet) /\ readyQueue \in [Modules -> Nat]
  BY EntriesStay DEF HandlerInv, TypeOK
<1>2. m \in registered => m \in registered'
  BY EntriesStay DEF RegisterModule, RunReady, BrokerFromManager, readyVars
<1>3. ASSUME In(Subscribe(m), outManager') PROVE In(Subscribe(m), outManager) \/ m \in registered'
  <2>1. CASE RegisterModule
    <3>1. /\ Order[next] \in Modules /\ outManager' = Append(outManager, Subscribe(Order[next]))
          /\ Order[next] \in registered'
      BY <2>1, Positions DEF RegisterModule, TypeOK
    <3>2. Subscribe(Order[next]) \in Packet /\ (Subscribe(m) = Subscribe(Order[next]) => m = Order[next])
      BY <3>1, Packets DEF Subscribe
    <3> QED BY <1>1, <1>3, <3>1, <3>2, AppendIn
  <2>2. CASE BrokerFromManager
    BY <1>1, <1>3, <2>2, TailIn DEF BrokerFromManager
  <2>3. ASSUME NEW n \in Modules, RunReady(n) PROVE In(Subscribe(m), outManager)
    <3>1. outManager' = outManager \/ outManager' = Append(outManager, Announce)
      BY <2>3 DEF RunReady
    <3> QED BY <1>1, <1>3, <3>1, Packets, AppendIn
  <2>4. CASE UNCHANGED outManager
    BY <1>3, <2>4
  <2> QED BY <2>1, <2>2, <2>3, <2>4, EntriesStay
<1>4. ASSUME m \in managerSubs' PROVE m \in managerSubs \/ In(Subscribe(m), outManager)
  <2>1. UNCHANGED managerSubs \/ BrokerFromManager
    BY ZenonT(40) DEF Next, ModuleStep, Terminate, Die, Ends, RegisterModule, SpawnModules, SpawnFails, RestartRequest, SignalChildren, ExitManager,
       ReloadConfig, StartAgain, ControllerExits, ReapModule, Launch, Boot, SetOnReady, SignalReady, HandleReady, BrokerFromModule,
       BrokerLate, TakeReady, RunReady, MissesEntry, vars
  <2>2. CASE BrokerFromManager
    <3>1. outManager # <<>> /\ Head(outManager) \in Packet /\ In(Head(outManager), outManager)
      BY <1>1, <2>2, TailIn DEF BrokerFromManager
    <3>2. Head(outManager).kind = "subscribe" /\ Head(outManager).module = m => Head(outManager) = Subscribe(m)
      BY <3>1 DEF Packet, Subscribe
    <3> QED BY <1>4, <2>2, <3>1, <3>2 DEF BrokerFromManager
  <2> QED BY <1>4, <2>1, <2>2
<1>5. ASSUME readyQueue'[m] > 0 PROVE readyQueue[m] > 0 \/ m \in managerSubs
  <2>1. UNCHANGED readyQueue \/ \E x \in Modules : TakeReady(x) \/ BrokerFromModule(x) \/ BrokerLate(x)
    BY QueueSteps
  <2>2. ASSUME NEW x \in Modules, TakeReady(x) PROVE readyQueue[m] > 0
    BY <1>1, <1>5, <2>2 DEF TakeReady
  <2>3. ASSUME NEW x \in Modules, BrokerFromModule(x) \/ BrokerLate(x) PROVE readyQueue[m] > 0 \/ m \in managerSubs
    <3>1. readyQueue' = readyQueue \/ (x \in managerSubs /\ readyQueue' = [readyQueue EXCEPT ![x] = @ + 1])
      BY <2>3 DEF BrokerFromModule, BrokerLate, Delivered
    <3> QED BY <1>1, <1>5, <3>1
  <2> QED BY <1>5, <2>1, <2>2, <2>3
<1> QED BY <1>1, <1>2, <1>3, <1>4, <1>5

LEMMA FlagNext ==
  TypeOK /\ TypeOK' /\ StageInv /\ LifeInv /\ HandlerInv /\ FlagInv /\ SubscribedInTime /\ [Next]_vars => FlagInv'
<1> SUFFICES ASSUME TypeOK, TypeOK', StageInv, LifeInv, HandlerInv, FlagInv, SubscribedInTime, [Next]_vars, FirstRun', Serving',
                    NEW m \in Modules, process'[m].stage = "signalled"
             PROVE  \/ In("ready", out'[m]) \/ readyQueue'[m] > 0 \/ m \in holding'
                    \/ m \in DOMAIN modulesReady' /\ modulesReady'[m]
  BY DEF FlagInv
<1>0. /\ out[m] \in Seq({"subscribe", "ready"}) /\ out \in [Modules -> Seq({"subscribe", "ready"})]
      /\ readyQueue \in [Modules -> Nat] /\ readyQueue' \in [Modules -> Nat]
  <2>1. out \in [Modules -> Seq({"subscribe", "ready"})] /\ readyQueue \in [Modules -> Nat] /\ readyQueue' \in [Modules -> Nat]
    BY DEF TypeOK
  <2> QED BY <2>1
<1>1. FirstRun /\ Serving
  BY EntriesStay
<1>2. CASE SignalReady(m)
  <2>1. out'[m] = Append(out[m], "ready") /\ "ready" \in {"subscribe", "ready"}
    BY <1>0, <1>2 DEF SignalReady
  <2>2. In("ready", Append(out[m], "ready"))
    BY <1>0, <2>1, AppendIn
  <2> QED BY <2>1, <2>2
<1>3. CASE ~SignalReady(m)
  <2>1. ~Ends(m) /\ ~Boot(m) /\ ~NewProcess(m)
    <3>1. process \in [Modules -> ProcessStates] /\ process[m] \in ProcessStates
      BY ProcessNext
    <3>2. Ends(m) => process'[m].stage = "dead"
      BY <3>1 DEF Ends, ProcessStates
    <3>3. Boot(m) => process'[m].stage = "looping"
      BY <3>1 DEF Boot, Advance, ProcessStates
    <3>4. NewProcess(m) => process'[m].stage = "spawned"
      BY <3>1, StartedTypes DEF NewProcess
    <3> QED BY <3>2, <3>3, <3>4
  <2>2. process[m].stage = "signalled"
    BY <1>3, <2>1, StageSteps
  <2>3. CASE In("ready", out[m])
    <3>1. CASE BrokerFromModule(m)
      <4>1. out[m] # <<>> /\ out'[m] = Tail(out[m])
        BY <1>0, <3>1 DEF BrokerFromModule
      <4>2. CASE Head(out[m]) = "ready"
        <5>1. m \in managerSubs /\ readyQueue' = [readyQueue EXCEPT ![m] = @ + 1]
          BY <1>1, <2>2, <3>1, <4>2 DEF SubscribedInTime, BrokerFromModule, Delivered
        <5>2. readyQueue'[m] > 0
          BY <1>0, <5>1
        <5> QED BY <5>2
      <4>3. CASE Head(out[m]) # "ready"
        <5>1. In("ready", out'[m])
          BY <1>0, <2>3, <4>1, <4>3, TailIn
        <5> QED BY <5>1
      <4> QED BY <4>2, <4>3
    <3>2. CASE ~BrokerFromModule(m)
      <4>1. out'[m] = out[m]
        BY <1>0, <1>3, <2>1, <3>2, OutSteps DEF Boot, SignalReady, Ends, BrokerFromModule
      <4> QED BY <2>3, <4>1
    <3> QED BY <3>1, <3>2
  <2>4. CASE readyQueue[m] > 0
    <3>1. m \in registered
      BY <1>1, <2>4 DEF HandlerInv
    <3>2. CASE TakeReady(m)
      BY <3>1, <3>2 DEF TakeReady
    <3>3. CASE ~TakeReady(m)
      <4>1. UNCHANGED readyQueue \/ \E x \in Modules : TakeReady(x) \/ BrokerFromModule(x) \/ BrokerLate(x)
        BY QueueSteps
      <4>2. ASSUME NEW x \in Modules, TakeReady(x) PROVE readyQueue'[m] = readyQueue[m]
        BY <1>0, <3>3, <4>2 DEF TakeReady
      <4>3. ASSUME NEW x \in Modules, BrokerFromModule(x) \/ BrokerLate(x) PROVE readyQueue'[m] > 0
        <5>1. readyQueue' = readyQueue \/ readyQueue' = [readyQueue EXCEPT ![x] = @ + 1]
          BY <4>3 DEF BrokerFromModule, BrokerLate, Delivered
        <5>2. readyQueue'[m] = readyQueue[m] \/ readyQueue'[m] = readyQueue[m] + 1
          BY <1>0, <5>1
        <5>3. readyQueue[m] \in Nat
          BY <1>0
        <5> QED BY <2>4, <5>2, <5>3
      <4> QED BY <2>4, <4>1, <4>2, <4>3
    <3> QED BY <3>2, <3>3
  <2>5. CASE m \in holding
    <3>1. UNCHANGED holding \/ \E x \in Modules : TakeReady(x) \/ RunReady(x)
      <4>1. \A x \in Modules : ~MissesEntry(x)
        BY DEF MissesEntry, ManagerEnds, Serving
      <4> QED BY <4>1, HoldingSteps
    <3>2. ASSUME NEW x \in Modules, TakeReady(x) PROVE m \in holding'
      BY <2>5, <3>2 DEF TakeReady
    <3>3. ASSUME NEW x \in Modules, RunReady(x)
          PROVE  m \in holding' \/ (m \in DOMAIN modulesReady' /\ modulesReady'[m])
      <4>1. holding' = holding \ {x} /\ x \in DOMAIN modulesReady /\ modulesReady' = [modulesReady EXCEPT ![x] = TRUE]
        BY <3>3 DEF RunReady
      <4> QED BY <2>5, <4>1
    <3> QED BY <2>5, <3>1, <3>2, <3>3
  <2>6. CASE m \in DOMAIN modulesReady /\ modulesReady[m]
    <3>1. CASE RegisterModule
      BY <2>6, <3>1 DEF RegisterModule
    <3>2. ASSUME NEW x \in Modules, RunReady(x) PROVE m \in DOMAIN modulesReady' /\ modulesReady'[m]
      BY <2>6, <3>2 DEF RunReady
    <3> QED BY <2>6, <3>1, <3>2, EntriesStay DEF BrokerFromManager, readyVars
  <2> QED BY <1>1, <2>2, <2>3, <2>4, <2>5, <2>6 DEF FlagInv
<1> QED BY <1>2, <1>3

(* What makes all flags set                                                 *)
LEMMA AllFlagsSources ==
  ASSUME TypeOK, StageInv, LifeInv, [Next]_vars, FirstRun', Serving', AllFlags'
  PROVE  AllFlags \/ (In(Announce, outManager') /\ UNCHANGED process /\ early' = (early \/ ~EveryModuleReady))
<1>0. registered = DOMAIN modulesReady /\ outManager \in Seq(Packet) /\ Announce \in Packet
  BY Packets DEF TypeOK
<1>1. CASE RegisterModule
  BY <1>0, <1>1 DEF RegisterModule, AllFlags, AllReady
<1>2. ASSUME NEW m \in Modules, RunReady(m)
      PROVE  In(Announce, outManager') /\ UNCHANGED process /\ early' = (early \/ ~EveryModuleReady)
  <2>1. AllReady(modulesReady')
    BY DEF AllFlags
  <2>2. /\ outManager' = Append(outManager, Announce) /\ UNCHANGED process
        /\ early' = (early \/ ~EveryModuleReady)
    BY <1>2, <2>1 DEF RunReady, moduleVars
  <2> QED BY <1>0, <2>2, AppendIn
<1>3. CASE UNCHANGED <<registered, modulesReady>>
  BY <1>3 DEF AllFlags, AllReady
<1> QED BY <1>1, <1>2, <1>3, EntriesStay DEF BrokerFromManager, readyVars

LEMMA GlobalNext == TypeOK /\ StageInv /\ LifeInv /\ GlobalInv /\ [Next]_vars => GlobalInv'
<1> SUFFICES ASSUME TypeOK, StageInv, LifeInv, GlobalInv, [Next]_vars, FirstRun', Serving', ~early'
             PROVE  /\ AllFlags' \/ In(Announce, outManager') => \A m \in Modules : Done(m)'
                    /\ AllFlags' => \A m \in Modules : process'[m].stage = "signalled" =>
                         In(Announce, outManager') \/ globalQueue'[m] > 0 \/ process'[m].readyReceived
  BY DEF GlobalInv
<1>0. outManager \in Seq(Packet) /\ globalQueue \in [Modules -> Nat]
  BY DEF TypeOK
<1>1. FirstRun /\ Serving /\ ~early
  BY EntriesStay, AnnounceSources
<1>2. ASSUME AllFlags \/ In(Announce, outManager), NEW m \in Modules PROVE Done(m)'
  BY <1>1, <1>2, DoneStays DEF GlobalInv
<1>3. ASSUME UNCHANGED process, early' = (early \/ ~EveryModuleReady), NEW m \in Modules PROVE Done(m)'
  <2>1. Done(m)
    BY <1>3 DEF EveryModuleReady, Done
  <2> QED BY <2>1, DoneStays
<1>4. ASSUME AllFlags' \/ In(Announce, outManager'), NEW m \in Modules PROVE Done(m)'
  BY <1>2, <1>3, <1>4, AllFlagsSources, AnnounceSources
<1>5. ASSUME AllFlags, NEW m \in Modules, process'[m].stage = "signalled"
      PROVE  In(Announce, outManager') \/ globalQueue'[m] > 0 \/ process'[m].readyReceived
  <2>1. Done(m) /\ ~NewProcess(m) /\ process[m] \in ProcessStates /\ ProcessStep(m)
    <3>1. Done(m)
      BY <1>1, <1>5 DEF GlobalInv
    <3> QED BY <3>1, FirstRunSteps, ProcessNext DEF Done
  <2>2. process[m].stage = "signalled"
    BY <1>5, <2>1 DEF Done, ProcessStep, ProcessStates, SetOnReady
  <2>3. m \in moduleSubs
    BY <2>1, <2>2 DEF Done
  <2>4. CASE In(Announce, outManager)
    <3>1. CASE BrokerFromManager
      <4>1. /\ outManager # <<>> /\ outManager' = Tail(outManager)
            /\ Head(outManager) \in Packet
            /\ Head(outManager) = Announce \/ In(Announce, outManager')
        BY <1>0, <2>4, <3>1, TailIn DEF BrokerFromManager
      <4>2. CASE Head(outManager) = Announce
        <5>1. globalQueue' = [x \in Modules |-> IF x \in moduleSubs THEN globalQueue[x] + 1 ELSE globalQueue[x]]
          BY <3>1, <4>2 DEF BrokerFromManager, Announce
        <5> QED BY <1>0, <2>3, <5>1
      <4> QED BY <4>1, <4>2
    <3>2. CASE RegisterModule
      <4>1. outManager' = Append(outManager, Subscribe(Order[next])) /\ Subscribe(Order[next]) \in Packet
        BY <3>2, Positions, Packets DEF RegisterModule, TypeOK
      <4> QED BY <1>0, <2>4, <4>1, AppendIn
    <3>3. ASSUME NEW x \in Modules, RunReady(x) PROVE In(Announce, outManager')
      <4>1. outManager' = outManager \/ outManager' = Append(outManager, Announce)
        BY <3>3 DEF RunReady
      <4>2. In(Announce, Append(outManager, Announce))
        BY <1>0, Packets, AppendIn
      <4> QED BY <2>4, <4>1, <4>2
    <3> QED BY <2>4, <3>1, <3>2, <3>3, EntriesStay
  <2>5. CASE globalQueue[m] > 0
    <3>1. CASE HandleReady(m)
      BY <2>1, <3>1 DEF HandleReady, TypeOK
    <3>2. CASE ~HandleReady(m)
      <4>1. UNCHANGED globalQueue \/ SpawnModules \/ BrokerFromManager \/ \E x \in Modules : Launch(x) \/ HandleReady(x)
        BY GlobalQueueSteps
      <4>2. CASE SpawnModules
        <5>1. m \notin Children
          <6>1. m \in Children => process'[m] = Started(process[m]) /\ process[m].lives < MaxLives
            BY <4>2 DEF SpawnModules
          <6> QED BY <1>5, <2>1, <6>1, StartedTypes
        <5> QED BY <1>0, <2>5, <4>2, <5>1 DEF SpawnModules
      <4>3. CASE BrokerFromManager
        <5>1. \/ globalQueue' = globalQueue
              \/ globalQueue' = [x \in Modules |-> IF x \in moduleSubs THEN globalQueue[x] + 1 ELSE globalQueue[x]]
          BY <4>3 DEF BrokerFromManager
        <5> QED BY <1>0, <2>5, <5>1
      <4>4. ASSUME NEW x \in Modules, Launch(x) PROVE globalQueue'[m] > 0
        <5>1. x # m
          BY <2>2, <4>4 DEF Launch, Alive
        <5> QED BY <1>0, <2>5, <4>4, <5>1 DEF Launch
      <4>5. ASSUME NEW x \in Modules, HandleReady(x) PROVE globalQueue'[m] > 0
        <5>1. x # m
          BY <3>2, <4>5
        <5> QED BY <1>0, <2>5, <4>5, <5>1 DEF HandleReady
      <4> QED BY <2>5, <4>1, <4>2, <4>3, <4>4, <4>5
    <3> QED BY <3>1, <3>2
  <2>6. CASE process[m].readyReceived
    <3>1. CASE process'[m] = [process[m] EXCEPT !.readyReceived = TRUE, !.ran = process[m].onReady]
      BY <2>1, <3>1 DEF ProcessStates
    <3>2. CASE process'[m].readyReceived = process[m].readyReceived
      BY <2>6, <3>2
    <3> QED BY <2>1, <3>1, <3>2 DEF ProcessStep, ProcessStates
  <2> QED BY <1>1, <1>5, <2>2, <2>4, <2>5, <2>6 DEF GlobalInv
<1> QED BY <1>4, <1>5, AllFlagsSources

(* The signals of the handshake are kept in the first run, if the manager's *)
(* subscriptions get to the broker in time: each module's ready signal      *)
(* until module_ready_handler sets its flag, and then global ready until    *)
(* handle_ready of each module accepts it.                                  *)
THEOREM SignalsNeverLost == Spec => SignalsAreKept
<1> DEFINE Kept ==
      FirstRun /\ Serving => \A m \in Modules : process[m].stage = "signalled" =>
        /\ SignalOnItsWay(m)
        /\ registered # {} /\ AllReady(modulesReady) /\ ~early => ReadyOnItsWay(m)
<1>1. Init => KeptInv
  <2>1. Init => \A m \in Modules : process[m].stage = "none" /\ readyQueue[m] = 0
    BY DEF Init, NoProcess
  <2> QED BY <2>1, EmptyIn DEF Init, KeptInv, HandlerInv, FlagInv, GlobalInv, AllFlags
<1>2. IInv /\ IInv' /\ KeptInv /\ SubscribedInTime /\ [Next]_vars => KeptInv'
  BY HandlerNext, FlagNext, GlobalNext DEF IInv, KeptInv
<1>3. IInv /\ KeptInv => Kept
  <2> SUFFICES ASSUME IInv, KeptInv, FirstRun, Serving, NEW m \in Modules, process[m].stage = "signalled"
               PROVE  /\ SignalOnItsWay(m)
                      /\ registered # {} /\ AllReady(modulesReady) /\ ~early => ReadyOnItsWay(m)
    OBVIOUS
  <2>1. out[m] \in Seq({"subscribe", "ready"}) /\ outManager \in Seq(Packet)
    <3>1. out \in [Modules -> Seq({"subscribe", "ready"})] /\ outManager \in Seq(Packet)
      BY DEF IInv, TypeOK
    <3> QED BY <3>1
  <2>2. /\ In("ready", out[m]) => "ready" \in ToSet(out[m])
        /\ In(Announce, outManager) => Announce \in ToSet(outManager)
    BY <2>1, ElementsIn DEF ToSet
  <2> QED BY <2>2 DEF KeptInv, FlagInv, GlobalInv, AllFlags, SignalOnItsWay, ReadyOnItsWay
<1> QED BY Invariance, <1>1, <1>2, <1>3, PTL DEF Spec, SignalsAreKept

-----------------------------------------------------------------------------
(* The wait for the children before a restart                               *)

(* Every child the main loop still has a handle of is dead, or about to get *)
(* the SIGTERM of shutdown_modules.                                         *)
Doomed == \A m \in handles : process[m].stage = "dead" \/ m \in doomed
Dying == restartModules /\ ManagerUp => Doomed

WaitInv ==
  /\ stage = "starting" => handles = {}
  /\ \A m \in handles : process[m].stage # "none"
  /\ stage = "reloading" => Doomed
  /\ Dying

LEMMA DoomedSteps ==
  ASSUME [Next]_vars, ~SpawnModules
  PROVE  doomed \subseteq doomed' \/ \E m \in Modules : Terminate(m)
<1>1. \/ UNCHANGED doomed \/ SignalChildren \/ (\E how \in {"exited", "terminated"} : ManagerEnds(how))
      \/ \E m \in Modules : Terminate(m)
  BY ZenonT(40) DEF Next, ModuleStep, Die, Ends, RegisterModule, SpawnFails, RestartRequest, ExitManager, ReloadConfig, StartAgain, ControllerExits,
     BrokerFromManager, TakeReady, RunReady, MissesEntry, ReapModule, Launch, Boot, SetOnReady, SignalReady, HandleReady,
     BrokerFromModule, BrokerLate, vars
<1> QED BY <1>1 DEF SignalChildren, ManagerEnds

LEMMA WaitNext == TypeOK /\ StageInv /\ WaitInv /\ [Next]_vars => WaitInv'
<1> SUFFICES ASSUME TypeOK, StageInv, WaitInv, [Next]_vars PROVE WaitInv'
  OBVIOUS
<1> USE DEF ManagerUp, Serving, ShuttingDown
<1>0. handles \subseteq Children /\ \A m \in Children : m \in Modules /\ m \notin Standalone
  BY DEF TypeOK, Children
<1>1. CASE SpawnModules
  <2>1. handles' = Children /\ stage' = "looping" /\ ~restartModules'
    BY <1>1 DEF SpawnModules
  <2>2. ASSUME NEW m \in Children PROVE process'[m].stage = "spawned"
    <3>1. process'[m] = Started(process[m]) /\ process[m] \in ProcessStates /\ process[m].lives < MaxLives
      BY <1>0, <1>1, ProcessNext DEF SpawnModules
    <3> QED BY <3>1, StartedTypes
  <2> QED BY <2>1, <2>2 DEF WaitInv, Dying, Doomed
<1>2. ASSUME ~SpawnModules, NEW m \in handles
      PROVE  /\ process'[m].stage # "none"
             /\ process[m].stage = "dead" => process'[m].stage = "dead"
             /\ m \in doomed => process'[m].stage = "dead" \/ m \in doomed'
  <2>1. process[m].stage # "none" /\ process[m] \in ProcessStates /\ ProcessStep(m) /\ ~NewProcess(m)
    BY <1>0, <1>2, ProcessNext DEF WaitInv, NewProcess, Launch
  <2>2. process'[m].stage # "none" /\ (process[m].stage = "dead" => process'[m].stage = "dead")
    BY <2>1 DEF ProcessStep, ProcessStates, SetOnReady
  <2>3. \/ doomed \subseteq doomed'
        \/ \E n \in Modules : Terminate(n)
    BY <1>2, DoomedSteps
  <2>4. ASSUME NEW n \in Modules, Terminate(n) PROVE m \in doomed => process'[m].stage = "dead" \/ m \in doomed'
    BY <2>4 DEF Terminate, Ends, TypeOK
  <2> QED BY <2>2, <2>3, <2>4
<1>3. CASE ~SpawnModules /\ handles' \subseteq handles /\ (stage' = "starting" => handles' = {})
           /\ ((restartModules' /\ ManagerUp') \/ stage' = "reloading" =>
                 (restartModules /\ ManagerUp) \/ stage = "reloading" \/ handles \subseteq doomed')
  <2>1. (restartModules /\ ManagerUp) \/ stage = "reloading" => Doomed
    BY DEF WaitInv, Dying
  <2>2. ASSUME Doomed \/ handles \subseteq doomed' PROVE Doomed'
    BY <1>2, <1>3, <2>2 DEF Doomed
  <2> QED BY <1>2, <1>3, <2>1, <2>2 DEF WaitInv, Dying
<1>4. CASE RegisterModule \/ SpawnFails \/ ControllerExits \/ StartAgain
  BY <1>3, <1>4 DEF WaitInv, RegisterModule, SpawnFails, ControllerExits, ManagerEnds, StartAgain, SpawnModules
<1>5. CASE RestartRequest
  BY <1>3, <1>5 DEF RestartRequest, SpawnModules
<1>6. ASSUME NEW m \in Modules, MissesEntry(m) \/ ReapModule(m) PROVE WaitInv'
  <2>1. ~SpawnModules /\ handles' \subseteq handles /\ stage' # "starting"
    BY <1>6 DEF MissesEntry, ManagerEnds, ReapModule, SpawnModules
  <2> QED BY <1>3, <1>6, <2>1 DEF MissesEntry, ManagerEnds, ReapModule
<1>7. CASE UNCHANGED mainVars
  BY <1>3, <1>7 DEF mainVars, WaitInv, SpawnModules
<1>8. CASE SignalChildren \/ ExitManager \/ ReloadConfig
  BY <1>3, <1>8 DEF SignalChildren, ExitManager, ReloadConfig, ManagerEnds, SpawnModules
<1> QED BY <1>1, <1>4, <1>5, <1>6, <1>7, <1>8, MainSteps

(* A restart waits for no child that runs on: each has died or is about to  *)
(* get its SIGTERM.                                                         *)
THEOREM RestartWaitsForTheDying == Spec => []Dying
<1>1. Init => WaitInv
  BY DEF Init, WaitInv, Dying, Doomed
<1>2. IInv /\ WaitInv /\ [Next]_vars => WaitInv'
  BY WaitNext DEF IInv
<1>3. WaitInv => Dying
  BY DEF WaitInv
<1> QED BY Invariance, <1>1, <1>2, <1>3, PTL DEF Spec

=============================================================================
