------------------------ MODULE ControllerRpcProofs ------------------------
(* Theorems about ControllerRpc for every set of requests, sessions and    *)
(* config files, and every choice of contents the manager accepts.         *)
EXTENDS ControllerRpc, SequenceTheorems, TLAPS

-----------------------------------------------------------------------------
(* The server thread and the call it waits for                             *)

Waiting == {"asking", "timed_out"}

\* A request that waits is the one being served, has its call pending or
\* answered, and its file beside the real one.
ServingInv ==
  /\ \A r \in Requests : state[r] \in Waiting <=> serving = r
  /\ \A r \in Requests : state[r] \in Waiting => r \in Saves /\ r \in DOMAIN calls
  /\ \A r \in Requests : state[r] = "asking" => temp[Name[r]] = Content[r]

\* A check is asked once, for a save that has been begun; it is answered once,
\* and what is on its way or has been handed to a call is that answer.
Asked(i) == i \in 1..Len(toManager) /\ toManager[i].method = "check_config"

AskedInv ==
  /\ \A i \in 1..Len(toManager) : Asked(i) =>
       /\ toManager[i].id \in Saves /\ verdict[toManager[i].id] = "none"
       /\ state[toManager[i].id] \notin {"idle", "sent"}
  /\ \A i, j \in 1..Len(toManager) :
       Asked(i) /\ Asked(j) /\ toManager[i].id = toManager[j].id => i = j

VerdictInv ==
  /\ \A i \in 1..Len(toController) : verdict[toController[i].id] = toController[i].result
  /\ \A r \in DOMAIN calls : calls[r] # "pending" => verdict[r] = calls[r]
  /\ \A r \in Saves : state[r] \in {"idle", "sent"} => verdict[r] = "none"
  /\ OwnAnswer

IInv == TypeOK /\ ServingInv /\ AskedInv /\ VerdictInv

-----------------------------------------------------------------------------
(* Types                                                                   *)

\* Sequences stay sequences when an element is appended or taken.
LEMMA SeqOps ==
  ASSUME NEW S, NEW s \in Seq(S)
  PROVE  /\ Len(s) \in Nat
         /\ \A e \in S : Append(s, e) \in Seq(S)
         /\ s # <<>> => Head(s) \in S /\ Tail(s) \in Seq(S)
         /\ \A i \in 1..Len(s) : s[i] \in S
         /\ <<>> \in Seq(S)
BY HeadTailProperties, ElementOfSeq, EmptySeq

\* What handle_json_rpc does when it returns keeps its types.
LEMMA FinishTypes ==
  ASSUME TypeOK, NEW r \in Requests, NEW how, NEW value \in {"result", "error"},
         Finish(r, how, value)
  PROVE  /\ state' = [state EXCEPT ![r] = how] /\ serving' = None
         /\ open' = open /\ received' = received
         /\ outputs' \in [Sessions -> Seq(Replies)] /\ writable' \subseteq Sessions
<1>1. SessionOf[r] \in Sessions
  BY ControllerConstants
<1>2. [id |-> r, value |-> value] \in Replies
  BY DEF Replies
<1>3. /\ outputs \in [Sessions -> Seq(Replies)] /\ writable \subseteq Sessions
  BY DEF TypeOK
<1>4. outputs[SessionOf[r]] \in Seq(Replies)
  BY <1>1, <1>3
<1>5. Append(outputs[SessionOf[r]], [id |-> r, value |-> value]) \in Seq(Replies)
  BY <1>2, <1>4, SeqOps
<1>6. /\ state' = [state EXCEPT ![r] = how] /\ serving' = None
      /\ open' = open /\ received' = received
      /\ \/ outputs' = outputs /\ writable' = writable
         \/ /\ outputs' = [outputs EXCEPT ![SessionOf[r]] =
                            Append(@, [id |-> r, value |-> value])]
            /\ writable' = writable \cup {SessionOf[r]}
  BY DEF Finish
<1>7. QED BY <1>1, <1>3, <1>5, <1>6

\* The steps of the server thread, the main thread and the manager, and those of
\* the browsers, each keep the types and the state of the call that is waited for.
LEMMA TypedStep == TypeOK /\ ServingInv /\ AskedInv /\ [Next]_vars => (TypeOK /\ ServingInv)'
<1> SUFFICES ASSUME TypeOK, ServingInv, AskedInv, [Next]_vars
             PROVE  (TypeOK /\ ServingInv)'
  OBVIOUS
<1>0. None \notin Requests /\ \A r \in Saves : r \in Requests /\ Name[r] \in Names /\ Content[r] \in Contents
  BY ControllerConstants DEF Saves, Contents
<1>1. ASSUME NEW r \in Requests, HandleOther(r)
      PROVE  (TypeOK /\ ServingInv)'
  <2>1. PICK value \in {"result", "error"} : Finish(r, "handled", value)
    BY <1>1 DEF HandleOther
  <2>2. /\ state[r] = "sent" /\ serving = None
        /\ UNCHANGED <<calls, temp, saved, toManager, toController, manager, verdict>>
    BY <1>1 DEF HandleOther, MayHandle, files, socket
  <2>3. /\ state' = [state EXCEPT ![r] = "handled"] /\ serving' = None
        /\ open' = open /\ received' = received
        /\ outputs' \in [Sessions -> Seq(Replies)] /\ writable' \subseteq Sessions
    BY <2>1, FinishTypes
  <2>4. TypeOK'
    BY <2>2, <2>3, <1>0 DEF TypeOK
  <2>5. ServingInv'
    BY <2>2, <2>3, <1>0 DEF TypeOK, ServingInv, Waiting
  <2>6. QED BY <2>4, <2>5
<1>2. ASSUME NEW r \in Requests, HandleRestart(r)
      PROVE  (TypeOK /\ ServingInv)'
  <2>1. Finish(r, "handled", "result")
    BY <1>2 DEF HandleRestart
  <2>2. /\ state[r] = "sent" /\ serving = None
        /\ toManager' = Append(toManager, [method |-> "restart_modules", id |-> r])
        /\ UNCHANGED <<calls, temp, saved, toController, manager, verdict>>
    BY <1>2 DEF HandleRestart, MayHandle, files
  <2>3. toManager' \in Seq([method : {"check_config", "restart_modules"}, id : Requests])
    <3>1. [method |-> "restart_modules", id |-> r]
            \in [method : {"check_config", "restart_modules"}, id : Requests]
      OBVIOUS
    <3>2. QED BY <2>2, <3>1, SeqOps DEF TypeOK
  <2>4. /\ state' = [state EXCEPT ![r] = "handled"] /\ serving' = None
        /\ open' = open /\ received' = received
        /\ outputs' \in [Sessions -> Seq(Replies)] /\ writable' \subseteq Sessions
    BY <2>1, FinishTypes
  <2>5. TypeOK'
    BY <2>2, <2>3, <2>4, <1>0 DEF TypeOK
  <2>6. ServingInv'
    BY <2>2, <2>4, <1>0 DEF TypeOK, ServingInv, Waiting
  <2>7. QED BY <2>5, <2>6
<1>3. ASSUME NEW r \in Requests, BeginSave(r)
      PROVE  (TypeOK /\ ServingInv)'
  <2>1. /\ r \in Saves /\ state[r] = "sent" /\ serving = None
        /\ state' = [state EXCEPT ![r] = "asking"] /\ serving' = r
        /\ temp' = [temp EXCEPT ![Name[r]] = Content[r]]
        /\ calls' = [x \in DOMAIN calls \cup {r} |-> IF x = r THEN "pending" ELSE calls[x]]
        /\ toManager' = Append(toManager, [method |-> "check_config", id |-> r])
        /\ UNCHANGED <<toController, saved, open, outputs, writable, received, manager, verdict>>
    BY <1>3 DEF BeginSave, MayHandle, Saves, web
  <2>2. toManager' \in Seq([method : {"check_config", "restart_modules"}, id : Requests])
    <3>1. [method |-> "check_config", id |-> r]
            \in [method : {"check_config", "restart_modules"}, id : Requests]
      OBVIOUS
    <3>2. QED BY <2>1, <3>1, SeqOps DEF TypeOK
  <2>3. DOMAIN calls = {}
    BY <2>1, <1>0 DEF TypeOK
  <2>4. DOMAIN calls' = {r} /\ calls'[r] = "pending"
    BY <2>1, <2>3
  <2>5. temp' \in [Names -> Contents \cup {None}]
    BY <2>1, <1>0 DEF TypeOK
  <2>6. state' \in [Requests -> {"idle", "sent", "asking", "timed_out", "saved", "refused",
                               "failed", "handled"}]
    BY <2>1 DEF TypeOK
  <2>7. TypeOK'
    BY <2>1, <2>2, <2>4, <2>5, <2>6 DEF TypeOK
  <2>8. \A x \in Requests : state[x] \notin Waiting
    BY <2>1, <1>0 DEF ServingInv
  <2>9. ServingInv'
    BY <2>1, <2>4, <2>8, <1>0 DEF TypeOK, ServingInv, Waiting
  <2>10. QED BY <2>7, <2>9
<1>4. ASSUME NEW r \in Requests, EndSave(r)
      PROVE  (TypeOK /\ ServingInv)'
  <2>1. /\ state[r] = "asking" /\ serving = r /\ r \in Saves
        /\ calls' = [x \in DOMAIN calls \ {r} |-> calls[x]]
        /\ temp' = [temp EXCEPT ![Name[r]] = None]
        /\ \/ Finish(r, "refused", "error") /\ saved' = saved
           \/ /\ Finish(r, "saved", "result")
              /\ saved' = [saved EXCEPT ![Name[r]] = temp[Name[r]]]
        /\ UNCHANGED <<toManager, toController, manager, verdict>>
    BY <1>4 DEF EndSave, Without, ServingInv, Waiting, socket
  <2>2. \E how \in {"refused", "saved"}, value \in {"result", "error"} : Finish(r, how, value)
    BY <2>1
  <2>3. PICK how \in {"refused", "saved"} : \E value \in {"result", "error"} : Finish(r, how, value)
    BY <2>2
  <2>4. /\ state' = [state EXCEPT ![r] = how] /\ serving' = None
        /\ open' = open /\ received' = received
        /\ outputs' \in [Sessions -> Seq(Replies)] /\ writable' \subseteq Sessions
    BY <2>3, FinishTypes
  <2>5. DOMAIN calls' = {}
    BY <2>1 DEF TypeOK
  <2>6. saved' \in [Names -> Contents \cup {None}] /\ temp' \in [Names -> Contents \cup {None}]
    BY <2>1, <1>0, ZenonT(60) DEF TypeOK
  <2>7. TypeOK'
    BY <2>1, <2>4, <2>5, <2>6 DEF TypeOK
  <2>8. \A x \in Requests : state'[x] \notin Waiting
    BY <2>1, <2>4 DEF TypeOK, ServingInv, Waiting
  <2>9. ServingInv'
    BY <2>4, <2>8, <1>0 DEF ServingInv, Waiting
  <2>10. QED BY <2>7, <2>9
<1>5. ASSUME NEW r \in Requests, TimeOut(r)
      PROVE  (TypeOK /\ ServingInv)'
  BY <1>5, <1>0 DEF TimeOut, TypeOK, ServingInv, Waiting, files, socket, web
<1>6. ASSUME NEW r \in Requests, GiveUp(r) \/ FileFails(r)
      PROVE  (TypeOK /\ ServingInv)'
  <2>1. /\ state[r] \in Waiting /\ serving = r
        /\ calls' = [x \in DOMAIN calls \ {r} |-> calls[x]]
        /\ Finish(r, "failed", "error")
        /\ UNCHANGED <<temp, saved, toManager, toController, manager, verdict>>
    BY <1>6 DEF GiveUp, FileFails, Without, ServingInv, Waiting, files, socket
  <2>2. DOMAIN calls' = {}
    BY <2>1 DEF TypeOK
  <2>3. /\ state' = [state EXCEPT ![r] = "failed"] /\ serving' = None
        /\ open' = open /\ received' = received
        /\ outputs' \in [Sessions -> Seq(Replies)] /\ writable' \subseteq Sessions
    BY <2>1, FinishTypes
  <2>4. TypeOK'
    BY <2>1, <2>2, <2>3 DEF TypeOK
  <2>5. \A x \in Requests : state'[x] \notin Waiting
    BY <2>1, <2>3 DEF TypeOK, ServingInv, Waiting
  <2>6. ServingInv'
    BY <2>3, <2>5, <1>0 DEF ServingInv, Waiting
  <2>7. QED BY <2>4, <2>6
<1>7. ASSUME NEW r \in Requests, SendRequest(r)
      PROVE  (TypeOK /\ ServingInv)'
  BY <1>7, <1>0 DEF SendRequest, TypeOK, ServingInv, Waiting, files, socket, web
<1>8. ASSUME NEW s \in Sessions, CloseSession(s) \/ WriteReply(s)
      PROVE  (TypeOK /\ ServingInv)'
  <2>1. outputs[s] \in Seq(Replies) /\ received[s] \in Seq(Replies) /\ <<>> \in Seq(Replies)
    BY SeqOps DEF TypeOK
  <2>2. outputs[s] # <<>> =>
          Append(received[s], Head(outputs[s])) \in Seq(Replies) /\ Tail(outputs[s]) \in Seq(Replies)
    BY <2>1, SeqOps
  <2>3. TypeOK'
    <3>1. CASE CloseSession(s)
      BY <3>1, <2>1 DEF CloseSession, TypeOK, rpcVars, files, socket
    <3>2. CASE WriteReply(s)
      <4>1. /\ received' \in [Sessions -> Seq(Replies)] /\ outputs' \in [Sessions -> Seq(Replies)]
            /\ writable' \subseteq Sessions
        BY <3>2, <2>2 DEF WriteReply, TypeOK
      <4>2. QED BY <3>2, <4>1 DEF WriteReply, TypeOK, rpcVars, files, socket
    <3>3. QED BY <1>8, <3>1, <3>2
  <2>4. ServingInv'
    BY <1>8 DEF CloseSession, WriteReply, ServingInv, rpcVars, files
  <2>5. QED BY <2>3, <2>4
<1>9. CASE TakeAnswer
  <2>1. /\ toController # <<>> /\ toController' = Tail(toController)
        /\ Head(toController) \in [id : Saves, result : Results]
        /\ toController' \in Seq([id : Saves, result : Results])
    BY <1>9, SeqOps DEF TakeAnswer, TypeOK
  <2>2. /\ DOMAIN calls' = DOMAIN calls
        /\ \A r \in DOMAIN calls : calls'[r] \in Results \cup {"pending"}
    BY <1>9, <2>1 DEF TakeAnswer, TypeOK
  <2>3. TypeOK'
    BY <1>9, <2>1, <2>2 DEF TakeAnswer, TypeOK, files, web
  <2>4. ServingInv'
    BY <1>9, <2>2 DEF TakeAnswer, ServingInv, files
  <2>5. QED BY <2>3, <2>4
<1>10. CASE CheckConfig
  <2>1. /\ toManager # <<>> /\ Request = toManager[1] /\ 1 \in 1..Len(toManager)
        /\ toManager' \in Seq([method : {"check_config", "restart_modules"}, id : Requests])
    BY <1>10, SeqOps, HeadTailProperties, EmptySeq DEF CheckConfig, TypeOK, Request
  <2>2. Request.id \in Saves
    BY <1>10, <2>1 DEF CheckConfig, AskedInv, Asked
  <2>3. PICK result \in Results :
          /\ toController' = Append(toController, [id |-> Request.id, result |-> result])
          /\ verdict' = [verdict EXCEPT ![Request.id] = result]
    BY <1>10 DEF CheckConfig, Results
  <2>4. toController' \in Seq([id : Saves, result : Results])
    <3>1. [id |-> Request.id, result |-> result] \in [id : Saves, result : Results]
      BY <2>2
    <3>2. QED BY <2>3, <3>1, SeqOps DEF TypeOK
  <2>5. TypeOK'
    BY <1>10, <2>1, <2>2, <2>3, <2>4 DEF CheckConfig, TypeOK, rpcVars, files, web
  <2>6. ServingInv'
    BY <1>10 DEF CheckConfig, ServingInv, rpcVars, files
  <2>7. QED BY <2>5, <2>6
<1>11. CASE RestartModules
  <2>1. toManager' \in Seq([method : {"check_config", "restart_modules"}, id : Requests])
    BY <1>11, SeqOps DEF RestartModules, TypeOK
  <2>2. TypeOK'
    BY <1>11, <2>1 DEF RestartModules, TypeOK, rpcVars, files, web
  <2>3. ServingInv'
    BY <1>11 DEF RestartModules, ServingInv, rpcVars, files
  <2>4. QED BY <2>2, <2>3
<1>12. CASE UNCHANGED vars
  BY <1>12 DEF vars, rpcVars, files, socket, web, TypeOK, ServingInv
<1>13. QED
  BY <1>1, <1>2, <1>3, <1>4, <1>5, <1>6, <1>7, <1>8, <1>9, <1>10, <1>11, <1>12
     DEF Next, ServerThread

-----------------------------------------------------------------------------
(* Answers                                                                 *)

\* Where the elements are after appending one, and after taking the first.
LEMMA SeqIndices ==
  ASSUME NEW S, NEW s \in Seq(S)
  PROVE  /\ \A e \in S : /\ Len(Append(s, e)) = Len(s) + 1
                         /\ \A i \in 1..Len(s) : Append(s, e)[i] = s[i]
                         /\ Append(s, e)[Len(s) + 1] = e
         /\ s # <<>> => /\ Len(Tail(s)) = Len(s) - 1 /\ Head(s) = s[1] /\ 1 \in 1..Len(s)
                        /\ \A i \in 1..Len(Tail(s)) : i + 1 \in 1..Len(s) /\ Tail(s)[i] = s[i + 1]
<1>1. \A e \in S : /\ Len(Append(s, e)) = Len(s) + 1
                   /\ \A i \in 1..Len(s) : Append(s, e)[i] = s[i]
                   /\ Append(s, e)[Len(s) + 1] = e
  BY AppendProperties
<1>2. ASSUME s # <<>>
      PROVE  /\ Len(Tail(s)) = Len(s) - 1 /\ Head(s) = s[1] /\ 1 \in 1..Len(s)
             /\ \A i \in 1..Len(Tail(s)) : i + 1 \in 1..Len(s) /\ Tail(s)[i] = s[i + 1]
  <2>1. Len(s) \in Nat /\ Len(s) >= 1
    BY <1>2, EmptySeq
  <2>2. Len(Tail(s)) = Len(s) - 1 /\ \A i \in 1..Len(Tail(s)) : Tail(s)[i] = s[i + 1]
    BY <1>2, HeadTailProperties
  <2>3. Head(s) = s[1]
    BY <1>2, HeadTailProperties
  <2>4. QED BY <2>1, <2>2, <2>3
<1>3. QED BY <1>1, <1>2

\* The requests in the socket stay those of saves that are waiting for their
\* first answer, each at most once.
LEMMA AskedStep == IInv /\ [Next]_vars => AskedInv'
<1> SUFFICES ASSUME TypeOK, ServingInv, AskedInv, VerdictInv, [Next]_vars PROVE AskedInv'
  BY DEF IInv
<1> DEFINE Message == [method : {"check_config", "restart_modules"}, id : Requests]
<1>0. toManager \in Seq(Message) /\ Len(toManager) \in Nat
  BY SeqOps DEF TypeOK
<1>1. ASSUME UNCHANGED <<toManager, verdict>>,
             \A r \in Requests : state'[r] \in {"idle", "sent"} => state[r] \in {"idle", "sent"}
      PROVE  AskedInv'
  BY <1>1 DEF AskedInv, Asked, Saves
<1>2. ASSUME NEW r \in Requests, NEW how \in {"handled", "saved", "refused", "failed"},
             NEW value \in {"result", "error"}, Finish(r, how, value),
             UNCHANGED <<toManager, verdict>>
      PROVE  AskedInv'
  BY <1>1, <1>2 DEF Finish, TypeOK
<1>3. ASSUME NEW r \in Requests, HandleRestart(r)
      PROVE  AskedInv'
  <2>1. /\ [method |-> "restart_modules", id |-> r] \in Message
        /\ toManager' = Append(toManager, [method |-> "restart_modules", id |-> r])
        /\ state' = [state EXCEPT ![r] = "handled"] /\ verdict' = verdict
    BY <1>3 DEF HandleRestart, Finish
  <2>2. \A i \in 1..Len(toManager') : Asked(i)' => i \in 1..Len(toManager) /\ Asked(i) /\ toManager'[i] = toManager[i]
    BY <1>0, <2>1, SeqIndices DEF Asked
  <2>3. QED BY <2>1, <2>2 DEF AskedInv, TypeOK, Saves
<1>4. ASSUME NEW r \in Requests, BeginSave(r)
      PROVE  AskedInv'
  <2>1. /\ [method |-> "check_config", id |-> r] \in Message /\ r \in Saves
        /\ toManager' = Append(toManager, [method |-> "check_config", id |-> r])
        /\ state' = [state EXCEPT ![r] = "asking"] /\ verdict' = verdict
        /\ state[r] = "sent" /\ verdict[r] = "none"
    BY <1>4 DEF BeginSave, MayHandle, Saves, VerdictInv
  <2>2. /\ Len(toManager') = Len(toManager) + 1
        /\ toManager'[Len(toManager) + 1].id = r
        /\ \A i \in 1..Len(toManager) : toManager'[i] = toManager[i]
    BY <1>0, <2>1, SeqIndices
  <2>3. \A i \in 1..Len(toManager) : Asked(i) => toManager[i].id # r
    BY <2>1 DEF AskedInv
  <2>4. \A i \in 1..Len(toManager') : i \in 1..Len(toManager) \/ i = Len(toManager) + 1
    BY <1>0, <2>2
  <2>5. \A i \in 1..Len(toManager) : Asked(i)' <=> Asked(i)
    BY <1>0, <2>2 DEF Asked
  <2>6. \A i \in 1..Len(toManager') : Asked(i)' =>
          /\ toManager'[i].id \in Saves /\ verdict'[toManager'[i].id] = "none"
          /\ state'[toManager'[i].id] \notin {"idle", "sent"}
    BY <2>1, <2>2, <2>4, <2>5 DEF AskedInv, TypeOK, Saves
  <2>7. \A i, j \in 1..Len(toManager') :
          Asked(i)' /\ Asked(j)' /\ toManager'[i].id = toManager'[j].id => i = j
    BY <2>2, <2>3, <2>4, <2>5 DEF AskedInv
  <2>8. QED BY <2>6, <2>7 DEF AskedInv
<1>5. ASSUME NEW r \in Requests, SendRequest(r)
      PROVE  AskedInv'
  BY <1>1, <1>5 DEF SendRequest, TypeOK, socket
<1>6. ASSUME toManager # <<>>, toManager' = Tail(toManager), state' = state,
             \A x \in Saves : verdict'[x] = verdict[x] \/ (Asked(1) /\ x = toManager[1].id)
      PROVE  AskedInv'
  <2>1. /\ 1 \in 1..Len(toManager)
        /\ \A i \in 1..Len(toManager') : i \in Nat /\ i + 1 \in 1..Len(toManager) /\ toManager'[i] = toManager[i + 1]
    BY <1>0, <1>6, SeqIndices
  <2>2. \A i \in 1..Len(toManager') : Asked(i)' => Asked(i + 1)
    BY <2>1 DEF Asked
  <2>3. ASSUME NEW i \in 1..Len(toManager'), Asked(i)'
        PROVE  Asked(1) => toManager'[i].id # toManager[1].id
    <3>1. i + 1 # 1
      BY <2>1
    <3>2. QED BY <2>1, <2>2, <2>3, <3>1 DEF AskedInv
  <2>4. \A i \in 1..Len(toManager') : Asked(i)' =>
          /\ toManager'[i].id \in Saves /\ verdict'[toManager'[i].id] = "none"
          /\ state'[toManager'[i].id] \notin {"idle", "sent"}
    BY <1>6, <2>1, <2>2, <2>3 DEF AskedInv
  <2>5. \A i, j \in 1..Len(toManager') :
          Asked(i)' /\ Asked(j)' /\ toManager'[i].id = toManager'[j].id => i = j
    BY <2>1, <2>2 DEF AskedInv
  <2>6. QED BY <2>4, <2>5 DEF AskedInv
<1>7. CASE CheckConfig
  <2>1. /\ toManager # <<>> /\ toManager' = Tail(toManager) /\ state' = state
        /\ Request = toManager[1] /\ Asked(1)
        /\ \E result : verdict' = [verdict EXCEPT ![Request.id] = result]
    BY <1>0, <1>7, SeqIndices DEF CheckConfig, Request, Asked, rpcVars
  <2>2. QED BY <1>6, <2>1 DEF TypeOK
<1>8. CASE RestartModules
  BY <1>6, <1>8 DEF RestartModules, rpcVars
<1>9. CASE \/ TakeAnswer \/ UNCHANGED vars
           \/ \E s \in Sessions : CloseSession(s) \/ WriteReply(s)
           \/ \E r \in Requests : TimeOut(r)
  <2>1. UNCHANGED <<toManager, verdict>>
    BY <1>9 DEF TakeAnswer, vars, socket, CloseSession, WriteReply, TimeOut
  <2>2. \A r \in Requests : state'[r] \in {"idle", "sent"} => state[r] \in {"idle", "sent"}
    BY <1>9 DEF TakeAnswer, vars, rpcVars, CloseSession, WriteReply, TimeOut, TypeOK
  <2>3. QED BY <1>1, <2>1, <2>2
<1>10. CASE \E r \in Requests : HandleOther(r) \/ EndSave(r) \/ GiveUp(r) \/ FileFails(r)
  BY <1>2, <1>10 DEF HandleOther, EndSave, GiveUp, FileFails, socket
<1>11. QED
  BY <1>3, <1>4, <1>5, <1>7, <1>8, <1>9, <1>10 DEF Next, ServerThread

\* No step puts an answer with a call it does not belong to.
LEMMA VerdictStep == IInv /\ [Next]_vars => VerdictInv'
<1> SUFFICES ASSUME TypeOK, ServingInv, AskedInv, VerdictInv, [Next]_vars PROVE VerdictInv'
  BY DEF IInv
<1> DEFINE Message == [id : Saves, result : Results]
<1>0. /\ toController \in Seq(Message) /\ Len(toController) \in Nat
      /\ \A i \in 1..Len(toController) : toController[i] \in Message
      /\ \A r \in Saves : r \in Requests
  BY SeqOps DEF TypeOK, Saves
<1>1. ASSUME NEW r \in Requests, NEW how \in {"sent", "asking", "timed_out", "handled", "failed"},
             state[r] \in {"idle", "sent", "asking", "timed_out"},
             how = "sent" => state[r] = "idle",
             state' = [state EXCEPT ![r] = how],
             \A x \in DOMAIN calls' : calls'[x] = "pending" \/ (x \in DOMAIN calls /\ calls'[x] = calls[x]),
             UNCHANGED <<toController, verdict>>
      PROVE  VerdictInv'
  BY <1>1, <1>0 DEF VerdictInv, OwnAnswer, TypeOK
<1>2. ASSUME NEW r \in Requests, HandleOther(r)
      PROVE  VerdictInv'
  BY <1>1, <1>2 DEF HandleOther, MayHandle, Finish, socket
<1>3. ASSUME NEW r \in Requests, HandleRestart(r)
      PROVE  VerdictInv'
  BY <1>1, <1>3 DEF HandleRestart, MayHandle, Finish
<1>4. ASSUME NEW r \in Requests, BeginSave(r)
      PROVE  VerdictInv'
  <2>1. calls' = [x \in DOMAIN calls \cup {r} |-> IF x = r THEN "pending" ELSE calls[x]]
    BY <1>4 DEF BeginSave
  <2>2. \A x \in DOMAIN calls' : calls'[x] = "pending" \/ (x \in DOMAIN calls /\ calls'[x] = calls[x])
    <3>1. ASSUME NEW x \in DOMAIN calls'
          PROVE  calls'[x] = "pending" \/ (x \in DOMAIN calls /\ calls'[x] = calls[x])
      <4>1. x \in DOMAIN calls \cup {r}
        BY <2>1, <3>1
      <4>2. calls'[x] = IF x = r THEN "pending" ELSE calls[x]
        BY <2>1, <4>1
      <4>3. QED BY <4>1, <4>2
    <3>2. QED BY <3>1, Zenon
  <2>3. /\ state[r] = "sent" /\ state' = [state EXCEPT ![r] = "asking"]
        /\ UNCHANGED <<toController, verdict>>
    BY <1>4 DEF BeginSave, MayHandle
  <2>4. QED BY <1>1, <2>2, <2>3
<1>5. ASSUME NEW r \in Requests, TimeOut(r)
      PROVE  VerdictInv'
  BY <1>1, <1>5 DEF TimeOut, socket
<1>6. ASSUME NEW r \in Requests, GiveUp(r) \/ FileFails(r)
      PROVE  VerdictInv'
  BY <1>1, <1>6 DEF GiveUp, FileFails, Without, Finish, socket
<1>7. ASSUME NEW r \in Requests, SendRequest(r)
      PROVE  VerdictInv'
  BY <1>1, <1>7 DEF SendRequest, socket
<1>8. ASSUME NEW r \in Requests, EndSave(r)
      PROVE  VerdictInv'
  <2>1. /\ r \in Saves /\ verdict[r] = calls[r] /\ UNCHANGED <<toController, verdict>>
        /\ \A x \in DOMAIN calls' : x \in DOMAIN calls /\ calls'[x] = calls[x]
    BY <1>8 DEF EndSave, Without, socket, ServingInv, Waiting, VerdictInv
  <2>2. \/ verdict[r] = "invalid" /\ state' = [state EXCEPT ![r] = "refused"]
        \/ verdict[r] = "ok" /\ state' = [state EXCEPT ![r] = "saved"]
    BY <1>8, <2>1 DEF EndSave, Finish
  <2>3. QED BY <2>1, <2>2, <1>0 DEF VerdictInv, OwnAnswer, TypeOK
<1>9. CASE TakeAnswer
  <2>1. /\ \A i \in 1..Len(toController') : verdict[toController'[i].id] = toController'[i].result
        /\ verdict[Head(toController).id] = Head(toController).result
    BY <1>0, <1>9, SeqIndices DEF TakeAnswer, VerdictInv
  <2>2. \A x \in DOMAIN calls' : calls'[x] # "pending" => verdict[x] = calls'[x]
    BY <1>9, <2>1 DEF TakeAnswer, VerdictInv
  <2>3. QED BY <1>9, <2>1, <2>2 DEF TakeAnswer, web, VerdictInv, OwnAnswer
<1>10. CASE CheckConfig
  <2>1. /\ Request.id \in Saves /\ verdict[Request.id] = "none"
        /\ state[Request.id] \notin {"idle", "sent"}
    <3>1. toManager # <<>> /\ Request = toManager[1] /\ 1 \in 1..Len(toManager)
      BY <1>10, SeqIndices DEF CheckConfig, Request, TypeOK
    <3>2. QED BY <1>10, <3>1 DEF CheckConfig, AskedInv, Asked
  <2>2. PICK result \in Results :
          /\ toController' = Append(toController, [id |-> Request.id, result |-> result])
          /\ verdict' = [verdict EXCEPT ![Request.id] = result]
    BY <1>10 DEF CheckConfig, Results
  <2>3. UNCHANGED <<state, calls>>
    BY <1>10 DEF CheckConfig, rpcVars
  <2>4. \A x \in Saves : verdict[x] # "none" => verdict'[x] = verdict[x]
    BY <2>1, <2>2 DEF TypeOK
  <2>5. \A i \in 1..Len(toController') : verdict'[toController'[i].id] = toController'[i].result
    <3>1. [id |-> Request.id, result |-> result] \in Message
      BY <2>1
    <3>2. /\ Len(toController') = Len(toController) + 1
          /\ toController'[Len(toController) + 1] = [id |-> Request.id, result |-> result]
          /\ \A i \in 1..Len(toController) : toController'[i] = toController[i]
      BY <1>0, <2>2, <3>1, SeqIndices
    <3>3. ASSUME NEW i \in 1..Len(toController)
          PROVE  verdict'[toController'[i].id] = toController'[i].result
      <4>1. toController[i].id \in Saves /\ toController[i].result \in Results
        BY <1>0
      <4>2. verdict[toController[i].id] # "none"
        BY <4>1 DEF VerdictInv, Results
      <4>3. QED BY <2>4, <3>2, <4>1, <4>2 DEF VerdictInv
    <3>4. verdict'[Request.id] = result
      BY <2>1, <2>2 DEF TypeOK
    <3>5. QED BY <1>0, <3>2, <3>3, <3>4
  <2>6. \A x \in DOMAIN calls' : calls'[x] # "pending" => verdict'[x] = calls'[x]
    BY <2>3, <2>4 DEF VerdictInv, TypeOK, Results
  <2>7. \A x \in Saves : state'[x] \in {"idle", "sent"} => verdict'[x] = "none"
    BY <2>1, <2>2, <2>3 DEF VerdictInv, TypeOK
  <2>8. OwnAnswer'
    BY <2>3, <2>4 DEF VerdictInv, OwnAnswer
  <2>9. QED BY <2>5, <2>6, <2>7, <2>8 DEF VerdictInv
<1>11. CASE \/ RestartModules \/ UNCHANGED vars
            \/ \E s \in Sessions : CloseSession(s) \/ WriteReply(s)
  <2>1. UNCHANGED <<state, calls, toController, verdict>>
    BY <1>11 DEF RestartModules, vars, rpcVars, socket, CloseSession, WriteReply
  <2>2. QED BY <2>1 DEF VerdictInv, OwnAnswer
<1>12. QED
  BY <1>2, <1>3, <1>4, <1>5, <1>6, <1>7, <1>8, <1>9, <1>10, <1>11 DEF Next, ServerThread

-----------------------------------------------------------------------------
(* The files beside the real ones                                          *)

\* The states of a save whose file is beside the real one, or was left there
Begun == {"asking", "timed_out", "failed"}

\* A save takes its file away with it, unless it has timed out or failed.
LEMMA LeftBehindStep ==
  ASSUME TypeOK, ServingInv, LeftBehindOnlyByFailures, [Next]_vars
  PROVE  LeftBehindOnlyByFailures'
<1>0. /\ None \notin Requests /\ \A r \in Saves : r \in Requests /\ Name[r] \in Names
      /\ temp \in [Names -> Contents \cup {None}]
      /\ state \in [Requests -> {"idle", "sent", "asking", "timed_out", "saved", "refused", "failed", "handled"}]
  BY ControllerConstants DEF Saves, TypeOK
<1>1. ASSUME NEW r \in Saves, NEW content \in {Content[r], None}, temp' = [temp EXCEPT ![Name[r]] = content],
             \A x \in Saves \ {r} : state'[x] = state[x],
             content # None => state'[r] \in Begun,
             state[r] \in Begun \/ state'[r] \in Begun
      PROVE  LeftBehindOnlyByFailures'
  <2> SUFFICES ASSUME NEW n \in Names, temp'[n] # None
               PROVE  \E x \in Saves : Name[x] = n /\ Content[x] = temp'[n] /\ state'[x] \in Begun
    BY DEF LeftBehindOnlyByFailures, Begun
  <2>1. CASE n = Name[r]
    <3>1. temp'[n] = content
      BY <1>0, <1>1, <2>1
    <3> QED BY <1>1, <2>1, <3>1
  <2>2. CASE n # Name[r]
    <3>1. temp'[n] = temp[n]
      BY <1>0, <1>1, <2>2
    <3>2. PICK x \in Saves : Name[x] = n /\ Content[x] = temp[n] /\ state[x] \in Begun
      BY <3>1 DEF LeftBehindOnlyByFailures, Begun
    <3> QED BY <1>1, <2>2, <3>1, <3>2
  <2> QED BY <2>1, <2>2
<1>2. ASSUME UNCHANGED temp, \A x \in Saves : state[x] \in Begun => state'[x] \in Begun
      PROVE  LeftBehindOnlyByFailures'
  BY <1>2 DEF LeftBehindOnlyByFailures, Begun
<1>3. ASSUME NEW r \in Requests, BeginSave(r) PROVE LeftBehindOnlyByFailures'
  <2>1. /\ r \in Saves /\ temp' = [temp EXCEPT ![Name[r]] = Content[r]]
        /\ state' = [state EXCEPT ![r] = "asking"]
    BY <1>3 DEF BeginSave, Saves
  <2>2. state'[r] \in Begun /\ \A x \in Saves \ {r} : state'[x] = state[x]
    BY <1>0, <2>1 DEF Begun
  <2> QED BY <1>1, <2>1, <2>2
<1>4. ASSUME NEW r \in Requests, EndSave(r) PROVE LeftBehindOnlyByFailures'
  <2>1. /\ r \in Saves /\ state[r] \in Begun /\ temp' = [temp EXCEPT ![Name[r]] = None]
        /\ \E how : state' = [state EXCEPT ![r] = how]
    BY <1>4 DEF EndSave, Finish, ServingInv, Waiting, Begun
  <2>2. \A x \in Saves \ {r} : state'[x] = state[x]
    BY <1>0, <2>1
  <2> QED BY <1>1, <2>1, <2>2
<1>5. ASSUME NEW r \in Requests, NEW how, state' = [state EXCEPT ![r] = how], UNCHANGED temp,
             state[r] \in Begun => how \in Begun
      PROVE  LeftBehindOnlyByFailures'
  <2>1. \A x \in Saves : state[x] \in Begun => state'[x] \in Begun
    BY <1>0, <1>5
  <2> QED BY <1>2, <1>5, <2>1
<1>6. ASSUME NEW r \in Requests,
             HandleOther(r) \/ HandleRestart(r) \/ TimeOut(r) \/ GiveUp(r) \/ FileFails(r) \/ SendRequest(r)
      PROVE  LeftBehindOnlyByFailures'
  <2>1. /\ UNCHANGED temp
        /\ \/ state[r] \in {"idle", "sent"} /\ \E how : state' = [state EXCEPT ![r] = how]
           \/ \E how \in Begun : state' = [state EXCEPT ![r] = how]
    BY <1>6 DEF HandleOther, HandleRestart, TimeOut, GiveUp, FileFails, SendRequest, MayHandle, Finish, Begun, files
  <2> QED BY <1>5, <2>1 DEF Begun
<1>7. CASE UNCHANGED <<temp, state>>
  BY <1>2, <1>7
<1>8. QED
  BY <1>3, <1>4, <1>6, <1>7 DEF Next, ServerThread, CloseSession, WriteReply, TakeAnswer, CheckConfig, RestartModules,
     vars, rpcVars, files

-----------------------------------------------------------------------------
(* Replies                                                                 *)

HandledStates == {"handled", "saved", "refused", "failed"}

\* The states of a request that a reply can tell the browser about
Tells(value) == IF value = "result" THEN {"handled", "saved"} ELSE {"handled", "refused", "failed"}

\* What OneReplyEach says of r when its session was given the replies in given.
RepliesInv(given, r, how, connected) ==
  /\ \A j, k \in 1..Len(given) : given[j].id = r /\ given[k].id = r => j = k
  /\ \A k \in 1..Len(given) : given[k].id = r => how \in Tells(given[k].value)
  /\ how \in HandledStates /\ connected /\ ~(r \in Notifications /\ how \in {"handled", "saved"})
     => \E k \in 1..Len(given) : given[k].id = r

CallbackInv == \A s \in Sessions : outputs[s] # <<>> => s \in writable

RepliesKept == \A r \in Requests : RepliesInv(Given(SessionOf[r]), r, state[r], SessionOf[r] \in open)

\* Writing the first of the queued replies leaves what the session was given.
LEMMA PassedOn ==
  ASSUME NEW S, NEW p \in Seq(S), NEW q \in Seq(S), q # <<>>
  PROVE  /\ Append(p, Head(q)) \o Tail(q) = p \o q
         /\ Tail(q) # <<>> => Len(q) > 1
<1>1. Len(q) \in Nat \ {0} /\ Len(p) \in Nat /\ Head(q) = q[1] /\ Head(q) \in S /\ Tail(q) \in Seq(S)
      /\ Len(Tail(q)) = Len(q) - 1 /\ \A i \in 1..Len(Tail(q)) : Tail(q)[i] = q[i + 1]
  BY EmptySeq, HeadTailProperties, SeqOps
<1>2. /\ Append(p, Head(q)) \in Seq(S) /\ Len(Append(p, Head(q))) = Len(p) + 1
      /\ \A i \in 1..Len(p) : Append(p, Head(q))[i] = p[i]
      /\ Append(p, Head(q))[Len(p) + 1] = q[1]
  BY <1>1, SeqIndices, SeqOps
<1> DEFINE first == Append(p, Head(q))
           rest == Tail(q)
<1> HIDE DEF first, rest
<1>3. /\ first \o rest \in Seq(S) /\ Len(first \o rest) = Len(first) + Len(rest)
      /\ \A i \in 1..Len(first) + Len(rest) :
           (first \o rest)[i] = IF i <= Len(first) THEN first[i] ELSE rest[i - Len(first)]
  BY <1>1, <1>2, ConcatProperties DEF first, rest
<1>4. /\ p \o q \in Seq(S) /\ Len(p \o q) = Len(p) + Len(q)
      /\ \A i \in 1..Len(p) + Len(q) : (p \o q)[i] = IF i <= Len(p) THEN p[i] ELSE q[i - Len(p)]
  BY ConcatProperties
<1>5. /\ Len(first) = Len(p) + 1 /\ Len(rest) = Len(q) - 1
      /\ \A i \in 1..Len(p) : first[i] = p[i]
      /\ first[Len(p) + 1] = q[1]
      /\ \A i \in 1..Len(rest) : rest[i] = q[i + 1]
  BY <1>1, <1>2 DEF first, rest
<1>6. ASSUME NEW i \in 1..Len(first \o rest) PROVE (first \o rest)[i] = (p \o q)[i]
  <2>0. i \in 1..Len(p) + Len(q) /\ i \in 1..Len(first) + Len(rest)
    BY <1>1, <1>3, <1>5
  <2>1. CASE i <= Len(p)
    BY <1>1, <1>3, <1>4, <1>5, <2>0, <2>1
  <2>2. CASE i = Len(p) + 1
    BY <1>1, <1>3, <1>4, <1>5, <2>0, <2>2
  <2>3. CASE i > Len(p) + 1
    <3>1. i - Len(first) \in 1..Len(rest) /\ i - Len(first) + 1 = i - Len(p)
      BY <1>1, <1>5, <2>0, <2>3
    <3>2. (first \o rest)[i] = rest[i - Len(first)] /\ (p \o q)[i] = q[i - Len(p)]
      BY <1>1, <1>3, <1>4, <1>5, <2>0, <2>3
    <3> QED BY <1>5, <3>1, <3>2
  <2> QED BY <1>1, <2>0, <2>1, <2>2, <2>3
<1>7. Len(first \o rest) = Len(p \o q)
  BY <1>1, <1>3, <1>4, <1>5
<1>8. first \o rest = p \o q
  BY <1>3, <1>4, <1>6, <1>7, SeqEqual
<1>9. Tail(q) # <<>> => Len(Tail(q)) \in Nat \ {0}
  BY <1>1, EmptySeq
<1>10. Tail(q) # <<>> => Len(q) > 1
  BY <1>1, <1>9
<1> QED BY <1>8, <1>10 DEF first, rest

\* A reply added to the queue is added to what the session was given.
LEMMA AddedAtEnd ==
  ASSUME NEW S, NEW p \in Seq(S), NEW q \in Seq(S), NEW e \in S
  PROVE  p \o Append(q, e) = Append(p \o q, e)
<1>1. /\ Append(q, e) \in Seq(S) /\ Len(Append(q, e)) = Len(q) + 1 /\ Len(p) \in Nat /\ Len(q) \in Nat
      /\ \A i \in 1..Len(q) : Append(q, e)[i] = q[i]
      /\ Append(q, e)[Len(q) + 1] = e
  BY SeqIndices, SeqOps
<1>2. /\ p \o q \in Seq(S) /\ Len(p \o q) = Len(p) + Len(q)
      /\ \A i \in 1..Len(p) + Len(q) : (p \o q)[i] = IF i <= Len(p) THEN p[i] ELSE q[i - Len(p)]
  BY ConcatProperties
<1> DEFINE longer == Append(q, e)
           both == p \o q
<1> HIDE DEF longer, both
<1>3. /\ p \o longer \in Seq(S) /\ Len(p \o longer) = Len(p) + Len(longer)
      /\ \A i \in 1..Len(p) + Len(longer) :
           (p \o longer)[i] = IF i <= Len(p) THEN p[i] ELSE longer[i - Len(p)]
  BY <1>1, ConcatProperties DEF longer
<1>4. /\ Append(both, e) \in Seq(S) /\ Len(Append(both, e)) = Len(both) + 1
      /\ \A i \in 1..Len(both) : Append(both, e)[i] = both[i]
      /\ Append(both, e)[Len(both) + 1] = e
  BY <1>2, SeqIndices, SeqOps DEF both
<1>5. ASSUME NEW i \in 1..Len(p \o longer) PROVE (p \o longer)[i] = Append(both, e)[i]
  <2>1. i \in 1..Len(p) + Len(longer) /\ Len(longer) = Len(q) + 1 /\ Len(both) = Len(p) + Len(q)
    BY <1>1, <1>2, <1>3 DEF longer, both
  <2>2. CASE i <= Len(p)
    BY <1>1, <1>2, <1>3, <1>4, <2>1, <2>2 DEF both
  <2>3. CASE i > Len(p) /\ i <= Len(p) + Len(q)
    <3>1. i - Len(p) \in 1..Len(q) /\ longer[i - Len(p)] = q[i - Len(p)]
      BY <1>1, <2>1, <2>3 DEF longer
    <3> QED BY <1>1, <1>2, <1>3, <1>4, <2>1, <2>3, <3>1 DEF both
  <2>4. CASE i = Len(p) + Len(q) + 1
    <3>1. i - Len(p) = Len(q) + 1 /\ longer[i - Len(p)] = e
      BY <1>1, <2>4 DEF longer
    <3> QED BY <1>1, <1>3, <1>4, <2>1, <2>4, <3>1
  <2> QED BY <1>1, <2>1, <2>2, <2>3, <2>4
<1>6. Len(p \o longer) = Len(Append(both, e))
  BY <1>1, <1>2, <1>3, <1>4 DEF longer, both
<1>7. p \o longer = Append(both, e)
  BY <1>3, <1>4, <1>5, <1>6, SeqEqual
<1> QED BY <1>7 DEF longer, both

LEMMA StartOfConcat ==
  ASSUME NEW S, NEW p \in Seq(S), NEW q \in Seq(S)
  PROVE  /\ Len(p) \in Nat /\ Len(p) <= Len(p \o q)
         /\ \A k \in 1..Len(p) : (p \o q)[k] = p[k]
<1>1. Len(p) \in Nat /\ Len(q) \in Nat /\ Len(p \o q) = Len(p) + Len(q)
  BY ConcatProperties, SeqOps
<1>2. \A k \in 1..Len(p) : k \in 1..Len(p) + Len(q) /\ k <= Len(p)
  BY <1>1
<1>3. \A k \in 1..Len(p) : (p \o q)[k] = p[k]
  BY <1>2, ConcatProperties
<1> QED BY <1>1, <1>3

LEMMA GivenSeq ==
  ASSUME TypeOK, NEW s \in Sessions
  PROVE  /\ Given(s) \in Seq(Replies) /\ Len(Given(s)) \in Nat
         /\ DOMAIN Given(s) = 1..Len(Given(s))
         /\ \A k \in 1..Len(Given(s)) : Given(s)[k].id \in Requests
<1>1. received[s] \in Seq(Replies) /\ outputs[s] \in Seq(Replies)
  BY DEF TypeOK
<1>2. Given(s) \in Seq(Replies)
  BY <1>1, ConcatProperties DEF Given
<1>3. /\ Len(Given(s)) \in Nat /\ DOMAIN Given(s) = 1..Len(Given(s))
      /\ \A k \in 1..Len(Given(s)) : Given(s)[k] \in Replies
  BY <1>2, SeqOps
<1> QED BY <1>2, <1>3 DEF Replies

LEMMA OneReplyParts == TypeOK => (OneReplyEach <=> CallbackInv /\ RepliesKept)
<1> SUFFICES ASSUME TypeOK PROVE OneReplyEach <=> CallbackInv /\ RepliesKept
  OBVIOUS
<1>1. ASSUME NEW r \in Requests
      PROVE  DOMAIN Given(SessionOf[r]) = 1..Len(Given(SessionOf[r]))
  BY GivenSeq, ControllerConstants
<1> DEFINE Each(r) ==
      LET given == Given(SessionOf[r]) IN
        /\ \A j, k \in DOMAIN given : given[j].id = r /\ given[k].id = r => j = k
        /\ \A k \in DOMAIN given : given[k].id = r =>
             state[r] \in IF given[k].value = "result" THEN {"handled", "saved"}
                          ELSE {"handled", "refused", "failed"}
        /\ /\ state[r] \in {"handled", "saved", "refused", "failed"} /\ SessionOf[r] \in open
           /\ ~(r \in Notifications /\ state[r] \in {"handled", "saved"})
           => \E k \in DOMAIN given : given[k].id = r
<1>2. ASSUME NEW r \in Requests
      PROVE  Each(r) <=> RepliesInv(Given(SessionOf[r]), r, state[r], SessionOf[r] \in open)
  <2> DEFINE given == Given(SessionOf[r])
  <2>1. DOMAIN given = 1..Len(given)
    BY <1>1
  <2> HIDE DEF given
  <2>2. Each(r) <=> RepliesInv(given, r, state[r], SessionOf[r] \in open)
    BY <2>1 DEF RepliesInv, Tells, HandledStates, given
  <2> QED BY <2>2 DEF given
<1>3. OneReplyEach <=> CallbackInv /\ \A r \in Requests : Each(r)
  BY DEF OneReplyEach, CallbackInv
<1> HIDE DEF Each
<1> QED BY <1>2, <1>3 DEF RepliesKept

\* A reply is added to those of a request that had none.
LEMMA ReplyAdded ==
  ASSUME NEW given \in Seq(Replies), NEW e \in Replies, NEW r \in Requests, NEW old, NEW how, NEW connected,
         RepliesInv(given, r, old, connected),
         IF e.id = r THEN old \notin HandledStates /\ how \in Tells(e.value) ELSE how = old
  PROVE  RepliesInv(Append(given, e), r, how, connected)
<1> DEFINE g == Append(given, e)
<1>1. /\ Len(given) \in Nat /\ Len(g) = Len(given) + 1 /\ g[Len(given) + 1] = e
      /\ \A i \in 1..Len(given) : g[i] = given[i]
  BY SeqIndices, SeqOps
<1> HIDE DEF g
<1>2. CASE e.id = r
  <2>1. \A k \in 1..Len(given) : given[k].id # r
    BY <1>2 DEF RepliesInv, Tells, HandledStates
  <2>2. \A k \in 1..Len(g) : g[k].id = r <=> k = Len(given) + 1
    BY <1>1, <1>2, <2>1
  <2> QED BY <1>1, <1>2, <2>2 DEF RepliesInv, g
<1>3. CASE e.id # r
  <2>1. \A k \in 1..Len(g) : g[k].id = r => k \in 1..Len(given)
    BY <1>1, <1>3
  <2>2. \A k \in 1..Len(given) : k \in 1..Len(g)
    BY <1>1
  <2> QED BY <1>1, <1>3, <2>1, <2>2 DEF RepliesInv, g
<1> QED BY <1>2, <1>3

\* handle_json_rpc's one reply is the first one, and a callback is asked for.
LEMMA FinishReplies ==
  ASSUME TypeOK, TypeOK', OneReplyEach,
         NEW r \in Requests, NEW how \in HandledStates, NEW value \in {"result", "error"},
         state[r] \notin HandledStates, how \in Tells(value), Finish(r, how, value)
  PROVE  OneReplyEach'
<1> DEFINE s == SessionOf[r]
           e == [id |-> r, value |-> value]
<1>0. /\ s \in Sessions /\ e \in Replies /\ \A x \in Requests : SessionOf[x] \in Sessions
      /\ received \in [Sessions -> Seq(Replies)] /\ outputs \in [Sessions -> Seq(Replies)]
      /\ writable \subseteq Sessions
      /\ state' = [state EXCEPT ![r] = how] /\ DOMAIN state = Requests
      /\ UNCHANGED <<open, received>>
  BY ControllerConstants DEF Replies, TypeOK, Finish
<1>1. CallbackInv /\ \A x \in Requests : RepliesInv(Given(SessionOf[x]), x, state[x], SessionOf[x] \in open)
  BY OneReplyParts DEF RepliesKept
<1>2. \A x \in Requests : state'[x] = IF x = r THEN how ELSE state[x]
  BY <1>0
<1>3. CASE r \in Notifications /\ value = "result"
  <2>1. UNCHANGED <<outputs, writable>>
    BY <1>3 DEF Finish
  <2>2. CallbackInv' /\ \A x \in Sessions : Given(x)' = Given(x)
    BY <1>0, <1>1, <2>1 DEF CallbackInv, Given
  <2>3. ASSUME NEW x \in Requests
        PROVE  RepliesInv(Given(SessionOf[x])', x, state'[x], SessionOf[x] \in open')
    <3>1. CASE x = r
      <4>1. RepliesInv(Given(s), r, state[r], s \in open)
        BY <1>1
      <4>2. \A k \in 1..Len(Given(s)) : Given(s)[k].id # r
        BY <4>1 DEF RepliesInv, Tells, HandledStates
      <4>3. how \in {"handled", "saved"}
        BY <1>3 DEF Tells
      <4>4. RepliesInv(Given(s), r, how, s \in open)
        BY <1>3, <4>1, <4>2, <4>3 DEF RepliesInv
      <4> QED BY <1>0, <1>2, <2>2, <3>1, <4>4
    <3>2. CASE x # r
      BY <1>0, <1>1, <1>2, <2>2, <3>2
    <3> QED BY <3>1, <3>2
  <2>9. RepliesKept'
    BY <2>3 DEF RepliesKept
  <2> QED BY <2>2, <2>9, OneReplyParts, PTL
<1>4. CASE ~(r \in Notifications /\ value = "result")
  <2>1. /\ outputs' = [outputs EXCEPT ![s] = Append(@, e)] /\ writable' = writable \cup {s}
    BY <1>4 DEF Finish
  <2>2. CallbackInv'
    BY <1>0, <1>1, <2>1 DEF CallbackInv
  <2>3. Given(s)' = Append(Given(s), e)
    <3>1. outputs'[s] = Append(outputs[s], e) /\ received[s] \in Seq(Replies) /\ outputs[s] \in Seq(Replies)
      BY <1>0, <2>1
    <3>2. received[s] \o Append(outputs[s], e) = Append(received[s] \o outputs[s], e)
      <4> HIDE DEF e, s
      <4> QED BY <1>0, <3>1, AddedAtEnd
    <3> QED BY <1>0, <3>1, <3>2 DEF Given
  <2>4. \A x \in Sessions \ {s} : Given(x)' = Given(x)
    BY <1>0, <2>1 DEF Given
  <2>5. ASSUME NEW x \in Requests
        PROVE  RepliesInv(Given(SessionOf[x])', x, state'[x], SessionOf[x] \in open')
    <3>1. CASE SessionOf[x] = s
      <4>1. Given(s) \in Seq(Replies) /\ RepliesInv(Given(s), x, state[x], s \in open)
        BY <1>0, <1>1, <3>1, GivenSeq
      <4>2. IF e.id = x THEN state[x] \notin HandledStates /\ state'[x] \in Tells(e.value) ELSE state'[x] = state[x]
        BY <1>2
      <4>3. RepliesInv(Append(Given(s), e), x, state'[x], s \in open)
        BY <1>0, <4>1, <4>2, ReplyAdded
      <4> QED BY <1>0, <2>3, <3>1, <4>3
    <3>2. CASE SessionOf[x] # s
      BY <1>0, <1>1, <1>2, <2>4, <3>2
    <3> QED BY <3>1, <3>2
  <2>9. RepliesKept'
    BY <2>5 DEF RepliesKept
  <2> QED BY <2>2, <2>9, OneReplyParts, PTL
<1> QED BY <1>3, <1>4

LEMMA ReplyStep ==
  ASSUME TypeOK, TypeOK', ServingInv, OneReplyEach, [Next]_vars
  PROVE  OneReplyEach'
<1>0. /\ \A x \in Requests : SessionOf[x] \in Sessions
      /\ received \in [Sessions -> Seq(Replies)] /\ outputs \in [Sessions -> Seq(Replies)]
      /\ writable \subseteq Sessions /\ DOMAIN state = Requests
  BY ControllerConstants DEF TypeOK
<1>1. CallbackInv /\ \A x \in Requests : RepliesInv(Given(SessionOf[x]), x, state[x], SessionOf[x] \in open)
  BY OneReplyParts DEF RepliesKept
<1>2. ASSUME NEW r \in Requests,
             HandleOther(r) \/ HandleRestart(r) \/ EndSave(r) \/ GiveUp(r) \/ FileFails(r)
      PROVE  OneReplyEach'
  <2>1. /\ state[r] \notin HandledStates
        /\ \E how \in HandledStates, value \in {"result", "error"} :
             how \in Tells(value) /\ Finish(r, how, value)
    BY <1>2 DEF HandleOther, HandleRestart, EndSave, GiveUp, FileFails, MayHandle, HandledStates, Tells
  <2> QED BY <2>1, FinishReplies
<1>3. ASSUME UNCHANGED <<received, outputs, writable, open>>,
             \A r \in Requests : \/ state'[r] = state[r]
                                 \/ state[r] \notin HandledStates /\ state'[r] \notin HandledStates
      PROVE  OneReplyEach'
  <2>1. CallbackInv' /\ \A x \in Sessions : Given(x)' = Given(x)
    BY <1>1, <1>3 DEF CallbackInv, Given
  <2>2. ASSUME NEW x \in Requests
        PROVE  RepliesInv(Given(SessionOf[x])', x, state'[x], SessionOf[x] \in open')
    <3>1. RepliesInv(Given(SessionOf[x]), x, state[x], SessionOf[x] \in open)
      BY <1>1
    <3>2. RepliesInv(Given(SessionOf[x]), x, state'[x], SessionOf[x] \in open)
      <4>1. CASE state'[x] = state[x]
        BY <3>1, <4>1
      <4>2. CASE state[x] \notin HandledStates /\ state'[x] \notin HandledStates
        BY <3>1, <4>2 DEF RepliesInv, Tells, HandledStates
      <4> QED BY <1>3, <4>1, <4>2
    <3> QED BY <1>0, <1>3, <2>1, <3>2
  <2>9. RepliesKept'
    BY <2>2 DEF RepliesKept
  <2> QED BY <2>1, <2>9, OneReplyParts, PTL
<1>4. ASSUME NEW r \in Requests, BeginSave(r) \/ TimeOut(r) \/ SendRequest(r)
      PROVE  OneReplyEach'
  <2>1. /\ UNCHANGED <<received, outputs, writable, open>>
        /\ state[r] \notin HandledStates
        /\ \E how \in {"sent", "asking", "timed_out"} : state' = [state EXCEPT ![r] = how]
    BY <1>4 DEF BeginSave, TimeOut, SendRequest, MayHandle, web, HandledStates
  <2>2. \A x \in Requests : \/ state'[x] = state[x]
                            \/ state[x] \notin HandledStates /\ state'[x] \notin HandledStates
    BY <1>0, <2>1 DEF HandledStates
  <2> QED BY <1>3, <2>1, <2>2
<1>5. CASE TakeAnswer \/ CheckConfig \/ RestartModules \/ UNCHANGED vars
  <2>1. UNCHANGED <<received, outputs, writable, open>> /\ state' = state
    BY <1>5 DEF TakeAnswer, CheckConfig, RestartModules, vars, rpcVars, web
  <2>2. \A r \in Requests : state'[r] = state[r]
    BY <2>1
  <2> QED BY <1>3, <2>1, <2>2
<1>6. ASSUME NEW s \in Sessions, WriteReply(s) PROVE OneReplyEach'
  <2>1. /\ outputs[s] # <<>> /\ s \in writable /\ UNCHANGED <<open, state>>
        /\ received' = [received EXCEPT ![s] = Append(@, Head(outputs[s]))]
        /\ outputs' = [outputs EXCEPT ![s] = Tail(@)]
        /\ writable' = IF Len(outputs[s]) > 1 THEN writable ELSE writable \ {s}
    BY <1>6 DEF WriteReply, rpcVars
  <2>2. /\ received[s] \in Seq(Replies) /\ outputs[s] \in Seq(Replies)
        /\ received'[s] = Append(received[s], Head(outputs[s])) /\ outputs'[s] = Tail(outputs[s])
    BY <1>0, <2>1
  <2>3. CallbackInv'
    <3>1. outputs'[s] # <<>> => Len(outputs[s]) > 1
      BY <2>1, <2>2, PassedOn
    <3> QED BY <1>0, <1>1, <2>1, <2>2, <3>1 DEF CallbackInv
  <2>4. Given(s)' = Given(s)
    <3>1. Append(received[s], Head(outputs[s])) \o Tail(outputs[s]) = received[s] \o outputs[s]
      BY <2>1, <2>2, PassedOn
    <3> QED BY <2>2, <3>1 DEF Given
  <2>5. \A x \in Sessions : Given(x)' = Given(x)
    BY <1>0, <2>1, <2>4 DEF Given
  <2>6. \A x \in Requests : RepliesInv(Given(SessionOf[x])', x, state'[x], SessionOf[x] \in open')
    BY <1>0, <1>1, <2>1, <2>5
  <2>9. RepliesKept'
    BY <2>6 DEF RepliesKept
  <2> QED BY <2>3, <2>9, OneReplyParts, PTL
<1>7. ASSUME NEW s \in Sessions, CloseSession(s) PROVE OneReplyEach'
  <2>1. /\ open' = open \ {s} /\ outputs' = [outputs EXCEPT ![s] = <<>>] /\ writable' = writable \ {s}
        /\ UNCHANGED <<received, state>>
    BY <1>7 DEF CloseSession, rpcVars
  <2>2. CallbackInv'
    BY <1>0, <1>1, <2>1 DEF CallbackInv
  <2>3. /\ Given(s)' \in Seq(Replies) /\ Len(Given(s)') \in Nat /\ Len(Given(s)') <= Len(Given(s))
        /\ \A k \in 1..Len(Given(s)') : Given(s)'[k] = Given(s)[k]
    <3>1. received[s] \in Seq(Replies) /\ outputs[s] \in Seq(Replies) /\ outputs'[s] = <<>>
      BY <1>0, <2>1
    <3>2. Given(s)' = received[s]
      BY <2>1, <3>1, ConcatEmptySeq DEF Given
    <3>3. /\ Len(received[s]) \in Nat /\ Len(received[s]) <= Len(Given(s))
          /\ \A k \in 1..Len(received[s]) : Given(s)[k] = received[s][k]
      BY <3>1, StartOfConcat DEF Given
    <3> QED BY <3>1, <3>2, <3>3
  <2>4. \A x \in Sessions \ {s} : Given(x)' = Given(x)
    BY <1>0, <2>1 DEF Given
  <2>5. ASSUME NEW x \in Requests
        PROVE  RepliesInv(Given(SessionOf[x])', x, state'[x], SessionOf[x] \in open')
    <3>0. RepliesInv(Given(SessionOf[x]), x, state[x], SessionOf[x] \in open)
      BY <1>1
    <3>1. CASE SessionOf[x] = s
      <4>1. s \notin open' /\ state'[x] = state[x]
        BY <2>1
      <4>2. \A k \in 1..Len(Given(s)') : k \in 1..Len(Given(s))
        <5>1. Len(Given(s)) \in Nat
          BY GivenSeq
        <5> QED BY <2>3, <5>1
      <4>3. RepliesInv(Given(s)', x, state[x], s \in open')
        BY <2>3, <3>0, <3>1, <4>1, <4>2 DEF RepliesInv
      <4> QED BY <3>1, <4>1, <4>3
    <3>2. CASE SessionOf[x] # s
      BY <1>0, <2>1, <2>4, <3>0, <3>2
    <3> QED BY <3>1, <3>2
  <2>9. RepliesKept'
    BY <2>5 DEF RepliesKept
  <2> QED BY <2>2, <2>9, OneReplyParts, PTL
<1> QED BY <1>2, <1>4, <1>5, <1>6, <1>7 DEF Next, ServerThread

-----------------------------------------------------------------------------
(* Theorems                                                                *)

\* The invariant the properties follow from: none of its parts is kept by the
\* steps without the others.
LEMMA Invariant == Spec => []IInv
<1>1. Init => IInv
  <2> SUFFICES ASSUME Init PROVE IInv
    OBVIOUS
  <2>1. /\ Active \in Names /\ Initial \in Contents /\ None \notin Requests
        /\ Saves \subseteq Requests
    BY ControllerConstants DEF Contents, Saves
  <2>2. <<>> \in Seq(Replies) /\ Len(toManager) = 0 /\ Len(toController) = 0
    BY EmptySeq DEF Init
  <2>3. /\ toManager \in Seq([method : {"check_config", "restart_modules"}, id : Requests])
        /\ toController \in Seq([id : Saves, result : Results])
    BY EmptySeq DEF Init
  <2>4. DOMAIN calls = {}
    BY DEF Init
  <2>5. saved \in [Names -> Contents \cup {None}]
    BY <2>1 DEF Init
  <2>6. TypeOK
    BY <2>2, <2>3, <2>4, <2>5 DEF Init, TypeOK
  <2>7. ServingInv
    BY <2>1 DEF Init, ServingInv, Waiting
  <2>8. AskedInv /\ VerdictInv
    BY <2>1, <2>2, <2>4 DEF Init, AskedInv, VerdictInv, OwnAnswer
  <2>9. QED BY <2>6, <2>7, <2>8 DEF IInv
<1>2. IInv /\ [Next]_vars => IInv'
  BY TypedStep, AskedStep, VerdictStep DEF IInv
<1>3. QED BY <1>1, <1>2, PTL DEF Spec

\* The controller keeps at most one pending call, that of the request it is
\* serving, however answers and timeouts race.
THEOREM TypeCorrect == Spec => []TypeOK
<1>1. IInv => TypeOK
  BY DEF IInv
<1>2. QED BY <1>1, Invariant, PTL

\* A save is answered as the manager has answered that very save: the answer
\* to a request that has timed out is never taken for a later one's.
THEOREM AnswersMatch == Spec => []OwnAnswer
<1>1. IInv => OwnAnswer
  BY DEF IInv, VerdictInv
<1>2. QED BY <1>1, Invariant, PTL

\* A file beside the real one is that of a save that is being served, or that
\* has timed out or could not move it: fs::rename or fs::remove ends every other.
THEOREM FilesLeftBehind == Spec => []LeftBehindOnlyByFailures
<1>1. Init => LeftBehindOnlyByFailures
  BY DEF Init, LeftBehindOnlyByFailures
<1>2. IInv /\ LeftBehindOnlyByFailures /\ [Next]_vars => LeftBehindOnlyByFailures'
  BY LeftBehindStep DEF IInv
<1>3. QED BY <1>1, <1>2, Invariant, PTL DEF Spec

\* A request that was handled has its one reply, true to what became of it: what
\* lws has not written yet, a callback that is due will write.
THEOREM RepliesAreKept == Spec => []OneReplyEach
<1>1. Init /\ TypeOK => OneReplyEach
  <2> SUFFICES ASSUME Init, TypeOK PROVE OneReplyEach
    OBVIOUS
  <2>1. CallbackInv /\ \A r \in Requests : state[r] = "idle"
    BY DEF Init, CallbackInv
  <2>2. \A s \in Sessions : Given(s) = <<>>
    BY ConcatEmptySeq, EmptySeq DEF Init, Given
  <2>3. \A r \in Requests : Len(Given(SessionOf[r])) = 0
    BY <2>2, EmptySeq, ControllerConstants
  <2>4. RepliesKept
    BY <2>1, <2>3 DEF RepliesKept, RepliesInv, HandledStates
  <2> QED BY <2>1, <2>4, OneReplyParts
<1>2. IInv /\ IInv' /\ OneReplyEach /\ [Next]_vars => OneReplyEach'
  BY ReplyStep DEF IInv
<1>3. IInv => TypeOK
  BY DEF IInv
<1>4. QED BY <1>1, <1>2, <1>3, Invariant, PTL DEF Spec

\* A config file only ever changes to the content of the save that is being
\* served, and only when the manager has accepted that save.
THEOREM StoredAfterOk == Spec => StoredOnlyAfterOk
<1> DEFINE Stored ==
      \A n \in Names : saved'[n] # saved[n] =>
        \E r \in Saves : /\ serving = r /\ Name[r] = n /\ saved'[n] = Content[r]
                         /\ verdict[r] = "ok"
<1>1. IInv /\ [Next]_vars => [Stored]_vars
  <2> SUFFICES ASSUME IInv, Next, saved' # saved PROVE Stored
    OBVIOUS
  <2>1. PICK r \in Requests : EndSave(r) /\ calls[r] = "ok"
    BY DEF Next, ServerThread, HandleOther, HandleRestart, BeginSave, EndSave, TimeOut, GiveUp, FileFails,
       SendRequest, CloseSession, WriteReply, TakeAnswer, CheckConfig, RestartModules, files
  <2>2. r \in Saves /\ serving = r /\ temp[Name[r]] = Content[r] /\ verdict[r] = "ok"
    BY <2>1 DEF EndSave, IInv, ServingInv, Waiting, VerdictInv
  <2>3. saved' = [saved EXCEPT ![Name[r]] = Content[r]]
    BY <2>1, <2>2 DEF EndSave
  <2>4. QED BY <2>2, <2>3 DEF IInv, TypeOK
<1>2. QED BY <1>1, Invariant, PTL DEF Spec, StoredOnlyAfterOk

=============================================================================
