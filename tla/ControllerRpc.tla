--------------------------- MODULE ControllerRpc ---------------------------
(***************************************************************************)
(* The admin panel's backend: the controller process between the browsers  *)
(* and the manager (src/controller, and the manager's end of the socket).  *)
(*                                                                         *)
(* The controller has two threads.  The server thread runs lws_service: it *)
(* handles one request at a time, and blocks on a promise while it asks    *)
(* the manager.  The main thread runs RPC::run, which sets the promises.   *)
(* Both share ipc_calls under ipc_mutex; every critical section is one     *)
(* action.  The socket to the manager is a datagram socket pair: reliable  *)
(* and ordered.                                                            *)
(***************************************************************************)
EXTENDS Naturals, FiniteSets, Sequences

CONSTANTS
  Requests,      \* JSON-RPC requests of the browsers, each sent once
  Sessions,      \* websocket connections
  SessionOf,     \* the session of a request
  Method,        \* "save_config" with a name, "restart_modules", or "other"
  Notifications, \* requests without an id
  Name,          \* save_config: the name of the config
  Content,       \* save_config: its content
  Names,         \* config files in configs_dir
  Active,        \* the one the manager was started with
  Initial,       \* its content then
  Valid,         \* contents that Config accepts
  None

Saves == {r \in Requests : Method[r] = "save_config"}
Contents == {Initial} \cup {Content[r] : r \in Saves}

ASSUME ControllerConstants ==
  /\ SessionOf \in [Requests -> Sessions]
  /\ Method \in [Requests -> {"save_config", "restart_modules", "other"}]
  /\ \A r \in Saves : Name[r] \in Names
  /\ Active \in Names /\ Initial \in Valid
  /\ None \notin Requests \cup Contents

VARIABLES
  open,       \* sessions that are connected
  state,      \* what has become of a request
  serving,    \* the request the server thread is handling
  calls,      \* ipc_calls: the pending calls, with the result or "pending"
  toManager,  \* the socket, in both directions
  toController,
  temp,       \* configs_dir/_<name>.yaml
  saved,      \* configs_dir/<name>.yaml
  outputs,    \* output_queue of each session
  writable,   \* sessions for which lws_callback_on_writable is pending
  received,   \* replies the browsers have got, in order
  manager,    \* "up", or "exited" when a restart throws
  verdict     \* history: how the manager has answered a check

rpcVars == <<state, serving, calls>>
files   == <<temp, saved>>
socket  == <<toManager, toController>>
web     == <<open, outputs, writable, received>>
vars == <<rpcVars, files, socket, web, manager, verdict>>

Results == {"ok", "invalid"}
Replies == [id : Requests, value : {"result", "error"}]

\* The types; and ipc_calls holds at most the call the server thread is serving,
\* so that an answer finds only the promise it was meant for.
TypeOK ==
  /\ open \subseteq Sessions
  /\ state \in [Requests -> {"idle", "sent", "asking", "timed_out", "saved", "refused",
                             "failed", "handled"}]
  /\ serving \in Requests \cup {None}
  /\ DOMAIN calls \subseteq Saves \cap {serving}
  /\ \A r \in DOMAIN calls : calls[r] \in Results \cup {"pending"}
  /\ toManager \in Seq([method : {"check_config", "restart_modules"}, id : Requests])
  /\ toController \in Seq([id : Saves, result : Results])
  /\ temp \in [Names -> Contents \cup {None}] /\ saved \in [Names -> Contents \cup {None}]
  /\ outputs \in [Sessions -> Seq(Replies)] /\ received \in [Sessions -> Seq(Replies)]
  /\ writable \subseteq Sessions
  /\ manager \in {"up", "exited"}
  /\ verdict \in [Saves -> Results \cup {"none"}]

Init ==
  /\ open = Sessions
  /\ state = [r \in Requests |-> "idle"] /\ serving = None
  /\ calls = [r \in {} |-> "pending"]
  /\ toManager = <<>> /\ toController = <<>>
  /\ temp = [n \in Names |-> None]
  /\ saved = [n \in Names |-> IF n = Active THEN Initial ELSE None]
  /\ outputs = [s \in Sessions |-> <<>>] /\ received = [s \in Sessions |-> <<>>]
  /\ writable = {}
  /\ manager = "up"
  /\ verdict = [r \in Saves |-> "none"]

-----------------------------------------------------------------------------
(* The browsers                                                            *)

SendRequest(r) ==
  /\ state[r] = "idle" /\ SessionOf[r] \in open
  /\ state' = [state EXCEPT ![r] = "sent"]
  /\ UNCHANGED <<serving, calls, files, socket, web, manager, verdict>>

\* LWS_CALLBACK_CLOSED, between two requests: destroy_session.
CloseSession(s) ==
  /\ s \in open /\ serving = None
  /\ open' = open \ {s}
  /\ outputs' = [outputs EXCEPT ![s] = <<>>]
  /\ writable' = writable \ {s}
  /\ UNCHANGED <<received, rpcVars, files, socket, manager, verdict>>

-----------------------------------------------------------------------------
(* The server thread                                                       *)

\* handle_json_rpc returns: a reply, but not to a notification that succeeds.
Finish(r, how, value) ==
  LET s == SessionOf[r]
      silent == r \in Notifications /\ value = "result" IN
  /\ state' = [state EXCEPT ![r] = how]
  /\ serving' = None
  /\ outputs' = IF silent THEN outputs
                ELSE [outputs EXCEPT ![s] = Append(@, [id |-> r, value |-> value])]
  /\ writable' = IF silent THEN writable ELSE writable \cup {s}
  /\ UNCHANGED <<open, received>>

\* LWS_CALLBACK_RECEIVE: the server thread is free and turns to r.
MayHandle(r) == serving = None /\ state[r] = "sent" /\ SessionOf[r] \in open

\* The commands that only read, a save without a name, and commands that are
\* not known
HandleOther(r) ==
  /\ MayHandle(r) /\ Method[r] = "other"
  /\ \E value \in {"result", "error"} : Finish(r, "handled", value)
  /\ UNCHANGED <<calls, files, socket, manager, verdict>>

\* restart_modules only notifies the manager.
HandleRestart(r) ==
  /\ MayHandle(r) /\ Method[r] = "restart_modules"
  /\ toManager' = Append(toManager, [method |-> "restart_modules", id |-> r])
  /\ Finish(r, "handled", "result")
  /\ UNCHANGED <<calls, files, toController, manager, verdict>>

\* save_config: write the file beside the real one, ask the manager to check
\* it, and wait.  Ids of ipc_calls do not repeat.
BeginSave(r) ==
  /\ MayHandle(r) /\ Method[r] = "save_config"
  /\ state' = [state EXCEPT ![r] = "asking"] /\ serving' = r
  /\ temp' = [temp EXCEPT ![Name[r]] = Content[r]]
  /\ calls' = [x \in DOMAIN calls \cup {r} |-> IF x = r THEN "pending" ELSE calls[x]]
  /\ toManager' = Append(toManager, [method |-> "check_config", id |-> r])
  /\ UNCHANGED <<toController, saved, web, manager, verdict>>

\* ipc_calls.erase
Without(r) == [x \in DOMAIN calls \ {r} |-> calls[x]]

\* Mutant of EndSave: the file is moved whatever the manager says.
EndSaveUnchecked(r) ==
  /\ state[r] = "asking" /\ calls[r] # "pending"
  /\ calls' = Without(r)
  /\ temp' = [temp EXCEPT ![Name[r]] = None]
  /\ saved' = [saved EXCEPT ![Name[r]] = Content[r]]
  /\ Finish(r, "saved", "result")
  /\ UNCHANGED <<socket, manager, verdict>>

\* Mutant of EndSave: a refused file is not removed.
EndSaveKeepsFile(r) ==
  /\ state[r] = "asking" /\ calls[r] # "pending"
  /\ calls' = Without(r)
  /\ \/ /\ calls[r] = "invalid"
        /\ Finish(r, "refused", "error")
        /\ UNCHANGED <<temp, saved>>
     \/ /\ calls[r] = "ok"
        /\ temp' = [temp EXCEPT ![Name[r]] = None]
        /\ saved' = [saved EXCEPT ![Name[r]] = temp[Name[r]]]
        /\ Finish(r, "saved", "result")
  /\ UNCHANGED <<socket, manager, verdict>>

\* wait_for reports ready: a refused file is removed, an accepted one renamed.
EndSave(r) ==
  /\ state[r] = "asking" /\ calls[r] # "pending"
  /\ calls' = Without(r)
  /\ \/ /\ calls[r] = "invalid"
        /\ temp' = [temp EXCEPT ![Name[r]] = None]
        /\ Finish(r, "refused", "error")
        /\ UNCHANGED saved
     \/ /\ calls[r] = "ok"
        /\ temp' = [temp EXCEPT ![Name[r]] = None]
        /\ saved' = [saved EXCEPT ![Name[r]] = temp[Name[r]]]
        /\ Finish(r, "saved", "result")
  /\ UNCHANGED <<socket, manager, verdict>>

\* fs::remove or fs::rename throws: the file stays where it is.
FileFails(r) ==
  /\ state[r] = "asking" /\ calls[r] # "pending"
  /\ calls' = Without(r)
  /\ Finish(r, "failed", "error")
  /\ UNCHANGED <<files, socket, manager, verdict>>

\* wait_for reports timeout; the lock is taken afterwards.
TimeOut(r) ==
  /\ state[r] = "asking" /\ calls[r] = "pending"
  /\ state' = [state EXCEPT ![r] = "timed_out"]
  /\ UNCHANGED <<serving, calls, files, socket, web, manager, verdict>>

\* The call is erased, answered by now or not, and "Promise timeout" thrown.
GiveUp(r) ==
  /\ state[r] = "timed_out" /\ serving = r
  /\ calls' = Without(r)
  /\ Finish(r, "failed", "error")
  /\ UNCHANGED <<files, socket, manager, verdict>>

\* Mutant of WriteReply: does not ask for the next callback.
WriteOne(s) ==
  /\ s \in writable /\ serving = None /\ outputs[s] # <<>>
  /\ received' = [received EXCEPT ![s] = Append(@, Head(outputs[s]))]
  /\ outputs' = [outputs EXCEPT ![s] = Tail(@)]
  /\ writable' = writable \ {s}
  /\ UNCHANGED <<open, rpcVars, files, socket, manager, verdict>>

\* LWS_CALLBACK_SERVER_WRITEABLE: one message, and a new callback for the rest.
WriteReply(s) ==
  /\ s \in writable /\ serving = None /\ outputs[s] # <<>>
  /\ received' = [received EXCEPT ![s] = Append(@, Head(outputs[s]))]
  /\ outputs' = [outputs EXCEPT ![s] = Tail(@)]
  /\ writable' = IF Len(outputs[s]) > 1 THEN writable ELSE writable \ {s}
  /\ UNCHANGED <<open, rpcVars, files, socket, manager, verdict>>

-----------------------------------------------------------------------------
(* The main thread: RPC::run                                               *)

\* Mutant of TakeAnswer: the answer goes to whatever call is pending.
TakeAnyAnswer ==
  /\ toController # <<>> /\ toController' = Tail(toController)
  /\ calls' = [r \in DOMAIN calls |-> Head(toController).result]
  /\ UNCHANGED <<state, serving, files, toManager, web, manager, verdict>>

\* The promise of the call is set; an answer to a call that is gone is ignored.
TakeAnswer ==
  /\ toController # <<>> /\ toController' = Tail(toController)
  /\ LET m == Head(toController) IN
       calls' = IF m.id \in DOMAIN calls THEN [calls EXCEPT ![m.id] = m.result] ELSE calls
  /\ UNCHANGED <<state, serving, files, toManager, web, manager, verdict>>

-----------------------------------------------------------------------------
(* The manager's main loop                                                 *)

Request == Head(toManager)

\* check_config: Config(rs, true) reads the config the manager was started
\* with; the path in the request is not used.
CheckConfig ==
  /\ manager = "up" /\ toManager # <<>> /\ Request.method = "check_config"
  /\ toManager' = Tail(toManager)
  /\ LET result == IF saved[Active] \in Valid THEN "ok" ELSE "invalid" IN
       /\ toController' = Append(toController, [id |-> Request.id, result |-> result])
       /\ verdict' = [verdict EXCEPT ![Request.id] = result]
  /\ UNCHANGED <<rpcVars, files, web, manager>>

\* restart_modules: loading the config throws out of the main loop if invalid.
RestartModules ==
  /\ manager = "up" /\ toManager # <<>> /\ Request.method = "restart_modules"
  /\ toManager' = Tail(toManager)
  /\ manager' = IF saved[Active] \in Valid THEN "up" ELSE "exited"
  /\ UNCHANGED <<rpcVars, files, toController, web, verdict>>

-----------------------------------------------------------------------------
ServerThread ==
  \E r \in Requests :
    \/ HandleOther(r) \/ HandleRestart(r)
    \/ BeginSave(r) \/ EndSave(r) \/ FileFails(r) \/ TimeOut(r) \/ GiveUp(r)

\* The controller dies with the manager: PR_SET_PDEATHSIG.
Next ==
  /\ manager = "up"
  /\ \/ ServerThread
     \/ \E r \in Requests : SendRequest(r)
     \/ \E s \in Sessions : CloseSession(s) \/ WriteReply(s)
     \/ TakeAnswer \/ CheckConfig \/ RestartModules

Spec == Init /\ [][Next]_vars

\* lws_service handles what it has received, one request of the finitely many
\* after the other; its waits end, by an answer or by the timeout; sockets
\* become writable.  Nothing is asked of the main threads.
Fairness ==
  /\ \A r \in Requests :
       WF_vars(HandleOther(r) \/ HandleRestart(r) \/ BeginSave(r)
               \/ EndSave(r) \/ FileFails(r) \/ TimeOut(r) \/ GiveUp(r))
  /\ \A s \in Sessions : WF_vars(WriteReply(s))

FairSpec == Spec /\ Fairness

-----------------------------------------------------------------------------
(* Properties                                                              *)

\* A save is reported stored or refused only as the manager has answered this
\* very request: a late answer to a request that had timed out is never taken
\* for the answer to a later one.
OwnAnswer ==
  \A r \in Saves :
    /\ state[r] = "saved" => verdict[r] = "ok"
    /\ state[r] = "refused" => verdict[r] = "invalid"

\* A file beside the real one is that of the save being served, or was left
\* behind by a save that timed out or could not move it; the reply to that save
\* is an error.  It is never the file of another request.
LeftBehindOnlyByFailures ==
  \A n \in Names : temp[n] # None =>
    \E r \in Saves : /\ Name[r] = n /\ Content[r] = temp[n]
                     /\ state[r] \in {"asking", "timed_out", "failed"}

\* A config file changes only to the content of the save the server thread is
\* serving, and only after the manager has accepted that save.
StoredOnlyAfterOk ==
  [][\A n \in Names : saved'[n] # saved[n] =>
       \E r \in Saves : /\ serving = r /\ Name[r] = n /\ saved'[n] = Content[r]
                        /\ verdict[r] = "ok"]_vars

\* The replies a session was given, written to its browser or still queued
Given(s) == received[s] \o outputs[s]

\* A request that is handled has its one reply, and a save the reply that says
\* what became of it; what is queued has a callback due that will write it.
\* Only a session that closes loses replies; a notification succeeds silently.
OneReplyEach ==
  /\ \A s \in Sessions : outputs[s] # <<>> => s \in writable
  /\ \A r \in Requests :
       LET given == Given(SessionOf[r]) IN
         /\ \A j, k \in DOMAIN given : given[j].id = r /\ given[k].id = r => j = k
         /\ \A k \in DOMAIN given : given[k].id = r =>
              state[r] \in IF given[k].value = "result" THEN {"handled", "saved"}
                           ELSE {"handled", "refused", "failed"}
         /\ /\ state[r] \in {"handled", "saved", "refused", "failed"} /\ SessionOf[r] \in open
            /\ ~(r \in Notifications /\ state[r] \in {"handled", "saved"})
            => \E k \in DOMAIN given : given[k].id = r

Answered(r) ==
  LET s == SessionOf[r] IN
    \/ \E k \in DOMAIN received[s] : received[s][k].id = r
    \/ r \in Notifications /\ state[r] \in {"handled", "saved"}

\* Every request gets its reply, however the manager's answer and the timeout
\* race, unless the session is closed or the manager ends.
RequestsAnswered ==
  \A r \in Requests :
    state[r] = "sent" ~> Answered(r) \/ SessionOf[r] \notin open \/ manager = "exited"

\* What save_config and check_config say they do: the file that becomes the
\* config has been checked.  The manager checks its own config instead.
SavedConfigsAreValid ==
  \A n \in Names : saved[n] \in Valid \cup {None}
=============================================================================
