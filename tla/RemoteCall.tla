----------------------------- MODULE RemoteCall -----------------------------
(***************************************************************************)
(* What call_cmd and provide_cmd promise together: a command is executed   *)
(* at most once per call and only after it has been called, and a call     *)
(* that returns does so with the result of its own execution.  A call may  *)
(* fail at any time before, which says nothing of the execution.           *)
(***************************************************************************)
CONSTANT Calls

VARIABLES
  client,  \* what the caller knows of the call
  server   \* what has become of it at the provider

vars == <<client, server>>

Init ==
  /\ client = [c \in Calls |-> "idle"]
  /\ server = [c \in Calls |-> "none"]

Call(c) ==
  /\ client[c] = "idle"
  /\ client' = [client EXCEPT ![c] = "waiting"]
  /\ UNCHANGED server

Execute(c) ==
  /\ client[c] # "idle" /\ server[c] = "none"
  /\ server' = [server EXCEPT ![c] = "running"]
  /\ UNCHANGED client

\* The provider has computed a result it can send.
Finish(c) ==
  /\ server[c] = "running"
  /\ server' = [server EXCEPT ![c] = "done"]
  /\ UNCHANGED client

Return(c) ==
  /\ client[c] = "waiting" /\ server[c] = "done"
  /\ client' = [client EXCEPT ![c] = "returned"]
  /\ UNCHANGED server

\* Rejected before it is sent, or timed out.
Fail(c) ==
  /\ client[c] \in {"idle", "waiting"}
  /\ client' = [client EXCEPT ![c] = "failed"]
  /\ UNCHANGED server

Next == \E c \in Calls : Call(c) \/ Execute(c) \/ Finish(c) \/ Return(c) \/ Fail(c)

Spec == Init /\ [][Next]_vars
=============================================================================
