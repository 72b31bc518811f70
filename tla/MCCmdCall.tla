----------------------------- MODULE MCCmdCall -----------------------------
(* Two modules that call each other's commands.  c1 is made by a thread of *)
(* A and its handler in B makes c2, a call back into another topic of A;   *)
(* the handler of c2 may make c3, a call of the topic whose thread is busy *)
(* with c1.  c4 is another call of A, of B's topic or, in the run of the   *)
(* waits, of its own; c5 is one of B.                                      *)
EXTENDS CmdCallDeadlock

CONSTANTS A, B, topicA, topicB, c1, c2, c3, c4, c5

MCProviderOf == [t \in Topics |-> IF t = topicA THEN A ELSE B]
MCCallerOf   == [c \in Calls |-> IF c \in {c2, c5} THEN B ELSE A]
MCTopicOf    == [c \in Calls |-> IF c \in {c2, c5} THEN topicA ELSE topicB]
MCOwnTopicOf == [c \in Calls |-> IF c \in {c2, c4, c5} THEN topicA ELSE topicB]
MCParentOf   == [c \in Calls |-> CASE c = c2 -> c1 [] c = c3 -> c2 [] OTHER -> None]
=============================================================================
