-------------------------- MODULE CmdCallDeadlock --------------------------
(* When a call returns, and why it can wait until its timeout: the         *)
(* waits-for relation that the handler threads of CmdCall establish.       *)
EXTENDS CmdCall

ASSUME FiniteCalls == IsFiniteSet(Calls)

\* m waits for the thread on which the provider runs the handlers of its topic.
Queued(m) ==
  LET q == queue[Provider(m.id)][TopicOf[m.id]] IN \E i \in 1..Len(q) : q[i] = m

\* c cannot proceed before d has finished: d is a call its handler has made,
\* or d occupies the thread that has to execute c or, when a module calls a
\* command of its own, to take the result of c.
WaitsFor(c, d) ==
  \/ ParentOf[d] = c /\ Waiting(d)
  \/ /\ execution[d] = "running" /\ TopicOf[c] = TopicOf[d]
     /\ Queued(Call(c)) \/ (CallerOf[c] = Provider(c) /\ Queued(Result(c)))

\* What c waits for, directly or through others: the least set that has what
\* c waits for and what its members wait for.
Awaited(c) ==
  {d \in Calls : \A D \in SUBSET Calls :
     (\A x \in {c} \cup D, y \in Calls : WaitsFor(x, y) => y \in D) => d \in D}

\* c waits, through handlers and busy threads, for itself.
Deadlocked(c) == c \in Awaited(c)

\* the calls that wait for another, or for themselves
Hindered == {c \in Calls : \E d \in Calls : WaitsFor(c, d)}

\* Every call of D waits for another of D, or for itself.
Circle(D) == D # {} /\ \A x \in D : \E y \in D : WaitsFor(x, y)

\* No message moves, no handler can return and no promise is set.
Quiet ==
  /\ \A p \in Processes : out[p] = <<>>
  /\ \A c \in Calls : execution[c] = "running" => Blocked(c)
  /\ \A p \in Processes, t \in Topics :
       \/ queue[p][t] = <<>> /\ busy[p][t] = None
       \/ \E c \in Calls : busy[p][t] = Call(c) /\ execution[c] = "running"
  /\ \A c \in Calls : frame[c] # "ready"

\* Nobody will ever answer c: it reached the broker before its provider had
\* registered, or the provider has dropped the call or the result.
Dropped(c) ==
  /\ execution[c] \in {"none", "ignored", "refused"}
  /\ ~Queued(Call(c))

\* With all processes alive, a call that nothing but its timeout can end waits,
\* through handlers and busy topic threads, for a dropped call or for one that
\* waits for itself: these are the only deadlocks.
BlockedOnlyByCycleOrDrop ==
  Quiet /\ crashed = {} =>
    \A c \in Calls : Waiting(c) =>
      \E d \in {c} \cup Awaited(c) : Dropped(d) \/ Deadlocked(d)

\* Once every provider has registered, which is what the global ready signal
\* stands for, a call made without timeouts and schema violations returns, also
\* when its handler makes calls of its own, as long as no calls wait for each
\* other in a circle.  A nested call that is never answered holds up its parent.
CallsReturn ==
  /\ \A d \in InvalidArgs \cup InvalidResult : ParentOf[d] = None
  /\ [](provided # Topics => \A c \in Calls : frame[c] \in {"idle", "rejected"})
    => \A c \in Calls :
         frame[c] = "waiting" /\ c \notin InvalidArgs \cup InvalidResult
           ~> \/ frame[c] = "returned" \/ crashed # {}
              \/ \E D \in SUBSET Hindered : Circle(D)

=============================================================================
