\* Timeouts, schema violations on one side, and a call back into a busy topic.
CONSTANTS
  A = A
  B = B
  topicA = topicA
  topicB = topicB
  c1 = c1
  c2 = c2
  c3 = c3
  c4 = c4
  c5 = c5
  None = None
  Processes = {A, B}
  Topics = {topicA, topicB}
  Calls = {c1, c2, c3, c4, c5}
  ProviderOf <- MCProviderOf
  CallerOf <- MCCallerOf
  TopicOf <- MCTopicOf
  ParentOf <- MCParentOf
  Validates = {B}
  InvalidArgs = {c4, c5}
  InvalidResult = {c3}
  TimeoutsHappen = TRUE
SPECIFICATION Spec
INVARIANTS
  NoResultAfterReturn
  OnlyTimeoutsLeak
PROPERTIES
  ImplementsRemoteCall
\* every call is made at most once
CHECK_DEADLOCK FALSE
