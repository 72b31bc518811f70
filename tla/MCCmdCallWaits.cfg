\* What calls wait for when no timeout ends them, and that the others return.
CONSTANTS
  A = A
  B = B
  topicA = topicA
  topicB = topicB
  c1 = c1
  c2 = c2
  c3 = c3
  c4 = c4
  c5 = c5
  None = None
  Processes = {A, B}
  Topics = {topicA, topicB}
  Calls = {c1, c2, c3, c4, c5}
  ProviderOf <- MCProviderOf
  CallerOf <- MCCallerOf
  TopicOf <- MCOwnTopicOf
  ParentOf <- MCParentOf
  Validates = {A, B}
  InvalidArgs = {}
  InvalidResult = {c1}
  TimeoutsHappen = FALSE
SPECIFICATION FairSpec
INVARIANTS
  BlockedOnlyByCycleOrDrop
PROPERTIES
  CallsReturn
\* every call is made at most once
CHECK_DEADLOCK FALSE
