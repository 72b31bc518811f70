\* One process, all interleavings of its threads with the broker.
CONSTANTS
  t1 = t1
  t2 = t2
  m1 = m1
  m2 = m2
  r1 = r1
  x1 = x1
  hVar = hVar
  hExt = hExt
  topicVar = topicVar
  topicExt = topicExt
  wild = wild
  Remote = Remote
  None = None
  Threads = {t1, t2}
  Messages <- MCMessages
  Topics <- MCTopics
  Filters <- MCFilters
  Handlers = {hVar, hExt}
  EverestTopics = {topicVar}
  Covers <- MCCovers
  TopicOf <- MCTopicOf
  AuthorOf <- MCAuthorOf
  Parses <- MCParses
  FilterOf <- MCFilterOf
  MaxPackets = 2
  MaxRefused = 2
SPECIFICATION Spec
INVARIANTS
  EveryMessageHasAnEntry
  NoDeafHandler
  PublishedExactlyOnce
  OneStrandedPerThread
  HandedInOrder
\* the process stops when it exits or has nothing left to do
CHECK_DEADLOCK FALSE
