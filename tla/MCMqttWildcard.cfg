\* An external wildcard handler that also covers the EVerest prefix.
CONSTANTS
  t1 = t1
  t2 = t2
  m1 = m1
  m2 = m2
  r1 = r1
  x1 = x1
  hVar = hVar
  hExt = hExt
  topicVar = topicVar
  topicExt = topicExt
  wild = wild
  Remote = Remote
  None = None
  Threads = {t1, t2}
  Messages <- MCMessages
  Topics <- MCTopics
  Filters <- MCFilters
  Handlers = {hVar, hExt}
  EverestTopics = {topicVar}
  Covers <- MCCoversAll
  TopicOf <- MCTopicOf
  AuthorOf <- MCAuthorOf
  Parses <- MCParses
  FilterOf <- MCFilterOf
  MaxPackets = 2
  MaxRefused = 1
SPECIFICATION Spec
INVARIANT
  EveryMessageHasAnEntry
\* the process stops when it exits or has nothing left to do
CHECK_DEADLOCK FALSE
