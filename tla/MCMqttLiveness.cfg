\* Liveness: a message the broker has sent reaches the handler queue.
CONSTANTS
  t1 = t1
  t2 = t2
  m1 = m1
  m2 = m2
  r1 = r1
  x1 = x1
  hVar = hVar
  hExt = hExt
  topicVar = topicVar
  topicExt = topicExt
  wild = wild
  Remote = Remote
  None = None
  Threads = {t1, t2}
  Messages <- MCFewMessages
  Topics <- MCTopics
  Filters <- MCFilters
  Handlers = {hVar, hExt}
  EverestTopics = {topicVar}
  Covers <- MCCovers
  TopicOf <- MCTopicOf
  AuthorOf <- MCAuthorOf
  Parses <- MCParses
  FilterOf <- MCFilterOf
  MaxPackets = 2
  MaxRefused = 1
SPECIFICATION FairSpec
PROPERTIES
  ForwardedIsHanded
\* the process stops when it exits or has nothing left to do
CHECK_DEADLOCK FALSE
