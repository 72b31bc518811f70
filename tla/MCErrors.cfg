\* Errors of two modules, all modes of clearing, and a restart of the modules.
CONSTANTS
  M = M
  N = N
  i = i
  j = j
  t = t
  e1 = e1
  e2 = e2
  r1 = r1
  r2 = r2
  r3 = r3
  None = None
  Uuids = {e1, e2}
  Requests = {r1, r2, r3}
  ModuleOf <- MCModuleOf
  TypeOf <- MCTypeOf
  From <- MCFrom
  Request <- MCRequest
  Earlier <- MCEarlier
  MaxStarts = 2
SPECIFICATION FairSpec
INVARIANTS
  RequestsInOnePlace
  NothingElseLost
  ClearedStaysCleared
  ClearedOnlyOnRequest
  SuccessMeansCleared
  TerminatesOnlyAfterRestart
PROPERTIES
  RequestsAnswered
\* all errors may be raised and all requests answered
CHECK_DEADLOCK FALSE
