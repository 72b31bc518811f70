\* The same system: is ready announced to modules before all are ready?
CONSTANTS
  s = s
  a = a
  Order <- MCMixed
  Standalone = {s}
  MaxRestarts = 0
  MaxDeaths = 0
  MaxLives = 1
SPECIFICATION Spec
INVARIANTS
  GlobalReadyMeansAllReady
\* the manager may exit, and modules that run have nothing left to do
CHECK_DEADLOCK FALSE
