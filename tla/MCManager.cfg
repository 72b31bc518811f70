\* A standalone module and one the manager starts: deaths, a restart, races.
CONSTANTS
  s = s
  a = a
  Order <- MCMixed
  Standalone = {s}
  MaxRestarts = 1
  MaxDeaths = 1
  MaxLives = 2
SPECIFICATION FairSpec
INVARIANTS
  ReadyHandlerRuns
PROPERTIES
  TerminatesOnlyAfterShutdown
  AnnouncedWhenAllReady
  OneProcessPerModule
  SignalsAreKept
  EveryModuleRuns
  RestartCompletes
\* the manager may exit, and modules that run have nothing left to do
CHECK_DEADLOCK FALSE
