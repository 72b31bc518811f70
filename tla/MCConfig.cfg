\* The check of all configs of MCConfig; managers with one module or three.
CONSTANTS
  KeyOrder <- MCKeyOrder
  ManifestFiles <- MCManifestFiles
  InterfaceFiles <- MCInterfaceFiles
  ErrorFiles <- MCErrorFiles
  PREFIX <- MCPREFIX
  Real <- MCReal
  Dirs <- MCDirs
  Starts <- MCStarts
  Contents <- MCContents
  Programs <- MCPrograms
  MaxSaves = 1
  MaxRestarts = 1
  NotYet = NotYet
SPECIFICATION StartSpec
INVARIANTS
  AcceptsWellFormed
  CallsFindTheirCommands
  ValuesTyped
  SameSettings
  UnchangedConfigBoots
  ValidatesWithTypes
\* the manager ends or its modules have booted
CHECK_DEADLOCK FALSE
