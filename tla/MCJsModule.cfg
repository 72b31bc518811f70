\* The handlers of one JavaScript module, its calls and its waits.
CONSTANTS
  c = c
  v = v
  e1 = e1
  e2 = e2
  r = r
  a = a
  Setup = Setup
  Ready = Ready
  Now = Now
  None = None
  Descriptions <- MCDescriptions
  ErrorOrder <- MCErrorOrder
  MaxMessages = 3
  MaxCalls = 1
  MaxWaits = 1
SPECIFICATION FairSpec
INVARIANTS
  OwnHandler
  CallBacksOnlyTimeOut
  WaitersAreServed
PROPERTIES
  HandlersReturn
\* the process may end, jam, or have nothing left to do
CHECK_DEADLOCK FALSE
