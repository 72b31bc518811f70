\* What check_config checks.
CONSTANTS
  s1 = s1
  s2 = s2
  r1 = r1
  r2 = r2
  r3 = r3
  r4 = r4
  active = active
  other = other
  c0 = c0
  good = good
  bad = bad
  None = None
  Requests = {r1, r2, r3, r4}
  Sessions = {s1, s2}
  Notifications = {r4}
  Names = {active, other}
  Active = active
  Initial = c0
  Valid = {c0, good}
  SessionOf <- MCSessionOf
  Method <- MCMethod
  Name <- MCName
  Content <- MCContent
SPECIFICATION Spec
INVARIANTS
  SavedConfigsAreValid
CHECK_DEADLOCK FALSE
