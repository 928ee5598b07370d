SPECIFICATION LoginsSpec
CONSTANTS
  login = login
  Keys = {login}
  Limit <- MCLimit
  Seconds <- MCSeconds
  TicksPerSecond = 2
  MaxTime = 5
  Accounts = {a1}
  Requests = {r1, r2}
  Lifetime = 1
  LoginKey = login
  None = None
SYMMETRY Symmetry
INVARIANTS
  WithinLimit
  RetryAfterIsEnough
  RevokedIsRefused
  ValidIsAccepted
PROPERTIES
  RefusedForAReason
CHECK_DEADLOCK FALSE
