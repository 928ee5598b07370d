SPECIFICATION LiveDeployment
CONSTANTS
  Emails = {boss}
  Boss = boss
  Clubs = {k1}
  Requests = {}
  None = None
  Names <- MCNames
  Widths = {32}
  NoValue = NoValue
  MaxCrashes = 1
PROPERTIES
  NewDatabaseIsServed
CHECK_DEADLOCK FALSE
