SPECIFICATION DeploymentSpec
CONSTANTS
  Emails = {e1, boss}
  Boss = boss
  Clubs = {k1, k2}
  Requests = {r1, r2, r3}
  None = None
  Names <- MCNames
  Widths = {32, 49}
  NoValue = NoValue
  MaxCrashes = 2
SYMMETRY Symmetry
INVARIANTS
  PendingOwnerHasNoActiveClub
  AdminWasApproved
  PendingOwnerHasApplied
  VersionTellsSchema
  ColumnsAreFilled
  ServedSchemaIsWhole
  BossModerates
CHECK_DEADLOCK FALSE
