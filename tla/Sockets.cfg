SPECIFICATION FairSpec
CONSTANTS
  Pcs = {pc}
  Users = {user}
  Conns = {c1, c2, c3}
  Senders = {s1}
  None = None
  MaxToken = 1
INVARIANTS
  NoGhost
  LoneIsReachable
PROPERTIES
  DeadIsForgotten
CHECK_DEADLOCK FALSE
