SPECIFICATION Spec
CONSTANTS
  BookingPrices = {15}
  OrderPrices = {9}
  TopUpAmounts = {60}
  Offsets = {2}
  Deposits = {0}
  Targets = {u1, u2}
  None = None
  BookingWindow = 3
  OrderWindow = 2
  TopUpWindow = 1
  Lag = 1
  MaxTime = 2
  MaxRows = 3
  RapidOrderLimit = 3
  MaxSignals = 3
SYMMETRY Symmetry
INVARIANTS
  BurstsAreReported
  SplitsAreReported
  TotalsWereToppedUp
CHECK_DEADLOCK FALSE
