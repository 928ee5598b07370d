SPECIFICATION Spec
CONSTANTS
  ann = ann
  bob = bob
  boss = boss
  root = root
  club = club
  pc1 = pc1
  std = std
  gift = gift
  vip = vip
  cola = cola
  water = water
  r1 = r1
  r2 = r2
  r3 = r3
  r4 = r4
  Null = Null
  Cleaner = Cleaner
  Users <- MCUsers
  SuperAdmins <- MCSuperAdmins
  Clubs <- MCClubs
  Owner <- MCOwner
  BookingMode <- MCPrepaid
  BookingDeposit <- MCDeposit
  Pcs <- MCPcs
  ClubOf <- MCClubOf
  Packages <- MCPackages
  Price <- MCPrice
  Minutes <- MCMinutes
  Fits <- MCFits
  Products <- MCProducts
  ProductPrice <- MCProductPrice
  ProductClub <- MCProductClub
  MinKaspi = 2
  MaxKaspi = 3
  OpeningBalance <- MCOpening
  Requests <- FourRequests
  Calls <- ManagerCalls
  LossySockets = FALSE
  MaxTime = 1
INVARIANTS
  LockedSections
  OnePendingPerSeat
  ChargedAndRefundedOnce
  SeatWasGranted
PROPERTIES
  BookingsFollowLifecycle
CHECK_DEADLOCK FALSE
