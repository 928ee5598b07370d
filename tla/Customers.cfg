SPECIFICATION Spec
CONSTANTS
  ann = ann
  bob = bob
  boss = boss
  root = root
  club = club
  pc1 = pc1
  std = std
  gift = gift
  vip = vip
  cola = cola
  water = water
  r1 = r1
  r2 = r2
  r3 = r3
  r4 = r4
  Null = Null
  Cleaner = Cleaner
  Users <- MCUsers
  SuperAdmins <- MCSuperAdmins
  Clubs <- MCClubs
  Owner <- MCOwner
  BookingMode <- MCPrepaid
  BookingDeposit <- MCDeposit
  Pcs <- MCPcs
  ClubOf <- MCClubOf
  Packages <- MCPackages
  Price <- MCPrice
  Minutes <- MCMinutes
  Fits <- MCFits
  Products <- MCProducts
  ProductPrice <- MCProductPrice
  ProductClub <- MCProductClub
  MinKaspi = 2
  MaxKaspi = 3
  OpeningBalance <- MCOpening
  Requests <- ThreeRequests
  Calls <- CustomerCalls
  LossySockets = TRUE
  MaxTime = 2
INVARIANTS
  TypeOK
  SeatIsWhole
  ChargedAndRefundedOnce
  CirclesNeedForeignKeys
  IncomeWasCharged
PROPERTIES
  SoldWhileFree
  OthersCreditsAreExact
CHECK_DEADLOCK FALSE
