SPECIFICATION FormsSpec
CONSTANTS
  Clubs = {k1, k2}
  Requests = {r1, r2, r3}
  Counts = {0, 2, 3, 4}
  Numbers = {0, 2, 4}
  MaxCount = 3
  Urls = {u1, u2, local}
  BadUrls = {local}
  Secrets = {s1}
  Users = {c1}
  Ratings = {0, 4, 5}
  Comments = {good}
  Amounts <- MCAmounts
  Cells <- MCCells
  Durations <- MCDurations
  MaxMinutes = 3
  MaxInteger = 9
  None = None
SYMMETRY Symmetry
INVARIANTS
  TypeOK
  BatchesAreConsecutive
  AllOrNothing
  SavedSettingsStay
  ChecksCoverConstraints
  CreatedOnce
PROPERTIES
  ExactUnlessRaced
CHECK_DEADLOCK FALSE
