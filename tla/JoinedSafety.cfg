SPECIFICATION Spec
CONSTANTS
  a = a
  b = b
  d = d
  e = e
  f = f
  g = g
  L1 = L1
  Fencer = {a, b, d}
  Category = {0, 1, 2}
  Listing = {L1}
  ListingOf <- OneListing
  Place <- TiedPlaces
  Size <- FourRows
  NoUrl = NoUrl
  NoOrder = NoOrder
  NoCategory = NoCategory
  EditsMidCommit = TRUE
  MaxEdits = 3
  MaxCrashes = 1
INVARIANTS TypeOK OwnDigits UnstoredAgree StaleIsQueued
CHECK_DEADLOCK FALSE
