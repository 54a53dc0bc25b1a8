SPECIFICATION PeopledSpec
CONSTANTS
  a = a
  b = b
  d = d
  e = e
  f = f
  g = g
  L1 = L1
  Fencer = {a, b, d, e}
  Category = {0, 1}
  Listing = {L1}
  ListingOf <- OneListing
  Place <- FourPlaces
  Size <- FivePlaces
  NoUrl = NoUrl
  NoOrder = NoOrder
  NoCategory = NoCategory
  EditsMidCommit = FALSE
  MaxEdits = 1
  MaxCrashes = 0
PROPERTY QueueDrains
CHECK_DEADLOCK FALSE
