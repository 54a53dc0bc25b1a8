SPECIFICATION BalancedSpec
CONSTANTS
  a = a
  b = b
  d = d
  e = e
  f = f
  g = g
  L1 = L1
  Fencer = {a, b, d, e, f, g}
  Category = {0, 1}
  Listing = {L1}
  ListingOf <- OneListing
  Place <- SixPlaces
  Size <- SevenPlaces
  NoUrl = NoUrl
  NoOrder = NoOrder
  NoCategory = NoCategory
  EditsMidCommit = FALSE
  MaxEdits = 2
  MaxCrashes = 0
INVARIANT SiblingsAgree
PROPERTY QueueDrains
CHECK_DEADLOCK FALSE
