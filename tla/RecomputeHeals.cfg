SPECIFICATION FairSpec
CONSTANTS
  a = a
  b = b
  d = d
  Fencer = {a, b, d}
  Event = {1, 2}
  Category = {V1, V2}
  NoCategory = NoCategory
  Deleted = Deleted
  International = {2}
  Entrants <- MCEntrants
  Unknown = {}
  Faults = {"crash"}
  MaxEdits = 2
  MaxCrashes = 2
  MaxMerges = 0
PROPERTIES HealsAtomically QueueDrains
CHECK_DEADLOCK FALSE
