SPECIFICATION FairSpec
CONSTANTS
  a = a
  b = b
  d = d
  Fencer = {a, b, d}
  Event = {1, 2}
  Category = {V1, V2}
  NoCategory = NoCategory
  Deleted = Deleted
  International = {}
  Entrants <- MCEntrants
  Unknown = {}
  Faults = {"midCommitEdit"}
  MaxEdits = 2
  MaxCrashes = 0
  MaxMerges = 0
PROPERTY QueueDrains
CHECK_DEADLOCK FALSE
