SPECIFICATION Spec
CONSTANTS
  a = a
  b = b
  d = d
  Fencer = {a, b, d}
  Event = {1, 2}
  Category = {V1, V2}
  NoCategory = NoCategory
  Deleted = Deleted
  International = {}
  Entrants <- MCEntrants
  Unknown = {d}
  Faults = {"crash", "midCommitCrash", "midCommitEdit", "longEdit"}
  MaxEdits = 2
  MaxCrashes = 1
  MaxMerges = 1
INVARIANTS TypeOK StaleIsQueued FinishedIsFresh
CHECK_DEADLOCK FALSE
