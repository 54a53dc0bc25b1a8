SPECIFICATION FairSpec
CONSTANTS
  x = x
  y = y
  K = K
  NoYear = NoYear
  Person = {x, y}
  Name <- MCName
  TrueYear <- MCTrueYear
  Result = {r1}
  r1 = r1
  MaxId = 3
  MaxWrites = 2
  StartCert <- MCStartCert
  StartProd <- MCStartProd
  Careless = FALSE
INVARIANT TypeOK
PROPERTIES PersonsKeepRows CopiedEntriesTheirs AutoCatchesUp
CHECK_DEADLOCK FALSE
