\* The smaller tables: codes, their cache, lists and documents.
SPECIFICATION FairSpec
CONSTANTS
  None = None
  a = a
  b = b
  old = old
  plan = plan
  board = board
  f1 = f1
  f2 = f2
  d0 = d0
  Requests = {r1, r2, r3}
  Mixes <- MCMixes
  Codes = {1, 2, 3, 4}
  Values = {a, b, old}
  Last = 5
  CodeTables <- MCTables
  Life = 1
  Patience = 1
  LastMoment = 3
  LastEdition = 3
  Files = {f1, f2}
  OldRows <- MCOldRows
  OldDocuments = {d0}
INVARIANTS TypeOK WaitsUpward StaleBound ListedOnce AnsweredWhole
PROPERTIES PutWhole RequestsEnd
CHECK_DEADLOCK FALSE
