SPECIFICATION FairSpec
CONSTANTS
  t1 = t1
  t2 = t2
  u1 = u1
  u2 = u2
  p1 = p1
  p2 = p2
  p3 = p3
  c1 = c1
  c2 = c2
  None = None
  Tenders <- MCTenders
  Users <- MCUsers
  Managers = {u2}
  Packages <- MCPackages
  Slot <- MCSlot
  Codes = {c1, c2}
  Requests = {r1, r2, r3}
  Calls <- RecycleCalls
  Legacy <- RecycleLegacy
CHECK_DEADLOCK FALSE
INVARIANTS OneOpenBatch StatusFollowsCodes
PROPERTIES OnlyForward KeepsPromise RequestsEnd
