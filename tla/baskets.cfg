\* Baskets created, deleted and filled; nothing is renamed.
SPECIFICATION FairSpec
CONSTANTS
  None = None
  Blank = Blank
  Inbox = Inbox
  u1 = u1
  u2 = u2
  p1 = p1
  p2 = p2
  a = a
  n1 = n1
  n2 = n2
  k1 = k1
  k2 = k2
  k3 = k3
  k4 = k4
  code = code
  b1 = b1
  b2 = b2
  b3 = b3
  b4 = b4
  b5 = b5
  i1 = i1
  i2 = i2
  i3 = i3
  Users <- MCUsers
  Plans <- MCPlans
  Types <- MCTypes
  Names <- MCNames
  Keys <- MCKeys
  Code <- MCCode
  Price <- MCPrice
  Hidden = {}
  OldBaskets = {b1, b2, b3, b4, b5}
  OldItems = {i1, i2, i3}
  Requests = {r1, r2, r3}
  Stores <- BasketStores
  Calls <- BasketCalls
INVARIANTS TypeOK OneTempPerUser DistinctInPlan
PROPERTIES RequestsEnd
CHECK_DEADLOCK FALSE
