\* Logins, passwords, sessions and restarts.
SPECIFICATION Spec
CONSTANTS
  None = None
  u1 = u1
  u2 = u2
  m = m
  v = v
  e1 = e1
  e2 = e2
  p1 = p1
  p2 = p2
  p3 = p3
  staff = staff
  Manager = Manager
  s1 = s1
  s2 = s2
  s3 = s3
  Requests = {r1, r2, r3}
  OldSessions = {s1, s2, s3}
  Ids = {u1, u2, m, v}
  Emails = {e1, e2}
  Passwords = {p1, p2, p3}
  Roles = {staff, Manager}
  Calls <- MCCalls
  Starts <- MCStarts
  TokenLife = 2
  LastMoment = 1
SYMMETRY Symmetry
INVARIANTS TypeOK
PROPERTIES PasswordInForce ClosedStaysClosed OnlyEntitled
CHECK_DEADLOCK FALSE
