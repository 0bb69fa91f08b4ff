\* A login that is in flight during a reset or a withdrawal.
SPECIFICATION Spec
CONSTANTS
  e1 = e1
  e2 = e2
  pOld = pOld
  pNew = pNew
  pWeak = pWeak
  c1 = c1
  c2 = c2
  d1 = d1
  d2 = d2
  l1 = l1
  f1 = f1
  o1 = o1
  s1 = s1
  k1 = k1
  p1 = p1
  w1 = w1
  None = None
  Social = Social
  Emails = {e1}
  Passwords = {pOld, pNew}
  Weak = {}
  Codes = {c1}
  Accounts <- OneAccount
  OldSessions <- OneDevice
  OldJtis = {d1}
  Requests = {s1, k1, p1, w1, l1}
  Mixes <- LateLogins
  Kind <- KindHere
  MayFail = {}
INVARIANTS EveryDeviceLoggedOut
