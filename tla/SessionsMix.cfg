\* A password reset with its code races a withdrawal; a refresh, a logout, a withdrawal and a login race.
SPECIFICATION Spec
CONSTANTS
  e1 = e1
  e2 = e2
  pOld = pOld
  pNew = pNew
  pWeak = pWeak
  c1 = c1
  c2 = c2
  d1 = d1
  d2 = d2
  l1 = l1
  f1 = f1
  o1 = o1
  s1 = s1
  k1 = k1
  p1 = p1
  w1 = w1
  None = None
  Social = Social
  Emails = {e1, e2}
  Passwords = {pOld, pNew}
  Weak = {}
  Codes = {c1, c2}
  Accounts <- TwoAccounts
  OldSessions <- TwoDevices
  OldJtis = {d1, d2}
  Requests = {s1, k1, p1, w1, f1, o1, l1}
  Mixes <- TwoMixes
  Kind <- KindHere
  MayFail = {p1}
INVARIANTS TypeOK OldSessionsRevoked
PROPERTIES NothingComesBack PasswordChangeProved EveryRequestAnswered
