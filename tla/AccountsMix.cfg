\* A sign-up races a first social login; two renamings, a social login and a withdrawal race.
SPECIFICATION Spec
CONSTANTS
  e1 = e1
  e2 = e2
  n1 = n1
  n2 = n2
  n3 = n3
  n4 = n4
  c1 = c1
  c2 = c2
  i1 = i1
  i2 = i2
  u1 = u1
  u2 = u2
  s1 = s1
  k1 = k1
  g1 = g1
  b1 = b1
  p1 = p1
  p2 = p2
  w1 = w1
  None = None
  MaxTry = 4
  Candidate <- Suffixed
  Kind <- KindHere
  Emails = {e1}
  Nicks = {n1, n2, n3, n4}
  Typed = {n1, n2}
  Codes = {c1, c2}
  Identities = {i1}
  OldIds = {u1, u2}
  Proved = {}
  Requests = {s1, k1, g1, b1, p1, p2, w1}
  MayFail = {g1}
  OldUsers <- NobodyOrNeighbours
  Mixes <- TwoMixes
INVARIANTS TypeOK KeysUnique AnswersHold
PROPERTIES AddressProved EveryRequestAnswered
