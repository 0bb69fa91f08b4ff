\* Two merges of one guest into the same or different accounts, a vote and a withdrawal.
SPECIFICATION Spec
CONSTANTS
  u1 = u1
  u2 = u2
  g1 = g1
  q1 = q1
  q2 = q2
  A = A
  B = B
  s1 = s1
  s2 = s2
  s3 = s3
  v1 = v1
  v2 = v2
  m1 = m1
  m2 = m2
  w1 = w1
  old1 = old1
  old2 = old2
  old3 = old3
  None = None
  Users = {u1, u2}
  Guests = {g1}
  Questions = {q1, q2}
  Active = {q1}
  Options = {A}
  Reasons = {s1, s3}
  OptionsOf <- OptionsHere
  ReasonsOf <- ReasonsHere
  Requests = {v1, m1, m2, w1}
  Kind <- KindMerges
  MayFail = {w1}
  StoredIds = {old1, old2, old3}
  Histories <- HistoriesMerges
PROPERTIES EveryRequestAnswered
