\* The same account merges the same guest twice at once.
SPECIFICATION Spec
CONSTANTS
  u1 = u1
  u2 = u2
  g1 = g1
  q1 = q1
  q2 = q2
  A = A
  B = B
  s1 = s1
  s2 = s2
  s3 = s3
  v1 = v1
  v2 = v2
  m1 = m1
  m2 = m2
  w1 = w1
  old1 = old1
  old2 = old2
  old3 = old3
  None = None
  Users = {u1}
  Guests = {g1}
  Questions = {q1}
  Active = {q1}
  Options = {A}
  Reasons = {s1}
  OptionsOf <- OptionsHere
  ReasonsOf <- ReasonsHere
  Requests = {m1, m2}
  Kind <- KindMerges
  MayFail = {}
  StoredIds = {old1}
  Histories <- HistoriesGuest
PROPERTIES ChoiceKept
