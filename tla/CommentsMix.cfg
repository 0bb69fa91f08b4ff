\* Two requests about a thread of two users and withdrawals of either.
SPECIFICATION Spec
CONSTANTS
  Users = {u1, u2}
  Questions = {q1, q2}
  Active = {q1}
  Contents = {x1, x2}
  Requests = {a, b, w}
  StoredIds = {c1, c2, p1, p2}
  MayFail = {b}
  Sends <- SendsHere
  Histories <- HistoriesHere
  None = None
  u1 = u1 u2 = u2 q1 = q1 q2 = q2 x1 = x1 x2 = x2 a = a b = b w = w
  c1 = c1 c2 = c2 p1 = p1 p2 = p2
INVARIANTS TypeOK NoOrphans OnlyWithdrawalsFail LikesAsAsked
PROPERTIES OnlyOwnersChange EveryRequestAnswered
