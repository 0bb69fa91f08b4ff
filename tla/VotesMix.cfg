\* Two votes, one merge and one withdrawal race, on each earlier table.
SPECIFICATION OverlapSpec
CONSTANTS
  u1 = u1
  u2 = u2
  g1 = g1
  q1 = q1
  q2 = q2
  A = A
  B = B
  s1 = s1
  s2 = s2
  s3 = s3
  v1 = v1
  v2 = v2
  m1 = m1
  m2 = m2
  w1 = w1
  old1 = old1
  old2 = old2
  old3 = old3
  None = None
  Users = {u1}
  Guests = {g1}
  Questions = {q1, q2}
  Active = {q1}
  Options = {A, B}
  Reasons = {s1, s2}
  OptionsOf <- OptionsHere
  ReasonsOf <- ReasonsHere
  Requests = {v1, v2, m1, w1}
  Kind <- KindMix
  MayFail = {m1}
  StoredIds = {old1, old2}
  Histories <- HistoriesMix
INVARIANTS TypeOK OneVotePerParticipant OwnersExist
PROPERTIES ChoiceKept MergeAsReported BallotStoredAsSent ActsAsLedger
SYMMETRY VotesAlike
