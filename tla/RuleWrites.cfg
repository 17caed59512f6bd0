CONSTANTS
  a1 = a1
  a2 = a2
  r1 = r1
  r2 = r2
  p = p
  q = q
  m = m
  n = n
  Free = Free
  Nobody = Nobody
  Accounts = {a1, a2}
  Requests = {r1, r2}
  Seqs = {1, 2, 3}
  Rules = {p, q}
  Remarks = {m, n}
  Asks <- MCAsks
  Outset <- MCOutset
  Heard = {TRUE, FALSE}
SPECIFICATION FairSpec
INVARIANTS
  TypeOK
  OneSetPerSession
  SuccessIsExact
  UnverifiedSuccessIsExact
  UndoInverts
  FailureRestores
  RestoredIsBack
PROPERTIES
  RemarkAfterPermit
  EveryRequestAnswered
