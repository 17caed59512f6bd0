CONSTANTS
  j1 = j1
  j2 = j2
  j3 = j3
  o1 = o1
  o2 = o2
  n1 = n1
  n2 = n2
  p1 = p1
  p2 = p2
  Jobs = {j1, j2, j3}
  Owners = {o1, o2}
  Users = {n1, n2}
  Passes = {p1, p2}
  NameOf <- MCNames
  Asks <- MCAsks
  Outset <- MCOutset
  MaxReads = 3
  Nobody = Nobody
  NoRow = NoRow
  NoSession = NoSession
SPECIFICATION Spec
INVARIANTS
  NoStraySession
  SweepHandsBack
  SentOnce
  UpdateClosesOld
  LocksAreGivenUp
