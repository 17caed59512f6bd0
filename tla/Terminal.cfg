CONSTANTS
  s1 = s1
  s2 = s2
  s3 = s3
  s4 = s4
  u1 = u1
  u2 = u2
  Users = {u1, u2}
  Switches = {s1, s2, s3, s4}
  Owns <- MCOwns
  Pairs <- MCPairs
  MaxTerminals = 2
  MaxWorkspaces = 2
SPECIFICATION FairSpec
INVARIANTS
  IndexAgrees
  DistinctTerminals
  ConnectionsAreRegistered
  EndedIsDisconnected
  SlotsAreServed
PROPERTIES
  AttachesOnce
  ConnectingEnds
  ClosedEnds
  ImplementsSlots
CHECK_DEADLOCK FALSE
