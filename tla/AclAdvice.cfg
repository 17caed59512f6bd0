CONSTANTS
  AddrBits = 2
  MaxPort = 2
  MaxNumber = 40
  Groups <- MCGroups
  Schedules <- MCSchedules
  Pool <- MCPool
  Requests <- MCRequests
  Placements <- MCPlacements
  Bindings <- MCBindings
  PacketEnds <- MCPacketEnds
  Queries <- MCQueries
  Now = 2
  Numbers = {10, 30, 40}
  MaxEdits = 1
SPECIFICATION Spec
INVARIANTS
  RedundancyIsInvisible
  SummaryAddsOnlyExtra
  ReversalMirrors
  LookupMeansTraffic
  PreviewGrants
  FlaggedNeverFires
CHECK_DEADLOCK FALSE
