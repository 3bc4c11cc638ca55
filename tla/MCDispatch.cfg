CONSTANTS
  p1 = p1
  p2 = p2
  Files = 3
  Contents <- MCContents
  Ids = {0, 1}
  Plugins = {p1, p2}
  Handled <- MCHandled
  MaxList = 2
  MaxRows = 2
SPECIFICATION FairSpec
CHECK_DEADLOCK FALSE
INVARIANTS NullOnlyBetweenWrites DispatchIsExact AccountOnlyForNewName
PROPERTY PacketEnds
