SPECIFICATION FairSpec
CONSTANTS
  Calls = {c1, c2}
  MaxIds = 3
  InCap = 1
  OutCap = 1
  MaxNotes = 1
  MaxStops = 1
INVARIANTS
  OwnAnswer
  NoLeak
  WaiterIsReachable
PROPERTIES
  CallsEnd
  ImplementsRemoteCall
CHECK_DEADLOCK FALSE
