SPECIFICATION FairSpec
CONSTANTS
  Ups = {u1}
  Job = job
  Reqs = {r1}
  Count = 2
  MaxVideos = 2
  MaxFaults = 1
  MaxStops = 1
INVARIANTS
  CursorIsStored
  NothingSkipped
  CopiesBounded
PROPERTIES
  CursorMovesForward
  SyncEnds
