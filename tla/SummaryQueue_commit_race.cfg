SPECIFICATION FairSpec
CONSTANTS
  Videos = {v1}
  Reqs = {r1}
  Clients = {}
  QueueMax = 1
  SubMax = 2
  MaxJobs = 1
  MaxFaults = 0
  MaxStops = 0
PROPERTIES
  QueuedIsConsumed
CHECK_DEADLOCK FALSE
