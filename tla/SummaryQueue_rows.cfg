SPECIFICATION Spec
CONSTANTS
  Videos = {v1}
  Reqs = {r1, r2}
  Clients = {}
  QueueMax = 1
  SubMax = 2
  MaxJobs = 4
  MaxFaults = 1
  MaxStops = 0
PROPERTIES
  SecondJobIsUnseen
CHECK_DEADLOCK FALSE
