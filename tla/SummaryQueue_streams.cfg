SPECIFICATION FairSpec
CONSTANTS
  Videos = {v1, v2}
  Reqs = {r1}
  Clients = {c1}
  QueueMax = 2
  SubMax = 2
  MaxJobs = 2
  MaxFaults = 1
  MaxStops = 1
INVARIANTS
  AbandonedAreCounted
  TerminalNotMissed
  StreamShape
  StatusDoesNotMaskFailure
PROPERTIES
  ImplementsLifecycle
  JobsMoveOn
  StreamEnds
