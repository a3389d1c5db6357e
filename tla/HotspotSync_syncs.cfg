SPECIFICATION FairSpec
CONSTANTS
  NumSources = 2
  Manual = {1}
  Urls = {u1}
  Clients = {c1}
  SseMax = 1
  MaxItems = 2
  MaxIds = 2
  MaxFaults = 1
INVARIANTS
  OneCopyPerSync
  EventsKept
PROPERTIES
  SyncsEnd
