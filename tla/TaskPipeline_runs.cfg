SPECIFICATION PipelineSpec
CONSTANTS
  Links = {t1, t2}
  Procs = {p1, p2}
  Urls = {{"douyin"}, {"weixin"}, {"bilibili"}, {"youtube", "bilibili"}}
  Slugs = {s1, s2}
  Channels = {c1}
  MaxSpawned = 2
  MaxDeaths = 1
INVARIANTS PipelineTypeOK RouteAgrees GarbledNeedsOverlap AnnouncedIsArchived TornPairIsUnannounced
CHECK_DEADLOCK FALSE
