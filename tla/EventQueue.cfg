\* Two engines, one of them with a video source, and a channel.  The
\* application may stop calling the API and the SDK may stop raising events.
CONSTANTS
  e1 = e1
  e2 = e2
  c1 = c1
  p1 = p1
  p2 = p2
  Engines = {e1, e2}
  Channels = {c1}
  Monitored = {e1}
  Producers = {p1, p2}
  MaxEvents = 2
SPECIFICATION FairSpec
CHECK_DEADLOCK FALSE
INVARIANTS TypeOK NoLostWakeup NoDanglingTask
PROPERTIES Drained
