\* A channel is released while its engine is in use.
CONSTANTS
  e1 = e1
  e2 = e2
  c1 = c1
  p1 = p1
  p2 = p2
  Engines = {e1}
  Channels = {c1}
  Monitored = {}
  Producers = {p1}
  MaxEvents = 2
SPECIFICATION Spec
CHECK_DEADLOCK FALSE
INVARIANTS OpenWhileRegistered
