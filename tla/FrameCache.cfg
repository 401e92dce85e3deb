\* One stream, as the page has; two sessions.
CONSTANTS
  Streams = {"videoSource"}
  Sizes <- TheSizes
  None = None
  MaxMessages = 2
  MaxFrames = 2
  MaxEnables = 2
  MaxSessions = 2
SPECIFICATION Spec
INVARIANTS TypeOK DelegatesLive ShownWhole
PROPERTIES Newest SourceFollows
CHECK_DEADLOCK FALSE
