\* Two sessions, one after the other; the process may not initialize, or may
\* crash, with locks left in the channels.
CONSTANTS
  MaxSessions = 2
  RingSize = 2
  MaxCalls = 0
  MaxEvents = 0
  Faults = {"init", "crash"}
SPECIFICATION FairSpec
CHECK_DEADLOCK FALSE
INVARIANTS OldListenersEnded
PROPERTIES WatchedExitNoticed
