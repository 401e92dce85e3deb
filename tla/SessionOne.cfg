\* One session, more calls than the ring holds; the process may not start, and
\* the main process may die.
CONSTANTS
  MaxSessions = 1
  RingSize = 3
  MaxCalls = 5
  MaxEvents = 2
  Faults = {"spawn", "parent"}
SPECIFICATION FairSpec
CHECK_DEADLOCK FALSE
INVARIANTS TypeOK CallsBeforeBye OneClear
PROPERTIES CallsReturn  CallsExecuted
