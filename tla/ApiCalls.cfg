\* A pipe that the calls of videoSourceInitialize fill.
CONSTANTS
  MaxPipe = 2
  Calls <- AllCalls
SPECIFICATION Spec
INVARIANTS TypeOK MutedBeforeJoined ReleasedIsSilent
PROPERTIES ReachedAsNamed 
\* A call on a crashed process waits for ever once the pipe is full.
CHECK_DEADLOCK FALSE
