\* Two channels, one remote user, three events on their way, one of them at most to be
\* heard, two channel objects.
CONSTANTS
  u1 = u1
  c1 = c1
  c2 = c2
  Users = {u1}
  Channels = {c1, c2}
  None = None
  MaxPending = 3
  MaxCalled = 1
  MaxObjects = 2
SYMMETRY Symmetry
SPECIFICATION Spec
INVARIANTS TypeOK OfflineInItsChannel KeptApart Announced
PROPERTIES OfflineTakesItsView
