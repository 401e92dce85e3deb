\* Two threads of one process write: the API thread and the thread that
\* clears the proxy, or the SDK callbacks and the IPC thread of the source.
CONSTANTS
  w1 = w1
  w2 = w2
  r1 = r1
  Writers = {w1, w2}
  Readers = {r1}
  BlockNum = 2
  BlockSize = 1
  Sizes = {1}
  ReadSizes = {1}
  MaxWrites = 2
  MaxOpens = 1
SYMMETRY WriterSymmetry
SPECIFICATION Spec
INVARIANTS MutualExclusion Conservation
PROPERTIES NeverOverwritten
