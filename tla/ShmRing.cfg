\* One writer and one reader of a ring that wraps; each end is opened and
\* closed twice; payloads are cut at BlockSize and read in parts.
CONSTANTS
  w1 = w1
  w2 = w2
  r1 = r1
  Writers = {w1}
  Readers = {r1}
  BlockNum = 2
  BlockSize = 2
  Sizes = {3}
  ReadSizes = {1, 2}
  MaxWrites = 3
  MaxOpens = 2
SPECIFICATION Spec
INVARIANTS TypeOK ClosedIsUnused
PROPERTIES ImplementsFifo
