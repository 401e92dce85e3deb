\* The frame channel (BLOCK_NUM 1) under fair scheduling.
CONSTANTS
  w1 = w1
  w2 = w2
  r1 = r1
  Writers = {w1}
  Readers = {r1}
  BlockNum = 1
  BlockSize = 2
  Sizes = {2}
  ReadSizes = {1, 2}
  MaxWrites = 2
  MaxOpens = 1
SPECIFICATION FairSpec
PROPERTIES CloseEndsCalls Delivered
