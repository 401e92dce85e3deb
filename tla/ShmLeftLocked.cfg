\* The frame channel whose reader closes its end under a writer.
CONSTANTS
  w1 = w1
  w2 = w2
  r1 = r1
  Writers = {w1}
  Readers = {r1}
  BlockNum = 1
  BlockSize = 1
  Sizes = {1}
  ReadSizes = {1}
  MaxWrites = 1
  MaxOpens = 1
SPECIFICATION FairSpec
PROPERTIES WriteIgnoresReadEnd
