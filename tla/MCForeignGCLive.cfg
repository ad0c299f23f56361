\* Garbage of two blocks, of any shape.  No other thread collects while the bridge waits to.
SPECIFICATION RestSpec
CONSTANTS
  o1 = o1
  o2 = o2
  Obj <- TwoBlocks
  MaxFields = 1
  MaxRecorded = 0
PROPERTY
  Reclaimed
