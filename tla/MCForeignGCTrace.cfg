\* Another thread collects while the bridge waits to.
SPECIFICATION Spec
CONSTANTS
  o1 = o1
  o2 = o2
  Obj <- TwoBlocks
  MaxFields = 1
  MaxRecorded = 1
CHECK_DEADLOCK FALSE
SYMMETRY Symmetry
INVARIANT
  ReadsWhatWasRecorded
