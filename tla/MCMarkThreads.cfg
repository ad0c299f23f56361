\* Two workers; two collections of either heap.  The system stops after the last.
SPECIFICATION FairSpec
CONSTANTS
  w1 = w1
  w2 = w2
  o1 = o1
  o2 = o2
  o3 = o3
  o4 = o4
  o5 = o5
  o6 = o6
  o7 = o7
  Main = Main
  Worker <- TwoWorkers
  Object <- Objects
  Raw <- RawObjects
  Heap <- Heaps
  Roots <- NativeRoots
  Foreign <- ForeignRoots
  MaxRounds = 1
CHECK_DEADLOCK FALSE
INVARIANTS
  IInv
  MarksExactly
  NoAssertionFails
  WorkIsCounted
PROPERTY
  MarkEnds
