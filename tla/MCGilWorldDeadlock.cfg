\* The documented claim that a wait for the GIL never holds up a collection.
SPECIFICATION MCSpec
CONSTANTS
  t1 = t1
  t2 = t2
  t3 = t3
  NoThread = NoThread
  Thread <- ThreeThreads
  Main = t1
  MaxBlocking = 1
CHECK_DEADLOCK FALSE
INVARIANT
  NoCircularWait
