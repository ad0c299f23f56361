\* Three threads that register and unregister, or two that call Python.  A circular
\* wait stops the system: see the run gil_deadlock.  No symmetry: there is liveness.
SPECIFICATION MCSpec
CONSTANTS
  t1 = t1
  t2 = t2
  t3 = t3
  NoThread = NoThread
  Thread <- ThreeThreads
  Main = t1
  MaxBlocking = 2
CHECK_DEADLOCK FALSE
INVARIANTS
  WorldStopped
  ScanSeesEveryThread
  NothingDangling
  GilInv
  BracketedWaitIsSafe
  NoGilUnderLock
PROPERTIES
  WorldSpec
  CollectionEndsOrStuck
