SPECIFICATION SpecTSO
CONSTANTS
  t1 = t1
  t2 = t2
  NoThread = NoThread
  Thread <- TwoThreads
  MaxBlocking = 1
  MaxBuffer = 2
INVARIANT
  WorldStopped
