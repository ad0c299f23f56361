SPECIFICATION FairSpec
CONSTANTS
  Thread = {main, w1, w2}
  Main = main
  NoThread = NoThread
  Msg = {m1, m2}
  NoMsg = NoMsg
  MaxCount = 2
  Programs <- Mixes
INVARIANTS
  OnlyTheseAreMissed
  NoWaiterForgotten
PROPERTIES
  CollectionEnds
  DequeSpec
CHECK_DEADLOCK FALSE
