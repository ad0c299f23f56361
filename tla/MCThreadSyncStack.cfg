SPECIFICATION Spec
CONSTANTS
  Thread = {main, w1, w2}
  Main = main
  NoThread = NoThread
  Msg = {m1, m2}
  NoMsg = NoMsg
  MaxCount = 2
  Programs <- Mixes
INVARIANT
  HeldIsFound
CHECK_DEADLOCK FALSE
