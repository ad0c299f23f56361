\* Two addresses; another thread may collect while the bridge waits to do so.
\* A process that crashed stops.
SPECIFICATION Spec
CONSTANTS
  o1 = o1
  o2 = o2
  Obj <- TwoBlocks
  MaxFields = 1
  MaxRecorded = 1
CHECK_DEADLOCK FALSE
SYMMETRY Symmetry
INVARIANTS
  BridgeInv
  NothingUsedIsFreed
  IdentityKept
  ObservationHolds
  SnapshotCovers
