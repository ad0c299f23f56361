\* A collection frees pages, and memory is exhausted all the same.
SPECIFICATION MCSpec
CONSTANTS
  p1 = p1
  p2 = p2
  v1 = v1
  v2 = v2
  torn = torn
  fails = fails
  Page <- TwoPages
  NoPage = NoPage
  PageSizes = {3, 5}
  Memory = 6
  CursorMod = 5
  HeaderBlocks = 1
  MaxStale = 1
  Id = {1, 2, 3}
  MaxFound = 3
  Key = {0, 1, 2, 3}
  Value <- TwoValues
  SizeInit = 1
  CellRatio = 2
  Primes <- SmallPrimes
  Limit = 3
  CharRange = 3
  MaxEntries = 5
  Name = {1, 2, 3}
  LastName = 3
  Pointer = {"null_i32", "null_f64", "dynobj", "view", "class1", "class2"}
  Raw = {"ui8", "ui16", "i32", "f64"}
  Boxes <- Boxed
  ViewType = {"view"}
  Class = {"class1", "class2"}
  Castable = {"class2"}
  Virtual = {"A", "B"}
  Declares <- Declared
  Datum <- Data
  Stores <- OwnStores
  Had <- OwnHad
  Cast <- Casts
  NoCast = fails
  Torn = torn
SYMMETRY Symmetry
CHECK_DEADLOCK FALSE
INVARIANT
  ExhaustedOnlyIfFull
