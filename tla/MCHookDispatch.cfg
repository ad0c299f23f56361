SPECIFICATION MCSpec
CONSTANTS
  Thread = {t}
  Function = {f, g}
  Callback = {c}
  None = None
  MaxDepth = 6
  Shared = Shared
  Single = Single
  Own = Own
  Native = {1, 2, 3}
  CFunction = {Shared, Single}
  Target <- Targets
  MaxHops = 2
  MaxStubs = 4
SYMMETRY Symmetry
INVARIANTS
  PassthroughMatches
  NoRetrigger
  BypassHitsItsCall
  ReturnIsOwn
  RefsExact
  BodyIsReached
  HookIsReached
CHECK_DEADLOCK FALSE
