SPECIFICATION Spec
CONSTANTS
  Sizes = {4096, 8191, 8192, 12500, 28672, 32768, 36864, 122880, 131072}
  Requests = {500, 2048}
CHECK_DEADLOCK FALSE
INVARIANTS
  NoAbortUpToEight
  MapsExact
  ObjectsDisjoint
  Placement
  NullOnlyWhenFull
