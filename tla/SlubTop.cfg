SPECIFICATION Spec
CONSTANTS
  Sizes = {32768}
  Requests = {2048}
CHECK_DEADLOCK FALSE
INVARIANT
  TopTruthful
