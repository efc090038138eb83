SPECIFICATION Spec
CONSTANTS
  INTEGER_MAX = 127
  N_PLACES = 2
  Magnitudes = {0, 1, 2, 9, 10, 11, 98, 99, 100, 101, 126, 127, 128}
  Capacity = 5
  MaxWrites = 2
INVARIANTS
  TextExact
  ReadsBack
PROPERTIES
  InBounds
