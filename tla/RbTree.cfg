SPECIFICATION Spec
CONSTANT Keys = {1, 2, 3, 4, 5, 6, 7, 8}
INVARIANTS
  SearchTree
  RedBlack
PROPERTIES
  CallsReturn
  ImplementsSet
