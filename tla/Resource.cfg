SPECIFICATION Spec
CONSTANT Capacity = 4
INVARIANTS
  NoAssertFails
  ListsSound
PROPERTY
  ImplementsSets
