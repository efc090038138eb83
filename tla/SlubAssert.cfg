SPECIFICATION Spec
CONSTANTS
  Sizes = {36864}
  Requests = {2048}
INVARIANT
  NoAssertFails
