CONSTANTS
  MCKeys = {1, 2, 3, 4, 5}
  Trees <- MCTrees
  Bounds = {2, 4}
  StackCap = 1
  CollectCap = 1
  None = None
SPECIFICATION Spec
INVARIANTS
  CollectNeverPartial
