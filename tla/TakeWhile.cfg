CONSTANTS
  Width = 4
  Gap = Gap
  Slices <- MCSlices
  Scripts = {}
  Ranges = {}
  Adaptors <- MCTakeWhile
  Terminals = {}
  CollectCap = 2
  MaxIters = 2
  MaxDepth = 2
SPECIFICATION Spec
CHECK_DEADLOCK FALSE
INVARIANTS
  TakeWhileStops
