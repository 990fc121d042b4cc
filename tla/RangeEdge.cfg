CONSTANTS
  Width = 3
  Gap = Gap
  Slices = {}
  Scripts = {}
  Ranges <- MCEdgeRanges
  Adaptors = {}
  Terminals = {}
  CollectCap = 2
  MaxIters = 1
  MaxDepth = 2
SPECIFICATION Spec
CHECK_DEADLOCK FALSE
INVARIANTS
  RangeInside
