CONSTANTS
  Width = 4
  Gap = Gap
  Slices <- MCSlices
  Scripts <- MCScripts
  Ranges <- MCRanges
  Adaptors <- MCAdaptors
  Terminals <- MCTerminals
  CollectCap = 2
  MaxIters = 4
  MaxDepth = 2
SPECIFICATION Spec
CHECK_DEADLOCK FALSE
INVARIANTS
  OwnedOnce
  YieldsMeaning
  PeekShowsNext
  EndIsFinal
PROPERTIES
  TerminalsRight
