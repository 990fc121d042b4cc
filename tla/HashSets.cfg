CONSTANTS
  Names = {set1, set2}
  Keys = {1, 2, 3}
  Hash <- MCHash
  InitCap = 4
  MaxCap = 8
  PslThreshold = 3
  Nil = Nil
  Sources <- MCSources
SPECIFICATION Spec
SYMMETRY SetSymmetry
VIEW AllButAsked
INVARIANTS
  TypeOK
  LookupAgrees
  NothingLeaks
PROPERTY
  ImplementsSet
