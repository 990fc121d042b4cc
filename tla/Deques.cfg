CONSTANTS
  e1 = e1
  e2 = e2
  e3 = e3
  Elems = {e1, e2, e3}
  Addrs = {a1, a2, a3, a4, a5}
  Sources <- MCSources
  InitCap = 2
  MaxCap = 4
  Nil = Nil
  NULL = NULL
  Junk = Junk
SYMMETRY Symmetry
VIEW AllButAsked
SPECIFICATION SpecAny
INVARIANTS
  DequeTypes
  ChainsOK
  NothingLeaked
  ItersInOrder
PROPERTIES
  DequesImplemented
