CONSTANTS
  e1 = e1
  e2 = e2
  e2b = e2b
  e3 = e3
  Elems = {e1, e2, e2b, e3}
  Prio <- MCPrio
  Sources <- MCSources
  InitCap = 2
  MaxCap = 8
  Nil = Nil
SPECIFICATION Spec
INVARIANTS
  HeapOrder
  NothingLeaks
PROPERTIES
  ImplementsPrio
