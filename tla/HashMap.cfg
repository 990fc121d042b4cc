CONSTANTS
  k1 = k1
  k2 = k2
  k3 = k3
  k4 = k4
  k5 = k5
  k6 = k6
  v1 = v1
  v2 = v2
  Keys = {k1, k2, k3, k4, k5, k6}
  Vals = {v1, v2}
  Offered <- MCOffered
  Batches <- MCBatches
  Hash <- MCHash
  InitCap = 4
  MaxCap = 8
  Caps <- MCCaps
  PslThreshold = 2
  PslWidth = 5
  Nil = Nil
SPECIFICATION ExtendSpec
INVARIANTS
  TypeOK
  ProbeOrder
  KeysOnce
  ExtendsByPrefix
  LenAndLoad
  NothingLeaks
  PslHeadroom
  MaxPslCovers
  IterYieldsAll
PROPERTIES
  ImplementsMap
  CallsReturn
