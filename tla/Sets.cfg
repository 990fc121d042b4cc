CONSTANTS
  Keys = {1, 2, 3, 4, 5, 6}
  MapKeys = {1, 2, 3, 4, 5}
  Vals = {"v", "w"}
  Nil = Nil
  Sources <- MCSources
  MapSources <- MCMapSources
SPECIFICATION AnySpec
VIEW AllButAsked
INVARIANTS
  TreesOrdered
  AvlBalanced
PROPERTIES
  SetsImplemented
  MapImplemented
