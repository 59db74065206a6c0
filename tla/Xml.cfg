SPECIFICATION AllSpec
CONSTANTS
  Node = {n1, n2, n3, n4}
  NoNode = null
  Tag = {t1, t2}
  MaxParsed = 2
  Value = {"v", "w"}
  AnyValue = "any"
  Attribute = {"a1", "a2", "a3"}
  Sentinel = "sentinel"
  Name = {"empty", "k", "j"}
  Text = {"empty", "x"}
SYMMETRY Symmetry
CHECK_DEADLOCK FALSE
INVARIANTS
  TreesCount
  NodesSound
PROPERTIES
  RemovesExactly
  ImplementsNodeTree
