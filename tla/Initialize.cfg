SPECIFICATION StartSpec
CONSTANTS
  Line = {a, b}
  End = End
  Rows = 2
  Blank = Blank
  MaxLines = 6
  Instance = {p1, p2, p3}
  Desktop = {d1}
CHECK_DEADLOCK FALSE
SYMMETRY Symmetry
INVARIANTS
  OneWatches
  ListsAsWritten
