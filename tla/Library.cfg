SPECIFICATION CallSpec
CONSTANTS
  N = 3
  Weight <- Weights
  MaxEdges = 3
  Item = {0, 1, 2, 3, 4}
  Sentinel = 3
  MaxLength = 5
  FileSize = {1, 2, 3}
  FileHits = {0, 1, 2}
  MaxFiles = 3
  Name = {"a", "b"}
  Attr = {"k", "j"}
  MaxNode = 6
  DocNodes = 3
  Edited = 2
  MaxText = 21
  MaxLog = 2
  Width = 2
  MaxAdded = 6
  Units <- Characters
  MaxUnits = 3
  References = {1, 38, 60, 127, 128, 255, 256, 2047, 2048, 4095, 4096, 65535}
  Bytes = {0, 1, 127, 128, 255}
  MaxBytes = 5
  Lengths = {53, 54, 55, 57, 108}
  Pid = {1, 2}
  m_pid = 1
  RowsAtMost = 2
  MaxEntries = 3
CHECK_DEADLOCK FALSE
INVARIANTS
  SetsSound
  MinimumForest
  SortsRight
  ValuesSound
  DocumentsSound
  FilesSound
  SnapshotsSound
PROPERTIES
  EdgesKept
  ImplementsPartition
  ParseEnds
