SPECIFICATION AllSpec
CONSTANTS
  Source = {s1, s2}
  KeepOpen = {s2}
  Timeout <- AllTimeouts
  MaxClock = 9
  MaxCalls = 3
  RefusalWakes = FALSE
  Length = 5
  Room = 3
  ReadSize = 2
CHECK_DEADLOCK FALSE
INVARIANTS
  SourcesKept
  EndsInTime
  CallsSound
  BytesInOrder
PROPERTIES
  NotBeforeTime
  CallsReturn
  Delivered
