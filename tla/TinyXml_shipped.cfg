SPECIFICATION Spec
CONSTANTS
  Name = {"a", "b"}
  Attr = {"k", "j"}
  MaxNode = 4
  DocNodes = 2
  Edited = 2
CHECK_DEADLOCK FALSE
PROPERTY
  MissingEndTagReported
