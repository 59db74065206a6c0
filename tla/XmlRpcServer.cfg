SPECIFICATION Spec
CONSTANTS
  Conn = {c1, c2}
  Server = Server
  Fd = {f1, f2, f3}
  Kind = {"keep"}
  MaxBacklog = 1
SYMMETRY Symmetry
INVARIANTS
  SourcesSound
  NoStaleEvent
