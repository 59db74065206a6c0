SPECIFICATION FairSpec
CONSTANTS
  Conn = {c1}
  Server = Server
  Fd = {f1, f2}
  Kind = {"keep", "close", "bad"}
  MaxBacklog = 1
INVARIANTS
  RequestsSound
PROPERTIES
  Answered
