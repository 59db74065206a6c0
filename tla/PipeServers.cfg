SPECIFICATION PipeSpec
CONSTANTS
  Client = {c1, c2}
  Handle = {h1, h2}
  Thread = {t1, t2}
  Nobody = Nobody
  MaxPending = 2
  Listener = Listener
  Lost = Lost
CHECK_DEADLOCK FALSE
INVARIANTS
  PipesSound
  NothingLost
PROPERTIES
  NoReplyDiscarded
  PipesServed
