\* The user leaves a page with the panel for another one.
CONSTANTS
  p1 = p1
  None = None
  Sockets <- MCSockets
  Positions = {p1}
  Invalid = {}
  MaxInfos = 1
  MaxAsks = 1
SPECIFICATION Spec
INVARIANT StoreOwnsItsSocket
CHECK_DEADLOCK FALSE
