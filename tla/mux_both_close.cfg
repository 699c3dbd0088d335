CONSTANTS
  Client = Client
  Server = Server
  IsInline = TRUE
  Faulty = FALSE
  ClosingEnds = {Client, Server}
  WriteChanLimit = 2
  MaxData = 0
SPECIFICATION Spec
INVARIANT BothClosing
CHECK_DEADLOCK FALSE
