CONSTANTS
  Client = Client
  Server = Server
  IsInline = TRUE
  Faulty = FALSE
  ClosingEnds = {Client}
  WriteChanLimit = 2
  MaxData = 1
SPECIFICATION Spec
INVARIANT AllWritten
CHECK_DEADLOCK FALSE
