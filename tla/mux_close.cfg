CONSTANTS
  Client = Client
  Server = Server
  IsInline = TRUE
  Faulty = FALSE
  ClosingEnds = {Client, Server}
  WriteChanLimit = 3
  MaxData = 1
SPECIFICATION FairSpec
INVARIANT DataAfterHandshake
PROPERTIES HandshakeCompletes GracefulClose
CHECK_DEADLOCK FALSE
