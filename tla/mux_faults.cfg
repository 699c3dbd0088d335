CONSTANTS
  Client = Client
  Server = Server
  IsInline = TRUE
  Faulty = TRUE
  ClosingEnds = {Client, Server}
  WriteChanLimit = 1
  MaxData = 0
SPECIFICATION FairSpec
INVARIANTS TypeOK SignalsFit HandshakeAgreement CloseAgreement
PROPERTIES Monotone CloseReturns SocketStops
CHECK_DEADLOCK FALSE
