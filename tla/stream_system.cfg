CONSTANTS
  MaxSocks = 2
  WriteMax = 1
  Busy = {1}
SPECIFICATION FairSpec
INVARIANTS TypeOK SocketsExact FlushedOnClose CloseIsFinal
PROPERTIES SocketStops CloseReturns
CHECK_DEADLOCK FALSE
