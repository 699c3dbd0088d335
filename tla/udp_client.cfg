CONSTANTS
  MaxConns = 2
  Busy = {1}
  Socks <- MCConns
  Sessions <- MCConns
  WriteMax = 2
  MsgMax = 1
SPECIFICATION FairSpec
INVARIANT OldIsGone
PROPERTIES CallbacksSpec TornDown
CHECK_DEADLOCK FALSE
