CONSTANTS
  Socks = {k}
  Sock = k
  Sessions = {s1, s2}
  Addrs = {p}
  Nil = Nil
  WriteMax = 1
  MsgMax = 1
SPECIFICATION FairSpec
INVARIANTS Tracked DrainedOnClose CloseIsFinal
PROPERTIES CallbacksSpec CloseReturns DeadSessionExpires
CHECK_DEADLOCK FALSE
