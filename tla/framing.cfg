CONSTANTS
  HeaderSizeof = 2
  kcpExchangeSizeof = 3
  readBufferSize = 4
  WriteMax = 2
  Sizes = {0, 1, 3}
  MaxMsgs = 3
SPECIFICATION FairSpec
INVARIANT PoolBalanced
PROPERTY ChannelSpec
CHECK_DEADLOCK FALSE
