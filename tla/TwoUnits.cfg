SPECIFICATION MCFairSpec
CONSTANTS
  d1 = d1
  d2 = d2
  Paths <- TwoPaths
  nchannels <- Geo2Channels
  nluns <- Geo2Luns
  nblocks <- Geo2Blocks
  SharedLimit = 1
  Callers = {t1, t2}
  NoCaller = NoCaller
  Requests <- RivalRequests
  MaxAllocs = 3
INVARIANTS
  IInv
  ChannelsWithinRequest
PROPERTIES
  ImplementsOwnership
  CallsReturn
