SPECIFICATION MCFairSpec
CONSTANTS
  d1 = d1
  k1 = k1
  k2 = k2
  Paths <- OnePath
  nchannels <- DevChannels
  nluns <- DevLuns
  nblocks <- DevBlocks
  SharedLimit = 2
  Callers = {k1, k2}
  NoCaller = NoCaller
  NoOne = NoOne
  LocalBlocks <- FirstBlocks
  Requests <- SomeRequests
  MaxAllocs = 3
INVARIANTS
  ServerTypeOK
  DataSafe
  VblocksApart
  GrantStriped
  KeptInOrder
PROPERTIES
  IndexesStable
  RequestsEnd
