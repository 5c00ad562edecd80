SPECIFICATION MCSpec
CONSTANTS
  d1 = d1
  d2 = d2
  Paths <- OnePath
  nchannels <- Geo1Channels
  nluns <- Geo1Luns
  nblocks <- Geo1Blocks
  SharedLimit = 2
  Callers = {main}
  NoCaller = NoCaller
  Requests <- SomeRequests
  MaxAllocs = 3
INVARIANTS
  TypeOK
  DisjointExtents
  ExactAccounting
  ExclusiveOwnership
  CountersAgree
  BlocksWithinRequest
  RefusalJustified
  PublishedFresh
