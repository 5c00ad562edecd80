SPECIFICATION MCFairSpec
CONSTANTS
  c1 = c1
  c2 = c2
  Clients = {c1}
  Script <- OneLong
  MsgLen = 2
  AllocLen = 3
  BlkLen = 3
  VblksPerAlloc = 1
  SockBuf = 2
  NumFds = 1
  Torn = TRUE
  Impatient = {c1}
  NoClient = NoClient
INVARIANTS
  TypeOK
  WriteEventArmed
  CommandsWhole
  RepliesExact
  BlocksExact
PROPERTIES
  DescriptorsReturned
