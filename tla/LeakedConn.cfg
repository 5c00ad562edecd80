SPECIFICATION MCSpec
CONSTANTS
  c1 = c1
  c2 = c2
  Clients = {c1}
  Script <- OneRemote
  MsgLen = 2
  AllocLen = 3
  BlkLen = 3
  VblksPerAlloc = 1
  SockBuf = 2
  NumFds = 1
  Torn = FALSE
  Impatient = {}
  NoClient = NoClient
INVARIANT
  ClosedConnFreed
