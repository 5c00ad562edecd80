SPECIFICATION MCSpec
CONSTANTS
  c1 = c1
  c2 = c2
  Clients = {c1, c2}
  Script <- TwoTests
  MsgLen = 2
  AllocLen = 3
  BlkLen = 3
  VblksPerAlloc = 1
  SockBuf = 2
  NumFds = 2
  Torn = FALSE
  Impatient = {c1}
  NoClient = NoClient
INVARIANT
  OwnReplies
