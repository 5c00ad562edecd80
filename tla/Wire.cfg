SPECIFICATION MCSpec
CONSTANTS
  Radix = 8
  REQUEST_MAGIC = 3393
  SERIALIZE_MAGIC = 3394
  READ_BLOCK_MAGIC = 3329
  WRITE_BLOCK_MAGIC = 3330
  ERASE_BLOCK_MAGIC = 3331
  AllocArgs <- SomeAllocArgs
  IoArgs <- SomeIoArgs
  Grants <- SomeGrants
  JunkBytes = {0, 5}
  BUFFER_SIZE = 1024
  VSSD_BUFFER_SIZE = 1024
INVARIANTS
  RequestUnderstood
  WholeReplyExact
  ShortReplyHarmless
