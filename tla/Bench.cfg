SPECIFICATION Spec
CONSTANTS
  nchannels = 5
  nluns = 1
  npages = 4
  IntMax <- SmallIntMax
INVARIANTS
  WrittenIsReadable
  AllSizesMeasured
