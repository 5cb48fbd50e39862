SPECIFICATION MCFair
CONSTANTS
  GroupBits = 2
  IntBits = 3
  LongBits = 5
  MaxByteSliceSize = 2
  BufSize = 4
  MaxEmptyReads = 2
  MaxStream = 3
  Ops <- AllOps
PROPERTIES ImplementsByteStream OperationsReturn
INVARIANT WrittenReadsBack
