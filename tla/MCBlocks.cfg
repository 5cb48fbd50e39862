SPECIFICATION BlocksSpec
CHECK_DEADLOCK FALSE
CONSTANTS
  MaxItems = 3
  MaxLong = 12
  MinLong <- MCMinLong
  BlockLength = 2
  Room = 2
  Inputs <- MCInputs
  Framings <- MCFramings
  Streams <- MCStreams
  Rest <- MCRest
INVARIANTS
  LimitHolds
  FramedReadsBack
  WrittenIsFramed
