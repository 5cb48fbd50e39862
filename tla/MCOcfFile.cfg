SPECIFICATION FairSpec
CONSTANTS
  MaxOutputs = 2
  Formats = {"f1"}
  BlockLength = 2
  BlockSize = 0
  RecordSizes = {1}
  MaxRecords = 2
  Bad = Bad
  MaxBlockRecords = 2
  MaxBlockBytes = 4
  ForeignFiles <- MCForeign
INVARIANTS
  ReaderGetsAccepted CleanEndMeansAll HealthyReadsClean
PROPERTY ReadLoopEnds
CHECK_DEADLOCK FALSE
