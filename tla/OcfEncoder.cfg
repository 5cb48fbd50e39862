SPECIFICATION Spec
CONSTANTS
  MaxOutputs = 2
  Formats = {f1, f2}
  BlockLength = 2
  BlockSize = 3
  RecordSizes = {0, 3}
  MaxRecords = 3
INVARIANTS
  NothingLostSilently DeliveredOnceInOrder
  OutputsAreContainers
PROPERTIES
  SuccessMeansDelivered FailureReturnedOnce RejectionLeavesNoTrace
  ImplementsRecordStream
