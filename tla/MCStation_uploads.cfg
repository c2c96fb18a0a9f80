SPECIFICATION FairSpec
CONSTANTS
  ServerUpdatePeriod = 7
  ConnectionTime = 3
  DHT11Outcomes <- AnyOutcome
  LoopRereads = TRUE
INVARIANTS IInv UploadSpacing ConnectionWait FullWindow SampleBound FreshUpload CommandMatchesState
PROPERTIES UplinkInOrder UploadsRecur ImplementsUplink
