SPECIFICATION FairSpec
CONSTANTS
  ServerUpdatePeriod = 6
  ConnectionTime = 3
  DHT11Outcomes <- AnyOutcome
  LoopRereads = FALSE
PROPERTIES UploadsRecur
