SPECIFICATION Spec
CONSTANTS
  ServerUpdatePeriod = 6
  ConnectionTime = 3
  DHT11Outcomes <- AnyOutcome
  LoopRereads = TRUE
INVARIANTS FreshHumidity
