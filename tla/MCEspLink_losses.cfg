SPECIFICATION Spec
CONSTANTS
  AvgTemperatures <- AllTemperatures
  AvgPressures <- AllPressures
  AvgOutdoors <- AllOutdoors
  AvgHumidities <- AllHumidities
  Losses <- SomeLosses
INVARIANTS IInv BuffersFit OverrunOnlyBelowZero FaultCostsTwoUploads
