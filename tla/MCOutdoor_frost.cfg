SPECIFICATION Spec
CONSTANTS
  Readings <- MixedReadings
  MaxReadings = 3
INVARIANTS AverageWithin
