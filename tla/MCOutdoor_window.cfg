SPECIFICATION Spec
CONSTANTS
  Readings <- FrostReadings
  MaxReadings = 3
INVARIANTS DecodeExactUnlessCarry AverageWithinUnlessNegative
