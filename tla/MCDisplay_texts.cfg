SPECIFICATION DisplaySpec
CONSTANTS
  Temperatures <- TestTemperatures
  Pressures <- TestPressures
  Outdoors <- TestOutdoors
  Humidities <- TestHumidities
  Uninitialised <- Garbage
INVARIANTS DisplayInv LabelsKept ShowsMeasurements
