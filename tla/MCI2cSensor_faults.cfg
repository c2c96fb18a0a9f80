SPECIFICATION Spec
CONSTANT MaxSample = 2
INVARIANTS IInv OkMeansOneSample OkMeansCalibrated FaultsDoNotLinger
