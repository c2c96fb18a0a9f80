SPECIFICATION Spec
CONSTANTS
  Temperatures <- TwoTemperatures
  PowerOn <- EightyFive
  TickPeriod = 4
  ConversionTime = 3
  ConversationTime = 1
INVARIANTS IInv InStep ReadsWhatItRequested
