SPECIFICATION Spec
CONSTANTS
  NumPackets = 4
  MAX_RETRANSMIT = 4
  MAX_RX_ERRORS = 3
  MaxUartErrors = 2
  Setups <- MCSetups
INVARIANTS IInv ReceivedIsPrefix OkMeansComplete SentMeansReceived
PROPERTIES Ends
CHECK_DEADLOCK FALSE
