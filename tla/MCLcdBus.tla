------------------------------ MODULE MCLcdBus ------------------------------
EXTENDS LcdBus

\* A digit, a letter, a blank; a position in either line; clearing.
GUITraffic ==
  [mode : {"CHARACTER"}, byte : {48, 67, 32}]
    \cup [mode : {"INSTRUCTION"}, byte : {131, 195, 1}]
=============================================================================
