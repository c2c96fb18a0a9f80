------------------------------ MODULE MCI2cSensor ------------------------------
(***************************************************************************)
(* Two samples are enough to see one half of each in a measurement.        *)
(***************************************************************************)
EXTENDS I2cSensor
=============================================================================
