------------------------------- MODULE I2cProofs -------------------------------
(***************************************************************************)
(* Proofs of the properties of I2cSensor, for any number of samples.  Each *)
(* action preserves each conjunct of IInv.                                 *)
(***************************************************************************)
EXTENDS I2cSensor, TLAPS

USE SampleAssumption
USE DEF device, reports, i2c, memory

\* The origins are what they look like.
LEMMA OriginFacts ==
  /\ Stack = {[reg |-> "stack", sample |-> 0]} /\ Stack \subseteq Origins
  /\ Byte("zero", 0) = [reg |-> "zero", sample |-> 0]
  /\ Byte("CAL0", 0) = [reg |-> "CAL0", sample |-> 0]
  /\ Byte("zero", 0) \in Origins /\ Byte("CAL0", 0) \in Origins
  /\ \A n \in 0 .. MaxSample :
       /\ Byte("PRESS_MSB", n) = [reg |-> "PRESS_MSB", sample |-> n]
       /\ Byte("PRESS_MSB", n) \in Samples
BY DEF Stack, Byte, Origins, Samples

\* The bytes a burst yields, good or not.
LEMMA ReceivedFacts ==
  ASSUME TypeOK
  PROVE  /\ Received \in Origins
         /\ contact /\ pointer = "PRESS_MSB" => Received = Byte("PRESS_MSB", shadow)
         /\ contact /\ pointer = "CAL0" => Received = Byte("CAL0", 0)
BY DEF TypeOK, Received, Byte, Origins, Samples

LEMMA InitIInv == Init => IInv
<1> SUFFICES ASSUME Init PROVE IInv
  OBVIOUS
<1>1. TypeOK
  <2>1. cal \subseteq Origins /\ buffer \subseteq Origins
    BY OriginFacts DEF Init, Stack
  <2>2. boot \in [status : Statuses, lost : BOOLEAN]
    BY DEF Init, Statuses
  <2>3. meas \in [status : Statuses, lost : BOOLEAN, absent : BOOLEAN,
                  data : SUBSET Origins]
    BY DEF Init, Statuses
  <2>4. absent \in BOOLEAN /\ lost \in BOOLEAN /\ contact \in BOOLEAN /\ awake \in BOOLEAN
    BY Zenon DEF Init
  <2>5. /\ call = "config" /\ stage = "address" /\ error = "STATUS_OK"
        /\ pointer = "elsewhere" /\ current = 0 /\ shadow = 0
    BY DEF Init
  <2> QED
    BY <2>1, <2>2, <2>3, <2>4, <2>5 DEF TypeOK, Statuses
<1>2. Undisturbed
  BY DEF Init, Undisturbed
<1>3. FaultsNoted
  BY DEF Init, FaultsNoted
<1>4. MeasurementBuffer
  BY DEF Init, MeasurementBuffer, Stack
<1>5. CalibrationBuffer
  BY DEF Init, CalibrationBuffer
<1>6. OkMeansOneSample
  BY DEF Init, OkMeansOneSample
<1>7. OkMeansCalibrated
  BY DEF Init, OkMeansCalibrated
<1>8. FaultsDoNotLinger
  BY DEF Init, FaultsDoNotLinger
<1> QED
  BY <1>1, <1>2, <1>3, <1>4, <1>5, <1>6, <1>7, <1>8 DEF IInv

LEMMA AddressRefusedIInv == IInv /\ AddressRefused => IInv'
<1> SUFFICES ASSUME IInv, AddressRefused PROVE IInv'
  OBVIOUS
<1> USE DEF IInv
<1>1. TypeOK'
  BY OriginFacts DEF AddressRefused, Return, Stored, TypeOK, Statuses
<1>2. Undisturbed'
  BY DEF AddressRefused, Return, Stored, Undisturbed, Register, TypeOK
<1>3. FaultsNoted'
  BY DEF AddressRefused, Return, Stored, FaultsNoted, TypeOK
<1>4. MeasurementBuffer'
  BY DEF AddressRefused, Return, Stored, MeasurementBuffer, Register, TypeOK
<1>5. CalibrationBuffer'
  BY DEF AddressRefused, Return, Stored, CalibrationBuffer, Register, TypeOK
<1>6. OkMeansOneSample'
  BY DEF AddressRefused, Return, Stored, OkMeansOneSample, MeasurementBuffer,
     Undisturbed, TypeOK
<1>7. OkMeansCalibrated'
  BY DEF AddressRefused, Return, Stored, OkMeansCalibrated, CalibrationBuffer,
     Undisturbed, TypeOK
<1>8. FaultsDoNotLinger'
  BY DEF AddressRefused, Return, Stored, FaultsDoNotLinger, FaultsNoted, Undisturbed,
     TypeOK
<1> QED
  BY <1>1, <1>2, <1>3, <1>4, <1>5, <1>6, <1>7, <1>8 DEF IInv

LEMMA AddressTakenIInv == IInv /\ AddressTaken => IInv'
<1> SUFFICES ASSUME IInv, AddressTaken PROVE IInv'
  OBVIOUS
<1> USE DEF IInv
<1>1. TypeOK'
  BY DEF AddressTaken, GoTo, Stored, TypeOK, Statuses
<1>2. Undisturbed'
  BY DEF AddressTaken, GoTo, Stored, Undisturbed, Register, TypeOK
<1>3. FaultsNoted'
  BY DEF AddressTaken, GoTo, Stored, FaultsNoted, TypeOK
<1>4. MeasurementBuffer'
  BY DEF AddressTaken, GoTo, Stored, MeasurementBuffer, Register, TypeOK
<1>5. CalibrationBuffer'
  BY DEF AddressTaken, GoTo, Stored, CalibrationBuffer, Register, TypeOK
<1>6. OkMeansOneSample'
  BY DEF AddressTaken, GoTo, Stored, OkMeansOneSample, MeasurementBuffer, Undisturbed,
     TypeOK
<1>7. OkMeansCalibrated'
  BY DEF AddressTaken, GoTo, Stored, OkMeansCalibrated, CalibrationBuffer,
     Undisturbed, TypeOK
<1>8. FaultsDoNotLinger'
  BY DEF AddressTaken, GoTo, Stored, FaultsDoNotLinger, FaultsNoted, Undisturbed, TypeOK
<1> QED
  BY <1>1, <1>2, <1>3, <1>4, <1>5, <1>6, <1>7, <1>8 DEF IInv

LEMMA WriteRegisterIInv == IInv /\ WriteRegister => IInv'
<1> SUFFICES ASSUME IInv, WriteRegister PROVE IInv'
  OBVIOUS
<1> USE DEF IInv
<1>1. TypeOK'
  <2>1. /\ call' \in {"config", "calibration", "measurement"}
       /\ stage' \in {"address", "register", "restart", "first", "rest"}
       /\ error' \in Statuses
    BY DEF WriteRegister, Return, GoTo, Stored, Register, TypeOK, Statuses, Register
  <2>2. cal' \subseteq Origins
    BY DEF WriteRegister, Return, GoTo, Stored, Register, TypeOK, Statuses, Register
  <2>3. buffer' \subseteq Origins
    BY OriginFacts DEF WriteRegister, Return, GoTo, Stored, Register, TypeOK,
       Statuses, Register
  <2>4. pointer' \in {"CTRL_MEAS", "CAL0", "PRESS_MSB", "elsewhere"}
    BY DEF WriteRegister, Return, GoTo, Stored, Register, TypeOK, Statuses, Register
  <2>5. current' \in 0 .. MaxSample /\ shadow' \in 0 .. MaxSample
    BY DEF WriteRegister, Return, GoTo, Stored, Register, TypeOK, Statuses, Register
  <2>6. /\ awake' \in BOOLEAN /\ contact' \in BOOLEAN
       /\ lost' \in BOOLEAN /\ absent' \in BOOLEAN
    BY Zenon DEF WriteRegister, Return, GoTo, Stored, Register, TypeOK, Statuses,
       Register
  <2>7. boot' \in [status : Statuses, lost : BOOLEAN]
    BY DEF WriteRegister, Return, GoTo, Stored, Register, TypeOK, Statuses, Register
  <2>8. meas' \in [status : Statuses, lost : BOOLEAN, absent : BOOLEAN,
                 data : SUBSET Origins]
    BY DEF WriteRegister, Return, GoTo, Stored, Register, TypeOK, Statuses, Register
  <2> QED
    BY <2>1, <2>2, <2>3, <2>4, <2>5, <2>6, <2>7, <2>8 DEF TypeOK
<1>2. Undisturbed'
  BY DEF WriteRegister, Return, GoTo, Stored, Register, Undisturbed, Register, TypeOK
<1>3. FaultsNoted'
  BY DEF WriteRegister, Return, GoTo, Stored, Register, FaultsNoted, TypeOK
<1>4. MeasurementBuffer'
  BY DEF WriteRegister, Return, GoTo, Stored, Register, MeasurementBuffer, Register,
     TypeOK
<1>5. CalibrationBuffer'
  BY DEF WriteRegister, Return, GoTo, Stored, Register, CalibrationBuffer, Register,
     TypeOK
<1>6. OkMeansOneSample'
  BY DEF WriteRegister, Return, GoTo, Stored, Register, OkMeansOneSample,
     MeasurementBuffer, Undisturbed, TypeOK
<1>7. OkMeansCalibrated'
  BY DEF WriteRegister, Return, GoTo, Stored, Register, OkMeansCalibrated,
     CalibrationBuffer, Undisturbed, TypeOK
<1>8. FaultsDoNotLinger'
  BY DEF WriteRegister, Return, GoTo, Stored, Register, FaultsDoNotLinger,
     FaultsNoted, Undisturbed, TypeOK
<1> QED
  BY <1>1, <1>2, <1>3, <1>4, <1>5, <1>6, <1>7, <1>8 DEF IInv

LEMMA WriteConfigIInv == IInv /\ WriteConfig => IInv'
<1> SUFFICES ASSUME IInv, WriteConfig PROVE IInv'
  OBVIOUS
<1> USE DEF IInv
<1>1. TypeOK'
  BY OriginFacts DEF WriteConfig, Return, GoTo, Stored, TypeOK, Statuses
<1>2. Undisturbed'
  BY DEF WriteConfig, Return, GoTo, Stored, Undisturbed, Register, TypeOK
<1>3. FaultsNoted'
  BY DEF WriteConfig, Return, GoTo, Stored, FaultsNoted, TypeOK
<1>4. MeasurementBuffer'
  BY DEF WriteConfig, Return, GoTo, Stored, MeasurementBuffer, Register, TypeOK
<1>5. CalibrationBuffer'
  BY DEF WriteConfig, Return, GoTo, Stored, CalibrationBuffer, Register, TypeOK
<1>6. OkMeansOneSample'
  BY DEF WriteConfig, Return, GoTo, Stored, OkMeansOneSample, MeasurementBuffer,
     Undisturbed, TypeOK
<1>7. OkMeansCalibrated'
  BY DEF WriteConfig, Return, GoTo, Stored, OkMeansCalibrated, CalibrationBuffer,
     Undisturbed, TypeOK
<1>8. FaultsDoNotLinger'
  BY DEF WriteConfig, Return, GoTo, Stored, FaultsDoNotLinger, FaultsNoted,
     Undisturbed, TypeOK
<1> QED
  BY <1>1, <1>2, <1>3, <1>4, <1>5, <1>6, <1>7, <1>8 DEF IInv

LEMMA RestartIInv == IInv /\ Restart => IInv'
<1> SUFFICES ASSUME IInv, Restart PROVE IInv'
  OBVIOUS
<1> USE DEF IInv
<1>1. TypeOK'
  <2>1. /\ call' \in {"config", "calibration", "measurement"}
       /\ stage' \in {"address", "register", "restart", "first", "rest"}
       /\ error' \in Statuses
    BY DEF Restart, Return, GoTo, Stored, TypeOK, Statuses, Register
  <2>2. cal' \subseteq Origins
    BY DEF Restart, Return, GoTo, Stored, TypeOK, Statuses, Register
  <2>3. buffer' \subseteq Origins
    BY OriginFacts DEF Restart, Return, GoTo, Stored, TypeOK, Statuses, Register
  <2>4. pointer' \in {"CTRL_MEAS", "CAL0", "PRESS_MSB", "elsewhere"}
    BY DEF Restart, Return, GoTo, Stored, TypeOK, Statuses, Register
  <2>5. current' \in 0 .. MaxSample /\ shadow' \in 0 .. MaxSample
    BY DEF Restart, Return, GoTo, Stored, TypeOK, Statuses, Register
  <2>6. /\ awake' \in BOOLEAN /\ contact' \in BOOLEAN
       /\ lost' \in BOOLEAN /\ absent' \in BOOLEAN
    BY Zenon DEF Restart, Return, GoTo, Stored, TypeOK, Statuses, Register
  <2>7. boot' \in [status : Statuses, lost : BOOLEAN]
    BY DEF Restart, Return, GoTo, Stored, TypeOK, Statuses, Register
  <2>8. meas' \in [status : Statuses, lost : BOOLEAN, absent : BOOLEAN,
                 data : SUBSET Origins]
    BY DEF Restart, Return, GoTo, Stored, TypeOK, Statuses, Register
  <2> QED
    BY <2>1, <2>2, <2>3, <2>4, <2>5, <2>6, <2>7, <2>8 DEF TypeOK
<1>2. Undisturbed'
  BY DEF Restart, Return, GoTo, Stored, Undisturbed, Register, TypeOK
<1>3. FaultsNoted'
  BY DEF Restart, Return, GoTo, Stored, FaultsNoted, TypeOK
<1>4. MeasurementBuffer'
  BY DEF Restart, Return, GoTo, Stored, MeasurementBuffer, Register, TypeOK
<1>5. CalibrationBuffer'
  BY DEF Restart, Return, GoTo, Stored, CalibrationBuffer, Register, TypeOK
<1>6. OkMeansOneSample'
  BY DEF Restart, Return, GoTo, Stored, OkMeansOneSample, MeasurementBuffer,
     Undisturbed, TypeOK
<1>7. OkMeansCalibrated'
  BY DEF Restart, Return, GoTo, Stored, OkMeansCalibrated, CalibrationBuffer,
     Undisturbed, TypeOK
<1>8. FaultsDoNotLinger'
  BY DEF Restart, Return, GoTo, Stored, FaultsDoNotLinger, FaultsNoted, Undisturbed,
     TypeOK
<1> QED
  BY <1>1, <1>2, <1>3, <1>4, <1>5, <1>6, <1>7, <1>8 DEF IInv

LEMMA ReadFirstIInv == IInv /\ ReadFirst => IInv'
<1> SUFFICES ASSUME IInv, ReadFirst PROVE IInv'
  OBVIOUS
<1> USE DEF IInv
<1>1. TypeOK'
  BY ReceivedFacts DEF ReadFirst, GoTo, Stored, TypeOK, Statuses
<1>2. Undisturbed'
  BY DEF ReadFirst, GoTo, Stored, Undisturbed, Register, TypeOK
<1>3. FaultsNoted'
  BY DEF ReadFirst, GoTo, Stored, FaultsNoted, TypeOK
<1>4. MeasurementBuffer'
  <2>1. stage' = "rest" /\ UNCHANGED <<call, lost, shadow>>
    BY DEF ReadFirst, GoTo
  <2>2. CASE call = "measurement"
    <3>1. buffer' = {Received} \cup Stack
      BY <2>2 DEF ReadFirst, GoTo, Stored, MeasurementBuffer
    <3>2. ~lost => Received = Byte("PRESS_MSB", shadow)
      BY <2>2, ReceivedFacts DEF ReadFirst, Undisturbed, Register
    <3> QED
      BY <2>1, <2>2, <3>1, <3>2 DEF MeasurementBuffer
  <2>3. CASE call # "measurement"
    BY <2>1, <2>3 DEF ReadFirst, GoTo, MeasurementBuffer
  <2> QED
    BY <2>2, <2>3
<1>5. CalibrationBuffer'
  <2>1. stage' = "rest" /\ UNCHANGED <<call, lost, boot>> /\ call # "config"
    BY DEF ReadFirst, GoTo
  <2>2. CASE call = "calibration"
    <3>1. cal' = {Received} \cup {Byte("zero", 0)}
      BY <2>2 DEF ReadFirst, GoTo, Stored, CalibrationBuffer
    <3>2. ~lost => Received = Byte("CAL0", 0)
      BY <2>2, ReceivedFacts DEF ReadFirst, Undisturbed, Register
    <3> QED
      BY <2>1, <2>2, <3>1, <3>2 DEF CalibrationBuffer
  <2>3. CASE call # "calibration"
    BY <2>1, <2>3 DEF CalibrationBuffer
  <2> QED
    BY <2>2, <2>3
<1>6. OkMeansOneSample'
  BY DEF ReadFirst, GoTo, Stored, OkMeansOneSample, MeasurementBuffer, Undisturbed,
     TypeOK
<1>7. OkMeansCalibrated'
  BY DEF ReadFirst, GoTo, Stored, OkMeansCalibrated, CalibrationBuffer, Undisturbed,
     TypeOK
<1>8. FaultsDoNotLinger'
  BY DEF ReadFirst, GoTo, Stored, FaultsDoNotLinger, FaultsNoted, Undisturbed, TypeOK
<1> QED
  BY <1>1, <1>2, <1>3, <1>4, <1>5, <1>6, <1>7, <1>8 DEF IInv

LEMMA ReadRestIInv == IInv /\ ReadRest => IInv'
<1> SUFFICES ASSUME IInv, ReadRest PROVE IInv'
  OBVIOUS
<1> USE DEF IInv
<1>1. TypeOK'
  <2>1. /\ call' \in {"config", "calibration", "measurement"}
       /\ stage' \in {"address", "register", "restart", "first", "rest"}
       /\ error' \in Statuses
    BY DEF ReadRest, Return, Stored, TypeOK, Statuses, Register
  <2>2. cal' \subseteq Origins
    BY ReceivedFacts DEF ReadRest, Return, Stored, TypeOK, Statuses, Register
  <2>3. buffer' \subseteq Origins
    BY OriginFacts DEF ReadRest, Return, Stored, TypeOK, Statuses, Register
  <2>4. pointer' \in {"CTRL_MEAS", "CAL0", "PRESS_MSB", "elsewhere"}
    BY DEF ReadRest, Return, Stored, TypeOK, Statuses, Register
  <2>5. current' \in 0 .. MaxSample /\ shadow' \in 0 .. MaxSample
    BY DEF ReadRest, Return, Stored, TypeOK, Statuses, Register
  <2>6. /\ awake' \in BOOLEAN /\ contact' \in BOOLEAN
       /\ lost' \in BOOLEAN /\ absent' \in BOOLEAN
    BY Zenon DEF ReadRest, Return, Stored, TypeOK, Statuses, Register
  <2>7. boot' \in [status : Statuses, lost : BOOLEAN]
    BY DEF ReadRest, Return, Stored, TypeOK, Statuses, Register
  <2>8. meas' \in [status : Statuses, lost : BOOLEAN, absent : BOOLEAN,
                 data : SUBSET Origins]
    BY ReceivedFacts DEF ReadRest, Return, Stored, TypeOK, Statuses, Register
  <2> QED
    BY <2>1, <2>2, <2>3, <2>4, <2>5, <2>6, <2>7, <2>8 DEF TypeOK
<1>2. Undisturbed'
  BY DEF ReadRest, Return, Stored, Undisturbed, Register, TypeOK
<1>3. FaultsNoted'
  BY DEF ReadRest, Return, Stored, FaultsNoted, TypeOK
<1>4. MeasurementBuffer'
  BY DEF ReadRest, Return, Stored, MeasurementBuffer, Register, TypeOK
<1>5. CalibrationBuffer'
  BY DEF ReadRest, Return, Stored, CalibrationBuffer, Register, TypeOK
<1>6. OkMeansOneSample'
  <2>1. CASE call # "measurement"
    BY <2>1 DEF ReadRest, Return, OkMeansOneSample
  <2>2. CASE call = "measurement" /\ lost
    BY <2>2 DEF ReadRest, Return, OkMeansOneSample
  <2>3. CASE call = "measurement" /\ ~lost
    <3>1. Received = Byte("PRESS_MSB", shadow)
      BY <2>3, ReceivedFacts DEF ReadRest, Undisturbed, Register
    <3>2. buffer = {Received} \cup Stack
      BY <2>3, <3>1 DEF ReadRest, MeasurementBuffer
    <3>3. {b \in buffer : b.reg \notin {"stack", "zero"}} \subseteq {Received}
      BY <3>2, OriginFacts
    <3>4. meas'.data = {Received} \cup {b \in buffer : b.reg \notin {"stack", "zero"}}
      BY <2>3 DEF ReadRest, Return, Stored
    <3>5. meas'.data = {Received}
      BY <3>3, <3>4
    <3>6. Received \in Samples
      BY <3>1, OriginFacts DEF TypeOK
    <3> QED
      BY <3>5, <3>6 DEF OkMeansOneSample
  <2> QED
    BY <2>1, <2>2, <2>3
<1>7. OkMeansCalibrated'
  <2>1. CASE call # "calibration"
    BY <2>1 DEF ReadRest, Return, OkMeansCalibrated
  <2>2. CASE call = "calibration" /\ lost
    BY <2>2 DEF ReadRest, Return, OkMeansCalibrated
  <2>3. CASE call = "calibration" /\ ~lost
    <3>1. Received = Byte("CAL0", 0)
      BY <2>3, ReceivedFacts DEF ReadRest, Undisturbed, Register
    <3>2. cal = {Received, Byte("zero", 0)}
      BY <2>3, <3>1 DEF ReadRest, CalibrationBuffer
    <3>3. {b \in cal : b.reg \notin {"stack", "zero"}} \subseteq {Received}
      BY <3>2, OriginFacts
    <3>4. cal' = {Received} \cup {b \in cal : b.reg \notin {"stack", "zero"}}
      BY <2>3 DEF ReadRest, Return, Stored
    <3> QED
      BY <3>1, <3>3, <3>4 DEF OkMeansCalibrated
  <2> QED
    BY <2>1, <2>2, <2>3
<1>8. FaultsDoNotLinger'
  BY DEF ReadRest, Return, Stored, FaultsDoNotLinger, FaultsNoted, Undisturbed, TypeOK
<1> QED
  BY <1>1, <1>2, <1>3, <1>4, <1>5, <1>6, <1>7, <1>8 DEF IInv

LEMMA SampleIInv == IInv /\ Sample => IInv'
<1> SUFFICES ASSUME IInv, Sample PROVE IInv'
  OBVIOUS
<1> USE DEF IInv
<1>1. TypeOK'
  BY DEF Sample, TypeOK, Statuses
<1>2. Undisturbed'
  BY DEF Sample, Undisturbed, Register, TypeOK
<1>3. FaultsNoted'
  BY DEF Sample, FaultsNoted, TypeOK
<1>4. MeasurementBuffer'
  BY DEF Sample, MeasurementBuffer, Register, TypeOK
<1>5. CalibrationBuffer'
  BY DEF Sample, CalibrationBuffer, Register, TypeOK
<1>6. OkMeansOneSample'
  BY DEF Sample, OkMeansOneSample, MeasurementBuffer, Undisturbed, TypeOK
<1>7. OkMeansCalibrated'
  BY DEF Sample, OkMeansCalibrated, CalibrationBuffer, Undisturbed, TypeOK
<1>8. FaultsDoNotLinger'
  BY DEF Sample, FaultsDoNotLinger, FaultsNoted, Undisturbed, TypeOK
<1> QED
  BY <1>1, <1>2, <1>3, <1>4, <1>5, <1>6, <1>7, <1>8 DEF IInv

LEMMA UnplugIInv == IInv /\ Unplug => IInv'
<1> SUFFICES ASSUME IInv, Unplug PROVE IInv'
  OBVIOUS
<1> USE DEF IInv
<1>1. TypeOK'
  <2>1. /\ call' \in {"config", "calibration", "measurement"}
       /\ stage' \in {"address", "register", "restart", "first", "rest"}
       /\ error' \in Statuses
    BY DEF Unplug, TypeOK, Statuses, Register
  <2>2. cal' \subseteq Origins
    BY DEF Unplug, TypeOK, Statuses, Register
  <2>3. buffer' \subseteq Origins
    BY DEF Unplug, TypeOK, Statuses, Register
  <2>4. pointer' \in {"CTRL_MEAS", "CAL0", "PRESS_MSB", "elsewhere"}
    BY DEF Unplug, TypeOK, Statuses, Register
  <2>5. current' \in 0 .. MaxSample /\ shadow' \in 0 .. MaxSample
    BY DEF Unplug, TypeOK, Statuses, Register
  <2>6. /\ awake' \in BOOLEAN /\ contact' \in BOOLEAN
       /\ lost' \in BOOLEAN /\ absent' \in BOOLEAN
    BY Zenon DEF Unplug, TypeOK, Statuses, Register
  <2>7. boot' \in [status : Statuses, lost : BOOLEAN]
    BY DEF Unplug, TypeOK, Statuses, Register
  <2>8. meas' \in [status : Statuses, lost : BOOLEAN, absent : BOOLEAN,
                 data : SUBSET Origins]
    BY DEF Unplug, TypeOK, Statuses, Register
  <2> QED
    BY <2>1, <2>2, <2>3, <2>4, <2>5, <2>6, <2>7, <2>8 DEF TypeOK
<1>2. Undisturbed'
  BY DEF Unplug, Undisturbed, Register, TypeOK
<1>3. FaultsNoted'
  BY DEF Unplug, FaultsNoted, TypeOK
<1>4. MeasurementBuffer'
  BY DEF Unplug, MeasurementBuffer, Register, TypeOK
<1>5. CalibrationBuffer'
  BY DEF Unplug, CalibrationBuffer, Register, TypeOK
<1>6. OkMeansOneSample'
  BY DEF Unplug, OkMeansOneSample, MeasurementBuffer, Undisturbed, TypeOK
<1>7. OkMeansCalibrated'
  BY DEF Unplug, OkMeansCalibrated, CalibrationBuffer, Undisturbed, TypeOK
<1>8. FaultsDoNotLinger'
  BY DEF Unplug, FaultsDoNotLinger, FaultsNoted, Undisturbed, TypeOK
<1> QED
  BY <1>1, <1>2, <1>3, <1>4, <1>5, <1>6, <1>7, <1>8 DEF IInv

LEMMA PlugIInv == IInv /\ Plug => IInv'
<1> SUFFICES ASSUME IInv, Plug PROVE IInv'
  OBVIOUS
<1> USE DEF IInv
<1>1. TypeOK'
  BY DEF Plug, TypeOK, Statuses
<1>2. Undisturbed'
  BY DEF Plug, Undisturbed, Register, TypeOK
<1>3. FaultsNoted'
  BY DEF Plug, FaultsNoted, TypeOK
<1>4. MeasurementBuffer'
  BY DEF Plug, MeasurementBuffer, Register, TypeOK
<1>5. CalibrationBuffer'
  BY DEF Plug, CalibrationBuffer, Register, TypeOK
<1>6. OkMeansOneSample'
  BY DEF Plug, OkMeansOneSample, MeasurementBuffer, Undisturbed, TypeOK
<1>7. OkMeansCalibrated'
  BY DEF Plug, OkMeansCalibrated, CalibrationBuffer, Undisturbed, TypeOK
<1>8. FaultsDoNotLinger'
  BY DEF Plug, FaultsDoNotLinger, FaultsNoted, Undisturbed, TypeOK
<1> QED
  BY <1>1, <1>2, <1>3, <1>4, <1>5, <1>6, <1>7, <1>8 DEF IInv

LEMMA PowerFailIInv == IInv /\ PowerFail => IInv'
<1> SUFFICES ASSUME IInv, PowerFail PROVE IInv'
  OBVIOUS
<1> USE DEF IInv
<1>1. TypeOK'
  <2>1. /\ call' \in {"config", "calibration", "measurement"}
       /\ stage' \in {"address", "register", "restart", "first", "rest"}
       /\ error' \in Statuses
    BY DEF PowerFail, TypeOK, Statuses, Register
  <2>2. cal' \subseteq Origins
    BY DEF PowerFail, TypeOK, Statuses, Register
  <2>3. buffer' \subseteq Origins
    BY DEF PowerFail, TypeOK, Statuses, Register
  <2>4. pointer' \in {"CTRL_MEAS", "CAL0", "PRESS_MSB", "elsewhere"}
    BY DEF PowerFail, TypeOK, Statuses, Register
  <2>5. current' \in 0 .. MaxSample /\ shadow' \in 0 .. MaxSample
    BY DEF PowerFail, TypeOK, Statuses, Register
  <2>6. /\ awake' \in BOOLEAN /\ contact' \in BOOLEAN
       /\ lost' \in BOOLEAN /\ absent' \in BOOLEAN
    BY Zenon DEF PowerFail, TypeOK, Statuses, Register
  <2>7. boot' \in [status : Statuses, lost : BOOLEAN]
    BY DEF PowerFail, TypeOK, Statuses, Register
  <2>8. meas' \in [status : Statuses, lost : BOOLEAN, absent : BOOLEAN,
                 data : SUBSET Origins]
    BY DEF PowerFail, TypeOK, Statuses, Register
  <2> QED
    BY <2>1, <2>2, <2>3, <2>4, <2>5, <2>6, <2>7, <2>8 DEF TypeOK
<1>2. Undisturbed'
  BY DEF PowerFail, Undisturbed, Register, TypeOK
<1>3. FaultsNoted'
  BY DEF PowerFail, FaultsNoted, TypeOK
<1>4. MeasurementBuffer'
  BY DEF PowerFail, MeasurementBuffer, Register, TypeOK
<1>5. CalibrationBuffer'
  BY DEF PowerFail, CalibrationBuffer, Register, TypeOK
<1>6. OkMeansOneSample'
  BY DEF PowerFail, OkMeansOneSample, MeasurementBuffer, Undisturbed, TypeOK
<1>7. OkMeansCalibrated'
  BY DEF PowerFail, OkMeansCalibrated, CalibrationBuffer, Undisturbed, TypeOK
<1>8. FaultsDoNotLinger'
  BY DEF PowerFail, FaultsDoNotLinger, FaultsNoted, Undisturbed, TypeOK
<1> QED
  BY <1>1, <1>2, <1>3, <1>4, <1>5, <1>6, <1>7, <1>8 DEF IInv

LEMMA NextIInv == IInv /\ [Next]_vars => IInv'
<1> SUFFICES ASSUME IInv, [Next]_vars PROVE IInv'
  OBVIOUS
<1>1. CASE AddressRefused
  BY <1>1, AddressRefusedIInv
<1>2. CASE AddressTaken
  BY <1>2, AddressTakenIInv
<1>3. CASE WriteRegister
  BY <1>3, WriteRegisterIInv
<1>4. CASE WriteConfig
  BY <1>4, WriteConfigIInv
<1>5. CASE Restart
  BY <1>5, RestartIInv
<1>6. CASE ReadFirst
  BY <1>6, ReadFirstIInv
<1>7. CASE ReadRest
  BY <1>7, ReadRestIInv
<1>8. CASE Sample
  BY <1>8, SampleIInv
<1>9. CASE Unplug
  BY <1>9, UnplugIInv
<1>10. CASE Plug
  BY <1>10, PlugIInv
<1>11. CASE PowerFail
  BY <1>11, PowerFailIInv
<1>12. CASE UNCHANGED vars
  BY <1>12 DEF vars, IInv, TypeOK, Undisturbed, Register, FaultsNoted,
     MeasurementBuffer,
     CalibrationBuffer, OkMeansOneSample, OkMeansCalibrated, FaultsDoNotLinger
<1> QED
  BY <1>1, <1>2, <1>3, <1>4, <1>5, <1>6, <1>7, <1>8, <1>9, <1>10, <1>11, <1>12 DEF Next

\* The inductive invariant holds in every reachable state.
THEOREM Invariance == Spec => []IInv
BY InitIInv, NextIInv, PTL DEF Spec

\* Driver, I2C.c and sensor stay in their ranges.
THEOREM TypeCorrect == Spec => []TypeOK
<1>1. IInv => TypeOK
  BY DEF IInv
<1> QED
  BY <1>1, Invariance, PTL

\* A measurement that I2C.c reports good is one sample, unless the sensor went
\* away during it.
THEOREM MeasurementsCoherent == Spec => []OkMeansOneSample
<1>1. IInv => OkMeansOneSample
  BY DEF IInv
<1> QED
  BY <1>1, Invariance, PTL

\* The calibration is the sensor's if its transfer was reported good.
THEOREM CalibrationGenuine == Spec => []OkMeansCalibrated
<1>1. IInv => OkMeansCalibrated
  BY DEF IInv
<1> QED
  BY <1>1, Invariance, PTL

\* No fault outlasts the call it hits.
THEOREM FaultsEnd == Spec => []FaultsDoNotLinger
<1>1. IInv => FaultsDoNotLinger
  BY DEF IInv
<1> QED
  BY <1>1, Invariance, PTL
=============================================================================
