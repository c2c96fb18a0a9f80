-------------------------- MODULE OutdoorTemperature --------------------------
(***************************************************************************)
(* The way of the outdoor temperature: from the two scratchpad bytes of    *)
(* the DS18B20 (DS18B20.c) into the average of the window (average.c) and  *)
(* from there into the report (ESP.c).  On the way it is a two's           *)
(* complement number of sixteenths of a degree, then a sign with an        *)
(* integer and a fraction in uint8_t, then a number of hundredths.         *)
(***************************************************************************)
EXTENDS CArithmetic

CONSTANTS
  Readings,     \* the temperatures the sensor may report, in 1/16 degree
  MaxReadings   \* readings of one window

\* The range of the DS18B20: -55 to 125 degrees.
SensorRange == -880 .. 2000

\* The sum of a window of this many readings fits temp_sum, an int32_t.
ASSUME OutdoorAssumption ==
  /\ Readings \subseteq SensorRange
  /\ MaxReadings \in 1 .. 65535

VARIABLES
  raw,       \* what the sensor measured last, in 1/16 degree
  meas,      \* DS18B20_meas
  temp_sum,  \* DS18B20_avg.temp_sum
  meas_num,  \* DS18B20_avg.meas_num
  meas_avg,  \* DS18B20_meas_avg
  lowest,    \* history: the least reading in the average, in 1/100 degree
  highest    \* history: the greatest reading in the average

vars == <<raw, meas, temp_sum, meas_num, meas_avg, lowest, highest>>

-----------------------------------------------------------------------------
Byte == 0 .. 255
IntegerPart == 0 .. 127     \* 7 bits
FractionPart == 0 .. 99     \* two decimal digits

\* The scratchpad: 16 bits in two's complement, in two bytes.
Register(r) == IF r < 0 THEN 65536 + r ELSE r
Lsb(r) == Register(r) % 256
Msb(r) == Register(r) \div 256

Measurement(sign, integer, fraction) ==
  [sign |-> sign, integer |-> integer, fraction |-> fraction]

\* Mutant: the sixteenths are taken for hundredths.
DecodeMagnitudeUnscaled(msb, lsb) ==
  [integer |-> (msb * 16 + lsb \div 16) % 128, fraction |-> lsb % 16]

\* (uint8_t)(((msb << 4) | (lsb >> 4)) & 0x7F) and ((lsb & 0x0F) * 625) / 100
DecodeMagnitude(msb, lsb) ==
  [integer |-> (msb * 16 + lsb \div 16) % 128,
   fraction |-> ((lsb % 16) * 625) \div 100]

DS18B20_get_temperature(msb, lsb) ==
  LET magnitude == IF msb >= 128
                     THEN DecodeMagnitude(255 - msb, Uint8(256 - lsb))
                     ELSE DecodeMagnitude(msb, lsb)
  IN Measurement(IF msb >= 128 THEN "NEGATIVE" ELSE "POSITIVE",
                 magnitude.integer, magnitude.fraction)

\* integer * 100 + fraction
Joined(integer, fraction) == integer * 100 + fraction

\* The value average_update_DS18B20() and ESP_prepare_json() make of a struct.
Hundredths(m) ==
  IF m.sign = "NEGATIVE" THEN -Joined(m.integer, m.fraction)
                         ELSE Joined(m.integer, m.fraction)

\* What average_update_DS18B20() stores: both parts through a uint8_t.
AverageStruct(average) ==
  Measurement(IF average >= 0 THEN "POSITIVE" ELSE "NEGATIVE",
              Uint8(CDiv(average, 100)), Uint8(CMod(average, 100)))

-----------------------------------------------------------------------------
\* The structs are not initialised; Measure is what first gives them a value.
Init ==
  /\ raw = 0
  /\ meas = Measurement("POSITIVE", 0, 0)
  /\ temp_sum = 0
  /\ meas_num = 0
  /\ meas_avg = Measurement("POSITIVE", 0, 0)
  /\ lowest = 0
  /\ highest = 0

Lesser(a, b) == IF a < b THEN a ELSE b
Greater(a, b) == IF a > b THEN a ELSE b

\* GET_MEASUREMENT: DS18B20_get_temperature(), then average_update_DS18B20().
\* raw' is what the conversion requested in the cycle before has yielded.
Measure ==
  /\ meas_num < MaxReadings
  /\ raw' \in Readings
  /\ meas' = DS18B20_get_temperature(Msb(raw'), Lsb(raw'))
  /\ temp_sum' = temp_sum + Hundredths(meas')
  /\ meas_num' = meas_num + 1
  /\ meas_avg' = AverageStruct(CDiv(temp_sum', meas_num'))
  /\ lowest' = IF meas_num = 0 THEN Hundredths(meas')
                               ELSE Lesser(lowest, Hundredths(meas'))
  /\ highest' = IF meas_num = 0 THEN Hundredths(meas')
                                ELSE Greater(highest, Hundredths(meas'))

\* Mutant: the sum survives the reset.
SendKeepsSum ==
  /\ meas_num > 0
  /\ meas_num' = 0
  /\ UNCHANGED <<raw, meas, temp_sum, meas_avg, lowest, highest>>

\* SEND_DATA: Hundredths(meas_avg) is reported, then average_reset() is
\* called.  There is always a reading to report (FreshUpload of Station).
Send ==
  /\ meas_num > 0
  /\ temp_sum' = 0
  /\ meas_num' = 0
  /\ UNCHANGED <<raw, meas, meas_avg, lowest, highest>>

Next == Measure \/ Send

Spec == Init /\ [][Next]_vars

-----------------------------------------------------------------------------
\* Every number stays in the width the program gives it.
TypeOK ==
  /\ raw \in SensorRange
  /\ meas.integer \in IntegerPart /\ meas.fraction \in FractionPart
  /\ meas_num \in 0 .. MaxReadings
  /\ temp_sum \in -(12799 * meas_num) .. 12799 * meas_num
  /\ meas_avg.integer \in Byte /\ meas_avg.fraction \in Byte

\* "If temperature is negative, convert it to positive" (DS18B20.c:29): the
\* struct holds the temperature the sensor measured, cut to hundredths.  The
\* conversion complements the two bytes apart from each other and drops the
\* carry into the upper one; a carry occurs at the multiples of -16 degrees
\* only, where the struct is 16 degrees too low.
DecodeExactUnlessCarry ==
  ~(raw < 0 /\ Lsb(raw) = 0) => Hundredths(meas) = CDiv(raw * 100, 16)

\* "Send as one value, representing temperature * 100" (ESP.c:73): the report
\* lies between the extremes of the readings it is the average of.
AverageWithin == meas_num > 0 => Hundredths(meas_avg) \in lowest .. highest

\* An average of zero or more survives its way through the uint8_t fields,
\* also when some of the readings were below zero.
AverageWithinUnlessNegative ==
  meas_num > 0 /\ temp_sum >= 0 => Hundredths(meas_avg) \in lowest .. highest
=============================================================================
