---------------------------- MODULE OutdoorProofs ----------------------------
(***************************************************************************)
(* The outdoor temperature for every reading of the sensor and windows of  *)
(* every admissible length.                                                *)
(***************************************************************************)
EXTENDS OutdoorTemperature, TLAPS

-----------------------------------------------------------------------------
\* The arithmetic of the conversion, on plain numbers.

\* Seven bits of degrees and four of sixteenths make hundredths of a degree.
LEMMA Sixteenths ==
  ASSUME NEW m \in Int, NEW l \in Int, 0 <= m, m <= 7, 0 <= l, l <= 255
  PROVE  Joined((m * 16 + l \div 16) % 128, ((l % 16) * 625) \div 100)
           = ((m * 256 + l) * 100) \div 16
  <1>1. (m * 16 + l \div 16) % 128 = m * 16 + l \div 16
    OBVIOUS
  <1>2. (m * 16 + l \div 16) * 100 + ((l % 16) * 625) \div 100
          = ((m * 256 + l) * 100) \div 16
    OBVIOUS
  <1>3. QED
    BY <1>1, <1>2 DEF Joined

LEMMA Complement ==
  ASSUME NEW n \in Int, 0 < n, n <= 880, (65536 - n) % 256 # 0
  PROVE  (65536 - n) % 256 = 256 - (n % 256)
  OBVIOUS

LEMMA NoCarry ==
  ASSUME NEW n \in Int, 0 < n, n <= 880, (65536 - n) % 256 # 0
  PROVE  n % 256 # 0
  OBVIOUS

LEMMA UpperByte ==
  ASSUME NEW n \in Int, 0 < n, n <= 880, n % 256 # 0
  PROVE  (65536 - n) \div 256 = 255 - n \div 256
  OBVIOUS

\* Away from the multiples of 256, complementing the bytes one by one negates.
LEMMA NegativeBytes ==
  ASSUME NEW n \in Int, 0 < n, n <= 880, Lsb(-n) # 0
  PROVE  /\ Msb(-n) = 255 - n \div 256
         /\ Uint8(256 - Lsb(-n)) = n % 256
  <1>1. Register(-n) = 65536 - n
    BY DEF Register
  <1>2. n % 256 # 0
    BY <1>1, NoCarry DEF Lsb
  <1>3. Lsb(-n) = 256 - (n % 256)
    BY <1>1, Complement DEF Lsb
  <1>4. (65536 - n) \div 256 = 255 - n \div 256
    BY <1>2, UpperByte
  <1>5. Msb(-n) = 255 - n \div 256
    BY <1>1, <1>4 DEF Msb
  <1>6. 0 <= n % 256 /\ n % 256 < 256 /\ n % 256 \in Int
    OBVIOUS
  <1>7. Uint8(256 - Lsb(-n)) = n % 256
    BY <1>2, <1>3, <1>6 DEF Uint8
  <1>8. QED
    BY <1>5, <1>7

LEMMA Bytes ==
  ASSUME NEW n \in Int, 0 <= n, n <= 2000
  PROVE  /\ 0 <= n \div 256 /\ n \div 256 <= 7
         /\ 0 <= n % 256 /\ n % 256 <= 255
         /\ (n \div 256) * 256 + (n % 256) = n
  <1>1. 0 <= n \div 256
    OBVIOUS
  <1>2. n \div 256 <= 7
    OBVIOUS
  <1>3. 0 <= n % 256
    OBVIOUS
  <1>4. n % 256 <= 255
    OBVIOUS
  <1>5. (n \div 256) * 256 + (n % 256) = n
    OBVIOUS
  <1>6. QED
    BY <1>1, <1>2, <1>3, <1>4, <1>5

-----------------------------------------------------------------------------
\* DS18B20_get_temperature() is exact for every temperature the sensor can
\* report, except where its conversion of negative numbers loses the carry.
THEOREM DecodeIsExact ==
  ASSUME NEW r \in SensorRange, ~(r < 0 /\ Lsb(r) = 0)
  PROVE  Hundredths(DS18B20_get_temperature(Msb(r), Lsb(r))) = CDiv(r * 100, 16)
  <1>1. r \in Int /\ -880 <= r /\ r <= 2000
    BY DEF SensorRange
  <1>2. CASE r >= 0
    <2>1. Msb(r) = r \div 256 /\ Lsb(r) = r % 256
      BY <1>1, <1>2 DEF Msb, Lsb, Register
    <2>2. /\ Msb(r) \in Int /\ 0 <= Msb(r) /\ Msb(r) <= 7
          /\ Lsb(r) \in Int /\ 0 <= Lsb(r) /\ Lsb(r) <= 255
          /\ Msb(r) * 256 + Lsb(r) = r
      BY <1>1, <1>2, <2>1, Bytes
    <2>3. Joined((Msb(r) * 16 + Lsb(r) \div 16) % 128,
                 ((Lsb(r) % 16) * 625) \div 100) = (r * 100) \div 16
      BY <2>2, Sixteenths
    <2>4. ~(Msb(r) >= 128)
      BY <2>2
    <2>5. Hundredths(DS18B20_get_temperature(Msb(r), Lsb(r))) = (r * 100) \div 16
      BY <2>3, <2>4
      DEF Hundredths, DS18B20_get_temperature, Measurement, DecodeMagnitude
    <2>6. QED
      BY <1>1, <1>2, <2>5 DEF CDiv
  <1>3. CASE r < 0
    <2> DEFINE n == -r
               m == 255 - Msb(r)
               l == Uint8(256 - Lsb(r))
    <2>1. n \in Int /\ 0 < n /\ n <= 880 /\ r = -n
      BY <1>1, <1>3
    <2> HIDE DEF n
    <2>2. Msb(r) = 255 - n \div 256 /\ l = n % 256
      BY <1>3, <2>1, NegativeBytes
    <2>3. /\ 0 <= n \div 256 /\ n \div 256 <= 7
          /\ 0 <= n % 256 /\ n % 256 <= 255
          /\ (n \div 256) * 256 + (n % 256) = n
      BY <2>1, Bytes
    <2>4. m = n \div 256 /\ Msb(r) >= 128
      BY <2>1, <2>2, <2>3
    <2>5. Joined(((n \div 256) * 16 + (n % 256) \div 16) % 128,
                 (((n % 256) % 16) * 625) \div 100) = (n * 100) \div 16
      BY <2>1, <2>3, Sixteenths
    <2>6. Joined((m * 16 + l \div 16) % 128, ((l % 16) * 625) \div 100)
            = (n * 100) \div 16
      BY <2>2, <2>4, <2>5
    <2>7. Hundredths(DS18B20_get_temperature(Msb(r), Lsb(r))) = -((n * 100) \div 16)
      BY <2>4, <2>6
      DEF Hundredths, DS18B20_get_temperature, Measurement, DecodeMagnitude
    <2>8. QED
      BY <1>3, <2>1, <2>7 DEF CDiv
  <1>4. QED
    BY <1>1, <1>2, <1>3

-----------------------------------------------------------------------------
\* What the sensor measured last and what the program made of it belong
\* together in every state.
Decoded ==
  /\ raw \in SensorRange
  /\ meas = DS18B20_get_temperature(Msb(raw), Lsb(raw))

LEMMA DecodedAlways == Spec => []Decoded
  <1>1. Init => Decoded
    BY DEF Init, Decoded, SensorRange, DS18B20_get_temperature, DecodeMagnitude,
           Measurement, Msb, Lsb, Register
  <1>2. Decoded /\ [Next]_vars => Decoded'
    BY OutdoorAssumption DEF Decoded, Next, vars, Measure, Send
  <1>3. QED
    BY <1>1, <1>2, PTL DEF Spec

\* In every state the struct holds what the sensor measured, except at the
\* temperatures where the conversion loses the carry.
THEOREM DecodeCorrect == Spec => []DecodeExactUnlessCarry
  <1>1. Decoded => DecodeExactUnlessCarry
    BY DecodeIsExact DEF Decoded, DecodeExactUnlessCarry
  <1>2. QED
    BY <1>1, DecodedAlways, PTL

-----------------------------------------------------------------------------
\* The arithmetic of the average.

\* The field widths of DS18B20_meas_t bound what they make together.
LEMMA HundredthsBounded ==
  ASSUME NEW msb \in Int, NEW lsb \in Int
  PROVE  LET h == Hundredths(DS18B20_get_temperature(msb, lsb))
         IN  h \in Int /\ -12799 <= h /\ h <= 12799
  <1> DEFINE Fits(m) == /\ m.integer \in Int /\ 0 <= m.integer /\ m.integer <= 127
                        /\ m.fraction \in Int /\ 0 <= m.fraction /\ m.fraction <= 99
  <1>1. ASSUME NEW m \in Int, NEW l \in Int
        PROVE  Fits(DecodeMagnitude(m, l))
    <2>1. ASSUME NEW i \in Int PROVE i % 128 \in Int /\ 0 <= i % 128 /\ i % 128 <= 127
      OBVIOUS
    <2>2. (l % 16) \in Int /\ 0 <= l % 16 /\ l % 16 <= 15
      OBVIOUS
    <2>3. ASSUME NEW i \in Int, 0 <= i, i <= 15
          PROVE  /\ (i * 625) \div 100 \in Int
                 /\ 0 <= (i * 625) \div 100 /\ (i * 625) \div 100 <= 99
      BY <2>3
    <2>4. m * 16 + l \div 16 \in Int
      OBVIOUS
    <2>5. QED
      BY <2>1, <2>2, <2>3, <2>4 DEF DecodeMagnitude
  <1>2. ASSUME NEW i \in Int, 0 <= i, i <= 127, NEW f \in Int, 0 <= f, f <= 99
        PROVE  Joined(i, f) \in Int /\ 0 <= Joined(i, f) /\ Joined(i, f) <= 12799
    BY <1>2 DEF Joined
  <1>3. Uint8(256 - lsb) \in Int /\ 255 - msb \in Int
    BY DEF Uint8
  <1>4. Fits(DecodeMagnitude(255 - msb, Uint8(256 - lsb))) /\ Fits(DecodeMagnitude(msb, lsb))
    BY <1>1, <1>3
  <1>5. \A m : Fits(m) => Joined(m.integer, m.fraction) \in Int
                          /\ 0 <= Joined(m.integer, m.fraction)
                          /\ Joined(m.integer, m.fraction) <= 12799
    BY <1>2
  <1> HIDE DEF Fits
  <1> DEFINE m == IF msb >= 128 THEN DecodeMagnitude(255 - msb, Uint8(256 - lsb))
                                ELSE DecodeMagnitude(msb, lsb)
  <1>6. Fits(m)
    BY <1>4
  <1>7. Hundredths(DS18B20_get_temperature(msb, lsb))
          \in {Joined(m.integer, m.fraction), -Joined(m.integer, m.fraction)}
    BY DEF Hundredths, DS18B20_get_temperature, Measurement
  <1> HIDE DEF m
  <1>8. QED
    BY <1>5, <1>6, <1>7

LEMMA Quotient ==
  ASSUME NEW s \in Int, NEW n \in Int, 0 < n, 0 <= s
  PROVE  /\ s \div n \in Int /\ 0 <= s \div n
         /\ (s \div n) * n <= s /\ s < (s \div n) * n + n
  <1>1. s \div n \in Int /\ 0 <= s \div n
    OBVIOUS
  <1>2. (s \div n) * n <= s
    OBVIOUS
  <1>3. s < (s \div n) * n + n
    OBVIOUS
  <1>4. QED
    BY <1>1, <1>2, <1>3

LEMMA Cancel ==
  ASSUME NEW a \in Int, NEW b \in Int, NEW n \in Int, 0 < n, a * n < b * n + n
  PROVE  a <= b
  <1>1. ASSUME b + 1 <= a
        PROVE  FALSE
    <2>1. 0 <= (a - (b + 1)) * n
      BY <1>1
    <2>2. (a - (b + 1)) * n = a * n - b * n - n
      OBVIOUS
    <2>3. QED
      BY <2>1, <2>2
  <1>2. QED
    BY <1>1

\* An average that is not negative lies between the extremes of its readings.
LEMMA AverageBetween ==
  ASSUME NEW least \in Int, NEW most \in Int, NEW s \in Int, NEW n \in Int,
         0 < n, 0 <= s, least * n <= s, s <= most * n
  PROVE  least <= s \div n /\ s \div n <= most
  <1> DEFINE q == s \div n
  <1>1. q \in Int /\ q * n <= s /\ s < q * n + n
    BY Quotient
  <1> HIDE DEF q
  <1>2. least * n < q * n + n /\ q * n < most * n + n
    BY <1>1
  <1>3. least <= q /\ q <= most
    BY <1>1, <1>2, Cancel
  <1>4. QED
    BY <1>3 DEF q

\* One more reading h keeps the sum between the extremes.
LEMMA StillAbove ==
  ASSUME NEW n \in Int, NEW s \in Int, NEW old \in Int, NEW new \in Int,
         NEW h \in Int, NEW n1 \in Int, NEW s1 \in Int, n1 = n + 1, s1 = s + h,
         0 < n, old * n <= s, new <= old, new <= h
  PROVE  new * n1 <= s1
  <1>1. new * n1 = new * n + new
    OBVIOUS
  <1>2. new * n <= old * n
    OBVIOUS
  <1>3. QED
    BY <1>1, <1>2

LEMMA StillBelow ==
  ASSUME NEW n \in Int, NEW s \in Int, NEW old \in Int, NEW new \in Int,
         NEW h \in Int, NEW n1 \in Int, NEW s1 \in Int, n1 = n + 1, s1 = s + h,
         0 < n, s <= old * n, old <= new, h <= new
  PROVE  s1 <= new * n1
  <1>1. new * n1 = new * n + new
    OBVIOUS
  <1>2. old * n <= new * n
    OBVIOUS
  <1>3. QED
    BY <1>1, <1>2

\* Both parts of such an average fit a uint8_t, so nothing of it is lost.
LEMMA StructExact ==
  ASSUME NEW a \in Int, 0 <= a, a <= 12799
  PROVE  Hundredths(AverageStruct(a)) = a
  <1>1. ((a \div 100) % 256) * 100 + ((a - 100 * (a \div 100)) % 256) = a
    OBVIOUS
  <1>2. Joined(Uint8(CDiv(a, 100)), Uint8(CMod(a, 100))) = a
    BY <1>1 DEF Joined, Uint8, CDiv, CMod
  <1>3. QED
    BY <1>2 DEF Hundredths, AverageStruct, Measurement

-----------------------------------------------------------------------------
\* The sum lies between the extremes times the number of readings, and the
\* struct is made of sum and number.
SumBetween ==
  /\ lowest * meas_num <= temp_sum
  /\ temp_sum <= highest * meas_num

Averaging ==
  /\ meas_num \in Int /\ 0 <= meas_num
  /\ temp_sum \in Int /\ lowest \in Int /\ highest \in Int
  /\ highest <= 12799
  /\ meas_num = 0 => temp_sum = 0
  /\ meas_num > 0 => /\ SumBetween
                     /\ meas_avg = AverageStruct(CDiv(temp_sum, meas_num))

LEMMA MeasureAverages ==
  ASSUME Averaging, Decoded, Measure
  PROVE  Averaging'
  <1> DEFINE h == Hundredths(meas')
  <1>1. h \in Int /\ h <= 12799
    <2>1. raw' \in SensorRange
      BY OutdoorAssumption DEF Measure
    <2>2. Msb(raw') \in Int /\ Lsb(raw') \in Int
      BY <2>1 DEF Msb, Lsb, Register, SensorRange
    <2>3. QED
      BY <2>2, HundredthsBounded DEF Measure
  <1>2. /\ temp_sum' = temp_sum + h /\ meas_num' = meas_num + 1
        /\ meas_avg' = AverageStruct(CDiv(temp_sum', meas_num'))
        /\ lowest' = (IF meas_num = 0 THEN h ELSE Lesser(lowest, h))
        /\ highest' = (IF meas_num = 0 THEN h ELSE Greater(highest, h))
    BY DEF Measure
  <1> HIDE DEF h
  <1>3. /\ lowest' \in Int /\ highest' \in Int /\ highest' <= 12799
        /\ lowest' <= h /\ h <= highest'
        /\ meas_num > 0 => lowest' <= lowest /\ highest <= highest'
    BY <1>1, <1>2 DEF Averaging, Lesser, Greater
  <1>4. CASE meas_num = 0
    BY <1>1, <1>2, <1>3, <1>4 DEF Averaging, SumBetween
  <1>5. CASE meas_num > 0
    <2>1. /\ meas_num \in Int /\ temp_sum \in Int
          /\ lowest \in Int /\ highest \in Int
          /\ lowest * meas_num <= temp_sum /\ temp_sum <= highest * meas_num
          /\ lowest' <= lowest /\ highest <= highest'
      BY <1>3, <1>5 DEF Averaging, SumBetween
    <2>2. meas_num' \in Int /\ temp_sum' \in Int
      BY <1>1, <1>2, <2>1
    <2>3. lowest' * meas_num' <= temp_sum'
      BY <1>1, <1>2, <1>3, <1>5, <2>1, <2>2, StillAbove
    <2>4. temp_sum' <= highest' * meas_num'
      BY <1>1, <1>2, <1>3, <1>5, <2>1, <2>2, StillBelow
    <2>5. QED
      BY <1>2, <1>3, <1>5, <2>1, <2>2, <2>3, <2>4 DEF Averaging, SumBetween
  <1>6. QED
    BY <1>4, <1>5 DEF Averaging

LEMMA AveragingAlways == Spec => []Averaging
  <1>1. Init => Averaging
    BY DEF Init, Averaging
  <1>2. Averaging /\ Decoded /\ [Next]_vars => Averaging'
    <2> SUFFICES ASSUME Averaging, Decoded, [Next]_vars
                 PROVE  Averaging'
      OBVIOUS
    <2>1. CASE Measure
      BY <2>1, MeasureAverages
    <2>2. CASE Send
      BY <2>2 DEF Averaging, Send
    <2>3. CASE UNCHANGED vars
      BY <2>3 DEF Averaging, SumBetween, vars
    <2>4. QED
      BY <2>1, <2>2, <2>3 DEF Next
  <1>3. QED
    BY <1>1, <1>2, DecodedAlways, PTL DEF Spec

\* Whatever the readings of a window are, an average that is not negative is
\* reported as a number between the least and the greatest of them.
THEOREM AverageCorrect == Spec => []AverageWithinUnlessNegative
  <1>1. Averaging => AverageWithinUnlessNegative
    <2> SUFFICES ASSUME Averaging, meas_num > 0, temp_sum >= 0
                 PROVE  Hundredths(meas_avg) \in lowest .. highest
      BY DEF AverageWithinUnlessNegative
    <2> DEFINE a == temp_sum \div meas_num
    <2>1. /\ meas_num \in Int /\ temp_sum \in Int /\ lowest \in Int
          /\ highest \in Int /\ highest <= 12799 /\ SumBetween
          /\ meas_avg = AverageStruct(CDiv(temp_sum, meas_num))
      BY DEF Averaging
    <2>2. a \in Int /\ 0 <= a
      BY <2>1, Quotient
    <2>3. lowest <= a /\ a <= highest
      BY <2>1, AverageBetween DEF SumBetween
    <2>4. meas_avg = AverageStruct(a)
      BY <2>1 DEF CDiv
    <2> HIDE DEF a
    <2>5. Hundredths(meas_avg) = a
      BY <2>1, <2>2, <2>3, <2>4, StructExact
    <2>6. QED
      BY <2>1, <2>2, <2>3, <2>5
  <1>2. QED
    BY <1>1, AveragingAlways, PTL
=============================================================================
