----------------------------- MODULE TextProofs -----------------------------
(***************************************************************************)
(* Proofs of what depends on the lengths of decimal numbers: the requests  *)
(* of EspLink, for all averages the sensors can have and any loss of       *)
(* bytes, and the texts of Display, for all that fit beside its labels.    *)
(*                                                                         *)
(* First the lengths: a function with the recursion of Digits is written   *)
(* down, so Digits, which is chosen among such functions, has it too, and  *)
(* bounds follow power of ten by power of ten.  Then the link: what the    *)
(* module still takes for data after a fault is less than a connect, an    *)
(* announcement and a request together.  Then the display: a text lies     *)
(* over the cells its length covers and leaves the others; each of the     *)
(* four texts stays in a field of its own, and reaches all of it or finds  *)
(* the rest blank.                                                         *)
(***************************************************************************)
EXTENDS EspInvariant, DisplayInvariant, SequenceTheorems, TLAPS

-----------------------------------------------------------------------------
\* The lengths of numbers.

\* The numbers in question are ints.
LEMMA Ints ==
  /\ \A n \in 0 .. MaxInt : n \in Nat /\ n <= MaxInt
  /\ \A n \in Nat : n < 10000000 => n \in 0 .. MaxInt
<1>1. \A m \in Nat : /\ \A k \in 0 .. m : k \in Nat /\ k <= m
                     /\ 10000000 <= m => \A k \in Nat : k < 10000000 => k \in 0 .. m
  BY SMT
<1>2. MaxInt \in Nat /\ 10000000 <= MaxInt
  BY SMT DEF MaxInt
<1> QED
  BY <1>1, <1>2, SMT

\* Division by ten.
LEMMA Tenths ==
  \A n \in 0 .. MaxInt :
    n \in Nat /\ n \div 10 \in Nat /\ n \div 10 \in 0 .. MaxInt /\ n \div 10 < 1000000000
<1>1. \A m \in Nat : \A k \in 0 .. m :
        k \in Nat /\ k <= m /\ k \div 10 \in Nat /\ k \div 10 \in 0 .. m
  BY SMT
<1>2. \A k \in Nat : k <= MaxInt => k \div 10 < 1000000000
  BY SMT DEF MaxInt
<1>3. MaxInt \in Nat
  BY SMT DEF MaxInt
<1> QED
  BY <1>1, <1>2, <1>3, SMT

\* Division by ten shifts every power of ten.
LEMMA TenthsBelow ==
  \A n \in Nat, k \in Nat \ {0} : n \div 10 < k <=> n < 10 * k
BY SMT

\* The digits of a number, in one look.
Thresholds == [n \in 0 .. MaxInt |->
  IF n < 10 THEN 1 ELSE IF n < 100 THEN 2 ELSE IF n < 1000 THEN 3
  ELSE IF n < 10000 THEN 4 ELSE IF n < 100000 THEN 5 ELSE IF n < 1000000 THEN 6
  ELSE IF n < 10000000 THEN 7 ELSE IF n < 100000000 THEN 8
  ELSE IF n < 1000000000 THEN 9 ELSE 10]

\* They satisfy the recursion of Digits, so there is a function that does.
LEMMA ThresholdsRecursive ==
  Thresholds = [n \in 0 .. MaxInt |-> IF n < 10 THEN 1 ELSE 1 + Thresholds[n \div 10]]
<1>1. ASSUME NEW n \in 0 .. MaxInt
      PROVE  Thresholds[n] = IF n < 10 THEN 1 ELSE 1 + Thresholds[n \div 10]
  <2>1. n \in Nat /\ n \div 10 \in 0 .. MaxInt /\ n \div 10 < 1000000000
    BY Tenths, SMT
  <2>2. /\ n \div 10 < 10 <=> n < 100
        /\ n \div 10 < 100 <=> n < 1000
        /\ n \div 10 < 1000 <=> n < 10000
        /\ n \div 10 < 10000 <=> n < 100000
    BY <2>1, TenthsBelow, SMT
  <2>3. /\ n \div 10 < 100000 <=> n < 1000000
        /\ n \div 10 < 1000000 <=> n < 10000000
        /\ n \div 10 < 10000000 <=> n < 100000000
        /\ n \div 10 < 100000000 <=> n < 1000000000
    BY <2>1, TenthsBelow, SMT
  <2> QED
    BY <2>1, <2>2, <2>3, SMT DEF Thresholds
<1>2. Thresholds = [n \in 0 .. MaxInt |-> Thresholds[n]]
  BY SMT DEF Thresholds
<1> QED
  BY <1>1, <1>2, Zenon

\* utoa() makes one digit of a number below ten, and one more of any other than
\* of its tenth.
LEMMA DigitsRecursive ==
  Digits = [n \in 0 .. MaxInt |-> IF n < 10 THEN 1 ELSE 1 + Digits[n \div 10]]
<1>1. \E d : d = [n \in 0 .. MaxInt |-> IF n < 10 THEN 1 ELSE 1 + d[n \div 10]]
  BY ThresholdsRecursive, Zenon
<1> QED
  BY <1>1, Zenon DEF Digits

\* The same for one number.
LEMMA DigitsStep ==
  ASSUME NEW n \in 0 .. MaxInt
  PROVE  Digits[n] = IF n < 10 THEN 1 ELSE 1 + Digits[n \div 10]
BY DigitsRecursive, Zenon

\* A number below a power of ten has as many digits at most.
LEMMA DigitsBelow ==
  /\ \A n \in Nat : n < 10 => Digits[n] \in Nat /\ 1 <= Digits[n] /\ Digits[n] <= 1
  /\ \A n \in Nat : n < 100 => Digits[n] \in Nat /\ 1 <= Digits[n] /\ Digits[n] <= 2
  /\ \A n \in Nat : n < 10000 => Digits[n] \in Nat /\ 1 <= Digits[n] /\ Digits[n] <= 4
  /\ \A n \in Nat : n < 1000 => Digits[n] \in Nat /\ 1 <= Digits[n] /\ Digits[n] <= 3
  /\ \A n \in Nat : n < 100000 => Digits[n] \in Nat /\ 1 <= Digits[n] /\ Digits[n] <= 5
  /\ \A n \in Nat : n < 1000000 => Digits[n] \in Nat /\ 1 <= Digits[n] /\ Digits[n] <= 6
  /\ \A n \in Nat : n < 10000000 => Digits[n] \in Nat /\ 1 <= Digits[n] /\ Digits[n] <= 7
<1>1. \A n \in Nat : n < 10 => Digits[n] \in Nat /\ 1 <= Digits[n] /\ Digits[n] <= 1
  BY Ints, DigitsStep, SMT
<1>2. \A n \in Nat : n < 100 => Digits[n] \in Nat /\ 1 <= Digits[n] /\ Digits[n] <= 2
  <2>1. \A n \in Nat : n < 100 => n \div 10 \in Nat /\ n \div 10 < 10
    BY SMT
  <2> QED
    BY <1>1, <2>1, Ints, DigitsStep, SMT
<1>3. \A n \in Nat : n < 1000 => Digits[n] \in Nat /\ 1 <= Digits[n] /\ Digits[n] <= 3
  <2>1. \A n \in Nat : n < 1000 => n \div 10 \in Nat /\ n \div 10 < 100
    BY SMT
  <2> QED
    BY <1>2, <2>1, Ints, DigitsStep, SMT
<1>4. \A n \in Nat : n < 10000 => Digits[n] \in Nat /\ 1 <= Digits[n] /\ Digits[n] <= 4
  <2>1. \A n \in Nat : n < 10000 => n \div 10 \in Nat /\ n \div 10 < 1000
    BY SMT
  <2> QED
    BY <1>3, <2>1, Ints, DigitsStep, SMT
<1>5. \A n \in Nat : n < 100000 => Digits[n] \in Nat /\ 1 <= Digits[n] /\ Digits[n] <= 5
  <2>1. \A n \in Nat : n < 100000 => n \div 10 \in Nat /\ n \div 10 < 10000
    BY SMT
  <2> QED
    BY <1>4, <2>1, Ints, DigitsStep, SMT
<1>6. \A n \in Nat : n < 1000000 => Digits[n] \in Nat /\ 1 <= Digits[n] /\ Digits[n] <= 6
  <2>1. \A n \in Nat : n < 1000000 => n \div 10 \in Nat /\ n \div 10 < 100000
    BY SMT
  <2> QED
    BY <1>5, <2>1, Ints, DigitsStep, SMT
<1>7. \A n \in Nat : n < 10000000 => Digits[n] \in Nat /\ 1 <= Digits[n] /\ Digits[n] <= 7
  <2>1. \A n \in Nat : n < 10000000 => n \div 10 \in Nat /\ n \div 10 < 1000000
    BY SMT
  <2> QED
    BY <1>6, <2>1, Ints, DigitsStep, SMT
<1> QED
  BY <1>1, <1>2, <1>3, <1>4, <1>5, <1>6, <1>7, SMT

\* Between two powers of ten the length of a number is known.
LEMMA DigitsExactly ==
  /\ \A n \in Nat : 10 <= n /\ n < 100 => Digits[n] = 2
  /\ \A n \in Nat : 100 <= n /\ n < 1000 => Digits[n] = 3
  /\ \A n \in Nat : 1000 <= n /\ n < 10000 => Digits[n] = 4
<1>1. \A n \in Nat : n < 10 => Digits[n] = 1
  BY Ints, DigitsStep, SMT
<1>2. \A n \in Nat : 10 <= n /\ n < 100 => Digits[n] = 2
  <2>1. \A n \in Nat : n < 100 => n \div 10 \in Nat /\ n \div 10 < 10
    BY SMT
  <2> QED
    BY <1>1, <2>1, Ints, DigitsStep, SMT
<1>3. \A n \in Nat : 100 <= n /\ n < 1000 => Digits[n] = 3
  <2>1. \A n \in Nat : 100 <= n /\ n < 1000 => n \div 10 \in Nat /\ 10 <= n \div 10 /\ n \div 10 < 100
    BY SMT
  <2> QED
    BY <1>2, <2>1, Ints, DigitsStep, SMT
<1>4. \A n \in Nat : 1000 <= n /\ n < 10000 => Digits[n] = 4
  <2>1. \A n \in Nat : 1000 <= n /\ n < 10000 =>
          n \div 10 \in Nat /\ 100 <= n \div 10 /\ n \div 10 < 1000
    BY SMT
  <2> QED
    BY <1>3, <2>1, Ints, DigitsStep, SMT
<1> QED
  BY <1>2, <1>3, <1>4, SMT

-----------------------------------------------------------------------------
\* The lengths of a report.

\* What ESP_prepare_json() may find.
LEMMA AverageFacts ==
  ASSUME NEW t \in AvgTemperatures, NEW p \in AvgPressures,
         NEW o \in AvgOutdoors, NEW h \in AvgHumidities
  PROVE  /\ UnsignedDigits(t) \in Nat /\ 1 <= UnsignedDigits(t) /\ UnsignedDigits(t) <= 10
         /\ ~(t < 0) => UnsignedDigits(t) <= 7
         /\ Digits[p] \in Nat /\ 1 <= Digits[p] /\ Digits[p] <= 6
         /\ Digits[o[2]] \in Nat /\ 1 <= Digits[o[2]] /\ Digits[o[2]] <= 5
         /\ Digits[h] \in Nat /\ 1 <= Digits[h] /\ Digits[h] <= 3
<1>1. t \in Int /\ t < 10000000
  BY EspAssumption, SMT
<1>3. /\ p \in Nat /\ p < 1000000 /\ o[2] \in Nat /\ o[2] < 100000
      /\ h \in Nat /\ h < 1000
  BY EspAssumption, SMT
<1>4. /\ UnsignedDigits(t) \in Nat /\ 1 <= UnsignedDigits(t) /\ UnsignedDigits(t) <= 10
      /\ ~(t < 0) => UnsignedDigits(t) <= 7
  <2>1. CASE t < 0
    BY <2>1, SMT DEF UnsignedDigits
  <2>2. CASE ~(t < 0)
    <3>1. Digits[t] \in Nat /\ 1 <= Digits[t] /\ Digits[t] <= 7
      BY <1>1, <2>2, DigitsBelow, SMT
    <3> QED
      BY <2>2, <3>1, SMT DEF UnsignedDigits
  <2> QED
    BY <2>1, <2>2, SMT
<1> QED
  BY <1>3, <1>4, DigitsBelow, SMT

\* The payload, from the shortest averages to the longest.
LEMMA PayloadLength ==
  ASSUME NEW t \in AvgTemperatures, NEW p \in AvgPressures,
         NEW o \in AvgOutdoors, NEW h \in AvgHumidities
  PROVE  /\ ESP_prepare_json(t, p, o, h) \in Nat
         /\ 51 <= ESP_prepare_json(t, p, o, h) /\ ESP_prepare_json(t, p, o, h) <= 72
<1> DEFINE sign == IF o[1] = "NEGATIVE" THEN 1 ELSE 0
<1>1. sign \in 0 .. 1
  BY SMT
<1>2. ESP_prepare_json(t, p, o, h)
        = 9 + 5 + 8 + UnsignedDigits(t) + 7 + Digits[p] + 8 + sign + Digits[o[2]]
            + 8 + Digits[h] + 2
  BY SMT DEF ESP_prepare_json, device_name
<1> HIDE DEF sign
<1> QED
  BY <1>1, <1>2, AverageFacts, SMT

\* The request around a payload: the uint8_t holds its length, which has two digits.
LEMMA RequestLength ==
  ASSUME NEW n \in Nat, 51 <= n, n <= 72
  PROVE  /\ ESP_prepare_post_request(n) = [length |-> n + 112, payload |-> n, stated |-> n]
         /\ CIPSEND(n + 112) = 16
<1>1. n % 256 = n
  BY SMT
<1>2. Digits[n] = 2 /\ Digits[n + 112] = 3
  BY DigitsExactly, SMT
<1>3. 5 + 17 + 16 + 18 + 17 + Digits[n] + 35 + n + 2 = n + 112
  BY <1>2, SMT
<1> QED
  BY <1>1, <1>2, <1>3, SMT DEF ESP_prepare_post_request, CIPSEND, Uint8, api_path, host_address

\* None of the numbers of a report is longer than the longest.
LEMMA LongestBelow ==
  ASSUME NEW m \in Nat,
         NEW a \in 0 .. m, NEW b \in 0 .. m, NEW c \in 0 .. m,
         NEW d \in 0 .. m, NEW e \in 0 .. m, NEW f \in 0 .. m
  PROVE  Longest({a, b, c, d} \cup {e, f}) \in 0 .. m
<1> DEFINE S == {a, b, c, d} \cup {e, f}
<1>1. \E n \in S : \A k \in S : k <= n
  <2>1. \E n \in {a, b} : a <= n /\ b <= n /\ n \in 0 .. m
    BY SMT
  <2>2. PICK n1 \in {a, b} : a <= n1 /\ b <= n1 /\ n1 \in 0 .. m
    BY <2>1, Zenon
  <2>3. \E n \in {n1, c} : n1 <= n /\ c <= n /\ n \in 0 .. m
    BY <2>2, SMT
  <2>4. PICK n2 \in {n1, c} : n1 <= n2 /\ c <= n2 /\ n2 \in 0 .. m
    BY <2>3, Zenon
  <2>5. \E n \in {n2, d} : n2 <= n /\ d <= n /\ n \in 0 .. m
    BY <2>4, SMT
  <2>6. PICK n3 \in {n2, d} : n2 <= n3 /\ d <= n3 /\ n3 \in 0 .. m
    BY <2>5, Zenon
  <2>7. \E n \in {n3, e} : n3 <= n /\ e <= n /\ n \in 0 .. m
    BY <2>6, SMT
  <2>8. PICK n4 \in {n3, e} : n3 <= n4 /\ e <= n4 /\ n4 \in 0 .. m
    BY <2>7, Zenon
  <2>9. \E n \in {n4, f} : n4 <= n /\ f <= n /\ n \in 0 .. m
    BY <2>8, SMT
  <2>10. PICK n5 \in {n4, f} : n4 <= n5 /\ f <= n5 /\ n5 \in 0 .. m
    BY <2>9, Zenon
  <2>11. n5 \in S
    BY <2>2, <2>4, <2>6, <2>8, <2>10
  <2>12. a <= n5 /\ b <= n5 /\ c <= n5 /\ d <= n5 /\ e <= n5 /\ f <= n5
    BY <2>2, <2>4, <2>6, <2>8, <2>10, SMT
  <2> QED
    BY <2>11, <2>12
<1>2. Longest(S) \in S
  BY <1>1, Zenon DEF Longest
<1>3. \A n \in S : n \in 0 .. m
  OBVIOUS
<1> QED
  BY <1>2, <1>3, Zenon

-----------------------------------------------------------------------------
\* The calls.

\* What the module makes of bytes it takes for data.
LEMMA TakeDataFacts ==
  ASSUME TypeOK, NEW bytes \in Nat, TakeData(bytes)
  PROVE  /\ mode = "data" /\ remaining \in Nat
         /\ \/ /\ bytes < remaining /\ mode' = "data" /\ remaining' = remaining - bytes
            \/ ~(bytes < remaining) /\ mode' = "command" /\ remaining' = 0
         /\ remaining' \in 0 .. ESP_MAX_POST_SIZE
         /\ mode' \in {"command", "data"} /\ (mode' = "command" <=> remaining' = 0)
<1>1. remaining \in 0 .. 200 /\ mode = "data"
  BY DEF TypeOK, ESP_MAX_POST_SIZE, TakeData
<1>2. CASE bytes < remaining
  <2>1. mode' = mode /\ remaining' = remaining - bytes
    BY <1>2, SMT DEF TakeData
  <2>2. remaining - bytes \in 0 .. 200 /\ remaining - bytes # 0
    BY <1>1, <1>2, SMT
  <2> QED
    BY <1>1, <1>2, <2>1, <2>2, SMT DEF ESP_MAX_POST_SIZE
<1>3. CASE ~(bytes < remaining)
  <2>1. mode' = "command" /\ remaining' = 0
    BY <1>3, SMT DEF TakeData
  <2> QED
    BY <1>1, <1>3, <2>1, SMT DEF ESP_MAX_POST_SIZE
<1> QED
  BY <1>2, <1>3

\* The module starts in command mode, and nothing has been sent.
LEMMA InitIInv == Init => IInv
<1> SUFFICES ASSUME Init PROVE IInv
  OBVIOUS
<1>1. TypeOK
  <2>1. 0 \in 0 .. ESP_MAX_POST_SIZE
    BY SMT DEF ESP_MAX_POST_SIZE
  <2> QED
    BY <2>1 DEF Init, TypeOK
<1>2. Requests
  BY SMT DEF Init, Requests
<1>3. Jams /\ Follows /\ FaultCostsTwoUploads
  BY DEF Init, Jams, Follows, FaultCostsTwoUploads
<1>4. OverrunOnlyBelowZero
  BY SMT DEF Init, OverrunOnlyBelowZero, ESP_MAX_UTOA_SIZE
<1> QED
  BY <1>1, <1>2, <1>3, <1>4 DEF IInv

\* What is left of a request that went wrong goes on with the command that
\* asks for a connection.
LEMMA ConnectIInv == ASSUME IInv, ESP_connect_to_server PROVE IInv'
<1> USE DEF IInv
<1>1. PICK accepted \in BOOLEAN : TakeConnect(Written(CIPSTART), accepted) /\ faulty' = ~accepted
  BY DEF ESP_connect_to_server
<1>2. Written(CIPSTART) = 43 /\ CIPSTART = 43
  BY SMT DEF Written, Uint8, CIPSTART, host_address, host_port
<1>3. /\ next = "connect" /\ next' = "announce" /\ temp_buffer' = 43 /\ faultyBefore' = faulty
      /\ reported' = reported /\ post_buffer' = post_buffer
      /\ utoa_buffer' = utoa_buffer /\ delivered' = delivered
  BY <1>2 DEF ESP_connect_to_server
<1>4. /\ faulty \in BOOLEAN /\ delivered \in BOOLEAN /\ connected \in BOOLEAN
      /\ remaining \in 0 .. ESP_MAX_POST_SIZE
      /\ mode \in {"command", "data"} /\ (mode = "command" <=> remaining = 0)
  BY DEF TypeOK
<1>5. CASE TakeData(43) /\ connected' = FALSE
  <2>1. 43 \in Nat
    OBVIOUS
  <2>2. /\ mode = "data" /\ remaining \in Nat
        /\ \/ /\ 43 < remaining /\ mode' = "data" /\ remaining' = remaining - 43
           \/ mode' = "command" /\ remaining' = 0
        /\ remaining' \in 0 .. ESP_MAX_POST_SIZE
        /\ mode' \in {"command", "data"} /\ (mode' = "command" <=> remaining' = 0)
    BY <1>5, <2>1, TakeDataFacts
  <2>3. faulty
    BY <1>3, <2>2 DEF Jams
  <2>4. mode' = "data" => remaining' <= 157
    BY <1>4, <2>2, SMT DEF ESP_MAX_POST_SIZE
  <2>5. TypeOK'
    BY <1>1, <1>3, <1>4, <1>5, <2>2, Zenon DEF TypeOK
  <2>6. Jams' /\ Follows'
    BY <1>3, <2>3, <2>4, Zenon DEF Jams, Follows
  <2> QED
    BY <1>3, <2>5, <2>6 DEF Requests, OverrunOnlyBelowZero, FaultCostsTwoUploads
<1>6. CASE mode = "command" /\ connected' = accepted /\ mode' = mode /\ remaining' = remaining
  <2>1. TypeOK'
    BY <1>1, <1>3, <1>4, <1>6, Zenon DEF TypeOK
  <2>2. Jams' /\ Follows'
    BY <1>1, <1>3, <1>6 DEF Jams, Follows
  <2> QED
    BY <1>3, <2>1, <2>2 DEF Requests, OverrunOnlyBelowZero, FaultCostsTwoUploads
<1> QED
  BY <1>1, <1>2, <1>5, <1>6 DEF TakeConnect

\* The announcement is for the request that is ready by then.
LEMMA AnnounceIInv == ASSUME IInv, ESP_write_tcp_send_AT PROVE IInv'
<1> USE DEF IInv
<1>1. PICK t \in AvgTemperatures, p \in AvgPressures,
           o \in AvgOutdoors, h \in AvgHumidities :
        /\ reported' = t
        /\ post_buffer' = ESP_prepare_post_request(ESP_prepare_json(t, p, o, h))
        /\ temp_buffer' = CIPSEND(post_buffer'.length)
        /\ utoa_buffer' = Longest(Numbers(t, p, o, h)
                                    \cup {Digits[post_buffer'.stated],
                                          Digits[post_buffer'.length]})
  BY Zenon DEF ESP_write_tcp_send_AT
<1> DEFINE n == ESP_prepare_json(t, p, o, h)
<1>2. n \in Nat /\ 51 <= n /\ n <= 72
  BY PayloadLength, Zenon
<1> HIDE DEF n
<1>3. post_buffer' = [length |-> n + 112, payload |-> n, stated |-> n] /\ CIPSEND(n + 112) = 16
  BY <1>1, <1>2, RequestLength, Zenon DEF n
<1>4. post_buffer'.length = n + 112 /\ post_buffer'.payload = n /\ post_buffer'.stated = n
  BY <1>3
<1>5. temp_buffer' = 16 /\ Written(16) = 16
  <2>1. Written(16) = 16
    BY SMT DEF Written, Uint8
  <2> QED
    BY <1>1, <1>3, <1>4, <2>1, Zenon
<1>6. /\ next = "announce" /\ next' = "request"
      /\ delivered' = delivered /\ faultyBefore' = faultyBefore
  BY DEF ESP_write_tcp_send_AT
<1>7. PICK kept \in BOOLEAN : /\ TakeSend(16, n + 112, kept)
                              /\ faulty' = (faulty \/ ~kept)
  BY <1>4, <1>5, Zenon DEF ESP_write_tcp_send_AT
<1>8. Requests'
  <2>1. n + 112 \in Nat
    BY <1>2, SMT
  <2>2. post_buffer' \in [length : Nat, payload : Nat, stated : Nat]
    BY <1>2, <1>3, <2>1
  <2> QED
    BY <1>2, <1>4, <1>5, <2>2 DEF Requests
<1>9. OverrunOnlyBelowZero'
  <2>1. CASE t < 0
    BY <1>1, <2>1, Zenon DEF OverrunOnlyBelowZero
  <2>2. CASE ~(t < 0)
    <3>1. Digits[n] = 2 /\ Digits[n + 112] = 3
      BY <1>2, DigitsExactly, SMT
    <3>2. /\ UnsignedDigits(t) \in 0 .. 7 /\ Digits[p] \in 0 .. 7 /\ Digits[o[2]] \in 0 .. 7
          /\ Digits[h] \in 0 .. 7 /\ Digits[n] \in 0 .. 7 /\ Digits[n + 112] \in 0 .. 7
      BY <2>2, <3>1, AverageFacts, SMT
    <3>3. 7 \in Nat
      OBVIOUS
    <3>4. utoa_buffer' \in 0 .. 7
      <4>1. utoa_buffer' = Longest({UnsignedDigits(t), Digits[p], Digits[o[2]], Digits[h]}
                                     \cup {Digits[n], Digits[n + 112]})
        BY <1>1, <1>4, Zenon DEF Numbers
      <4> QED
        BY <3>2, <3>3, <4>1, LongestBelow, Zenon
    <3>5. ~(utoa_buffer' >= 8)
      BY <3>4, SMT
    <3> QED
      BY <3>5, Zenon DEF OverrunOnlyBelowZero, ESP_MAX_UTOA_SIZE
  <2> QED
    BY <2>1, <2>2
<1>10. FaultCostsTwoUploads'
  BY <1>6 DEF FaultCostsTwoUploads
<1>11. /\ faulty \in BOOLEAN /\ delivered \in BOOLEAN /\ connected \in BOOLEAN
       /\ faultyBefore \in BOOLEAN /\ remaining \in 0 .. ESP_MAX_POST_SIZE
       /\ mode \in {"command", "data"} /\ (mode = "command" <=> remaining = 0)
  BY DEF TypeOK
<1>12. connected' \in BOOLEAN /\ faulty' \in BOOLEAN
  BY <1>7, <1>11 DEF TakeSend
<1>13. CASE TakeData(16)
  <2>1. 16 \in Nat
    OBVIOUS
  <2>2. /\ mode = "data" /\ remaining \in Nat
        /\ \/ /\ 16 < remaining /\ mode' = "data" /\ remaining' = remaining - 16
           \/ mode' = "command" /\ remaining' = 0
        /\ remaining' \in 0 .. ESP_MAX_POST_SIZE
        /\ mode' \in {"command", "data"} /\ (mode' = "command" <=> remaining' = 0)
    BY <1>13, <2>1, TakeDataFacts
  <2>3. faultyBefore /\ remaining <= 157
    BY <1>6, <2>2 DEF Jams
  <2>4. mode' = "data" => remaining' <= 141
    BY <2>2, <2>3, SMT
  <2>5. TypeOK'
    BY <1>6, <1>11, <1>12, <2>2, Zenon DEF TypeOK
  <2>6. Jams' /\ Follows'
    BY <1>6, <2>3, <2>4, Zenon DEF Jams, Follows
  <2> QED
    BY <1>8, <1>9, <1>10, <2>5, <2>6
<1>14. CASE mode = "command" /\ connected' /\ mode' = "data" /\ remaining' = n + 112
  <2>1. n + 112 \in 0 .. ESP_MAX_POST_SIZE /\ n + 112 # 0
    BY <1>2, SMT DEF ESP_MAX_POST_SIZE
  <2>2. TypeOK'
    BY <1>6, <1>11, <1>12, <1>14, <2>1 DEF TypeOK
  <2>3. Jams' /\ Follows'
    BY <1>4, <1>6, <1>14, Zenon DEF Jams, Follows
  <2> QED
    BY <1>8, <1>9, <1>10, <2>2, <2>3
<1>15. CASE mode = "command" /\ ~connected' /\ mode' = mode /\ remaining' = remaining
  <2>1. TypeOK'
    BY <1>6, <1>11, <1>12, <1>15, Zenon DEF TypeOK
  <2>2. faulty' \/ faultyBefore'
    <3>1. faulty \/ faultyBefore \/ connected
      BY <1>6 DEF Follows
    <3>2. connected' = (connected /\ kept)
      BY <1>7 DEF TakeSend
    <3> QED
      BY <1>6, <1>7, <1>15, <3>1, <3>2, Zenon
  <2>3. Jams' /\ Follows'
    BY <1>6, <1>15, <2>2 DEF Jams, Follows
  <2> QED
    BY <1>8, <1>9, <1>10, <2>1, <2>3
<1> QED
  BY <1>7, <1>13, <1>14, <1>15 DEF TakeSend

\* The request ends whatever the module was still waiting for.
LEMMA SendIInv == ASSUME IInv, ESP_send_measurements PROVE IInv'
<1> USE DEF IInv
<1> DEFINE length == post_buffer.length
<1>1. /\ next = "request" /\ next' = "connect"
      /\ reported' = reported /\ temp_buffer' = temp_buffer
      /\ post_buffer' = post_buffer /\ utoa_buffer' = utoa_buffer
      /\ faultyBefore' = faultyBefore
  BY DEF ESP_send_measurements, buffers
<1>2. /\ post_buffer.stated = post_buffer.payload
      /\ 51 <= post_buffer.payload /\ post_buffer.payload <= 72
      /\ length = post_buffer.payload + 112
  BY <1>1 DEF Requests
<1>3. post_buffer.payload \in Nat
  BY DEF Requests
<1>4. length \in Nat /\ 163 <= length /\ length <= 184
  BY <1>2, <1>3, SMT
<1>5. Written(length) = length
  BY <1>4, SMT DEF Written, Uint8
<1> HIDE DEF length
<1>6. PICK lost \in Losses :
        /\ length - lost >= 0 /\ TakeRequest(length - lost)
        /\ delivered' = (/\ connected /\ mode = "data"
                         /\ lost = 0 /\ remaining = length - lost
                         /\ post_buffer.stated = post_buffer.payload)
        /\ faulty' = (faulty \/ lost > 0)
  BY <1>5, Zenon DEF ESP_send_measurements, length
<1>7. lost \in Nat
  BY EspAssumption, SMT
<1>8. length - lost \in Nat /\ (lost = 0 => length - lost = length) /\ (lost # 0 => lost > 0)
  BY <1>4, <1>6, <1>7, SMT
<1>9. connected' = FALSE
  BY <1>6 DEF TakeRequest
<1>10. /\ faulty \in BOOLEAN /\ faultyBefore \in BOOLEAN
       /\ remaining \in 0 .. ESP_MAX_POST_SIZE
       /\ mode \in {"command", "data"} /\ (mode = "command" <=> remaining = 0)
  BY DEF TypeOK
<1>11. faulty' \in BOOLEAN /\ delivered' \in BOOLEAN
  BY <1>6, <1>10, Zenon
<1>12. /\ mode' \in {"command", "data"} /\ (mode' = "command" <=> remaining' = 0)
       /\ remaining' \in 0 .. ESP_MAX_POST_SIZE
       /\ mode' = "data" => faulty'
  <2>1. CASE TakeData(length - lost)
    <3>1. /\ mode = "data" /\ remaining \in Nat
          /\ mode' = "data" => length - lost < remaining
          /\ remaining' \in 0 .. ESP_MAX_POST_SIZE
          /\ mode' \in {"command", "data"} /\ (mode' = "command" <=> remaining' = 0)
      BY <1>8, <2>1, TakeDataFacts
    <3>2. remaining <= 141 \/ remaining = length
      BY <1>1, <3>1, Zenon DEF Jams, length
    <3>3. length - lost < remaining => lost > 0
      BY <1>4, <1>7, <3>1, <3>2, SMT
    <3> QED
      BY <1>6, <3>1, <3>3, Zenon
  <2>2. CASE mode = "command" /\ mode' = mode /\ remaining' = remaining
    BY <1>10, <2>2
  <2> QED
    BY <1>6, <2>1, <2>2 DEF TakeRequest
<1>13. FaultCostsTwoUploads'
  <2>1. ASSUME ~faulty', ~faultyBefore' PROVE delivered'
    <3>1. ~faulty /\ ~(lost > 0) /\ ~faultyBefore
      BY <1>1, <1>6, <2>1, Zenon
    <3>2. connected /\ mode = "data" /\ remaining = length
      BY <1>1, <3>1, Zenon DEF Follows, length
    <3> QED
      BY <1>2, <1>6, <1>8, <3>1, <3>2, Zenon
  <2> QED
    BY <2>1, Zenon DEF FaultCostsTwoUploads
<1>14. TypeOK'
  BY <1>1, <1>9, <1>10, <1>11, <1>12 DEF TypeOK
<1>15. Requests' /\ OverrunOnlyBelowZero'
  BY <1>1 DEF Requests, OverrunOnlyBelowZero
<1>16. Jams' /\ Follows'
  BY <1>1, <1>12 DEF Jams, Follows
<1> QED
  BY <1>13, <1>14, <1>15, <1>16

\* Every step keeps the invariant.
LEMMA NextIInv == IInv /\ [Next]_vars => IInv'
<1> SUFFICES ASSUME IInv, [Next]_vars PROVE IInv'
  OBVIOUS
<1>1. CASE UNCHANGED vars
  BY <1>1 DEF vars, buffers, module, IInv, TypeOK, Requests, Jams, Follows,
     OverrunOnlyBelowZero, FaultCostsTwoUploads
<1>2. CASE Next
  BY <1>2, ConnectIInv, AnnounceIInv, SendIInv DEF Next
<1> QED
  BY <1>1, <1>2

\* Whatever the averages and whatever gets lost, the invariant holds between
\* the calls of ESP.c.
THEOREM Invariance == Spec => []IInv
BY InitIInv, NextIInv, PTL DEF Spec

\* Every string ESP.c puts together fits the buffer it is put together in.
THEOREM StringsFit == Spec => []BuffersFit
<1>1. IInv => BuffersFit
  <2> SUFFICES ASSUME Requests PROVE BuffersFit
    BY DEF IInv
  <2>1. temp_buffer < 100
    BY SMT DEF Requests
  <2>2. post_buffer.payload \in Nat /\ post_buffer.length \in Nat
    BY DEF Requests
  <2>3. \/ post_buffer.payload = 0 /\ post_buffer.length = 0
        \/ post_buffer.payload <= 72 /\ post_buffer.length = post_buffer.payload + 112
    BY DEF Requests
  <2>4. post_buffer.payload < 100 /\ post_buffer.length < 200
    BY <2>2, <2>3, SMT
  <2>5. \A n \in Nat : n < 200 => n % 256 = n
    BY SMT
  <2> QED
    BY <2>1, <2>2, <2>4, <2>5, Zenon
       DEF BuffersFit, ESP_MAX_TEMP_SIZE, ESP_MAX_POST_SIZE, Written, Uint8
<1> QED
  BY <1>1, Invariance, PTL

\* utoa() stays inside utoa_buffer unless the indoor temperature is below zero.
THEOREM NumbersFitAboveZero == Spec => []OverrunOnlyBelowZero
<1>1. IInv => OverrunOnlyBelowZero
  BY DEF IInv
<1> QED
  BY <1>1, Invariance, PTL

\* However many bytes the module misses, the second upload after it arrives if
\* nothing else goes wrong.
THEOREM LinkRecovers == Spec => []FaultCostsTwoUploads
<1>1. IInv => FaultCostsTwoUploads
  BY DEF IInv
<1> QED
  BY <1>1, Invariance, PTL

-----------------------------------------------------------------------------
\* Drawing on the display.

Screens == [cells : [Cells -> Glyphs], cursor : Cells]

\* Cells with a text over them.
Over(cells, at, string) ==
  [c \in Cells |-> IF at <= c /\ c < at + Len(string) THEN string[c - at + 1] ELSE cells[c]]

\* The places of a text that does not run over the last cell.
LEMMA Places ==
  ASSUME NEW cursor \in 0 .. 79, NEW c \in 0 .. 79, NEW n \in Nat, cursor + n <= 80
  PROVE  /\ ((c - cursor) % 80) + 1 \in Nat \ {0}
         /\ ((c - cursor) % 80) + 1 <= n <=> cursor <= c /\ c < cursor + n
         /\ cursor <= c => ((c - cursor) % 80) + 1 = c - cursor + 1
<1>1. CASE cursor <= c
  <2>1. (c - cursor) % 80 = c - cursor
    BY <1>1, SMT
  <2> QED
    BY <1>1, <2>1, SMT
<1>2. CASE c < cursor
  <2>1. (c - cursor) % 80 = c - cursor + 80
    BY <1>2, SMT
  <2> QED
    BY <1>2, <2>1, SMT
<1> QED
  BY <1>1, <1>2, SMT

\* Between two ends of the memory a text covers as many cells as it is long.
LEMMA WriteChars ==
  ASSUME NEW s \in Screens, NEW string \in Seq(Glyphs), s.cursor + Len(string) <= 80
  PROVE  /\ HD44780_write_chars(s, string) \in Screens
         /\ HD44780_write_chars(s, string).cells = Over(s.cells, s.cursor, string)
<1> DEFINE after == HD44780_write_chars(s, string)
           position(c) == ((c - s.cursor) % 80) + 1
<1>1. /\ s.cursor \in 0 .. 79 /\ Len(string) \in Nat /\ Cells = 0 .. 79 /\ Rows * LineLength = 80
      /\ s.cells \in [Cells -> Glyphs]
  BY DEF Screens, Cells, Rows, LineLength
<1>2. after = [cells |-> [c \in Cells |-> IF position(c) <= Len(string)
                                            THEN string[position(c)] ELSE s.cells[c]],
               cursor |-> (s.cursor + Len(string)) % 80]
  BY <1>1, Zenon DEF HD44780_write_chars
<1>3. ASSUME NEW c \in Cells
      PROVE  /\ position(c) \in Nat \ {0}
             /\ position(c) <= Len(string) <=> s.cursor <= c /\ c < s.cursor + Len(string)
             /\ s.cursor <= c => position(c) = c - s.cursor + 1
  <2>1. c \in 0 .. 79
    BY <1>1
  <2> QED
    BY <1>1, <2>1, Places, Zenon
<1> HIDE DEF position
<1>4. after.cells = Over(s.cells, s.cursor, string)
  BY <1>2, <1>3 DEF Over
<1>5. ASSUME NEW c \in Cells PROVE after.cells[c] \in Glyphs
  <2>1. after.cells[c] = IF position(c) <= Len(string) THEN string[position(c)] ELSE s.cells[c]
    BY <1>2
  <2>2. position(c) <= Len(string) => string[position(c)] \in Glyphs
    <3>1. Len(string) \in Nat /\ position(c) \in Nat \ {0}
      BY <1>1, <1>3, Zenon
    <3>2. position(c) <= Len(string) => position(c) \in 1 .. Len(string)
      BY <3>1, SMT
    <3> QED
      BY <3>2, ElementOfSeq
  <2> QED
    BY <1>1, <2>1, <2>2
<1>6. (s.cursor + Len(string)) % 80 \in 0 .. 79
  <2>1. \A k \in 0 .. 79, n \in Nat : (k + n) % 80 \in 0 .. 79
    BY SMT
  <2> QED
    BY <1>1, <2>1, Zenon
<1>7. after.cells \in [Cells -> Glyphs] /\ after.cursor \in Cells
  BY <1>1, <1>2, <1>5, <1>6
<1> QED
  BY <1>1, <1>2, <1>4, <1>7 DEF Screens

\* A row begins at the first or at the middle cell, and its columns follow.
LEMMA GotoXY ==
  ASSUME NEW s \in Screens, NEW x \in 1 .. 2, NEW y \in 1 .. 20
  PROVE  /\ HD44780_gotoxy(s, x, y) \in Screens
         /\ HD44780_gotoxy(s, x, y).cells = s.cells
         /\ HD44780_gotoxy(s, x, y).cursor = (x - 1) * 40 + y - 1
<1>1. Clamped(x, Rows) = x /\ Clamped(y, Columns) = y
  BY DEF Clamped, Rows, Columns
<1>2. CellAt(RowsFirstAddr[x] + y - 1) = (x - 1) * 40 + y - 1
  <2>1. CASE x = 1
    <3>1. RowsFirstAddr[x] = 0
      BY <2>1 DEF RowsFirstAddr
    <3> QED
      BY <2>1, <3>1 DEF CellAt, LineLength
  <2>2. CASE x = 2
    <3>1. RowsFirstAddr[x] = 64
      BY <2>2 DEF RowsFirstAddr
    <3> QED
      BY <2>2, <3>1 DEF CellAt, LineLength
  <2> QED
    BY <2>1, <2>2
<1>3. HD44780_gotoxy(s, x, y) = [s EXCEPT !.cursor = (x - 1) * 40 + y - 1]
  BY <1>1, <1>2 DEF HD44780_gotoxy
<1>4. (x - 1) * 40 + y - 1 \in Cells
  BY DEF Cells, Rows, LineLength
<1> QED
  BY <1>3, <1>4 DEF Screens

\* Both together.
LEMMA DrawOver ==
  ASSUME NEW s \in Screens, NEW x \in 1 .. 2, NEW y \in 1 .. 20,
         NEW string \in Seq(Glyphs), (x - 1) * 40 + y - 1 + Len(string) <= 80
  PROVE  /\ Draw(s, x, y, string) \in Screens
         /\ Draw(s, x, y, string).cells = Over(s.cells, (x - 1) * 40 + y - 1, string)
<1> DEFINE there == HD44780_gotoxy(s, x, y)
<1>1. /\ there \in Screens /\ there.cells = s.cells
      /\ there.cursor = (x - 1) * 40 + y - 1
  BY GotoXY
<1> HIDE DEF there
<1>2. /\ HD44780_write_chars(there, string) \in Screens
      /\ HD44780_write_chars(there, string).cells = Over(there.cells, there.cursor, string)
  BY <1>1, WriteChars
<1> QED
  BY <1>1, <1>2 DEF Draw, HD44780_write_string, there

-----------------------------------------------------------------------------
\* Texts and their lengths.

\* Two texts one after the other.
LEMMA Joined ==
  ASSUME NEW a \in Seq(Glyphs), NEW b \in Seq(Glyphs)
  PROVE  a \o b \in Seq(Glyphs) /\ Len(a \o b) = Len(a) + Len(b)
BY ConcatProperties

\* Three texts one after the other, whichever two are joined first.
LEMMA Rejoined ==
  ASSUME NEW a \in Seq(Glyphs), NEW b \in Seq(Glyphs), NEW c \in Seq(Glyphs)
  PROVE  a \o (b \o c) = (a \o b) \o c
BY ConcatAssociative

\* As many digits as asked for.
LEMMA DigitText ==
  ASSUME NEW n \in Nat
  PROVE  DigitString(n) \in Seq(Glyphs) /\ Len(DigitString(n)) = n
<1>1. "digit" \in Glyphs
  BY DEF Glyphs
<1> QED
  BY <1>1 DEF DigitString

\* What HD44780_write_integer() writes, from the number of digits.
LEMMA IntegerText ==
  ASSUME NEW n \in Int, NEW k \in {0, 2}, NEW size \in Nat, NEW d \in Nat,
         size = IF n < 0 THEN -n ELSE n,
         Digits[size] \in Nat, d = Longer(Digits[size], k)
  PROVE  /\ Integer(n, k) \in Seq(Glyphs)
         /\ Len(Integer(n, k)) = IF n < 0 THEN d + 1 ELSE d
<1>1. CASE n < 0
  <2>1. Integer(n, k) = <<"-">> \o DigitString(d)
    BY <1>1 DEF Integer
  <2>2. <<"-">> \in Seq(Glyphs) /\ Len(<<"-">>) = 1
    BY DEF Glyphs
  <2> QED
    BY <1>1, <2>1, <2>2, DigitText, ConcatProperties
<1>2. CASE ~(n < 0)
  <2>1. Integer(n, k) = DigitString(d)
    BY <1>2 DEF Integer
  <2> QED
    BY <1>2, <2>1, DigitText
<1> QED
  BY <1>1, <1>2

\* Hundredths with their point, no longer than their field.
LEMMA SplitText ==
  /\ \A t \in Int : -1000 < t /\ t < 100000 =>
       Split(t) \in Seq(Glyphs) /\ Len(Split(t)) <= 6
  /\ \A p \in Nat : p < 1000000 =>
       Split(p) \in Seq(Glyphs) /\ Len(Split(p)) <= 7
<1>1. ASSUME NEW n \in Int, -1000 < n, n < 1000000
      PROVE  /\ Split(n) \in Seq(Glyphs)
             /\ Len(Split(n)) <= 7
             /\ n < 100000 => Len(Split(n)) <= 6
  <2> DEFINE i == CDiv(n, 100)
             f == CMod(n, 100)
  <2>1. /\ i \in Int /\ f \in Int /\ -99 <= f /\ f <= 99 /\ i <= 9999
        /\ n < 0 => -9 <= i /\ i <= 0
        /\ ~(n < 0) => 0 <= i /\ 0 <= f
        /\ n < 100000 => i <= 999
    <3>1. CASE n < 0
      <4>1. i = -((-n) \div 100) /\ (-n) \div 100 \in Nat /\ (-n) \div 100 <= 9
        BY <1>1, <3>1, SMT DEF CDiv
      <4>2. f = n - 100 * i
        BY SMT DEF CMod
      <4> QED
        BY <1>1, <3>1, <4>1, <4>2, SMT
    <3>2. CASE ~(n < 0)
      <4>1. i = n \div 100
        BY <3>2, SMT DEF CDiv
      <4>2. f = n - 100 * i
        BY SMT DEF CMod
      <4> QED
        BY <1>1, <3>2, <4>1, <4>2, SMT
    <3> QED
      BY <3>1, <3>2, SMT
  <2>2. Split(n) = Integer(i, 0) \o <<".">> \o Integer(f, 2)
    BY SMT DEF Split
  <2> HIDE DEF i, f
  <2> DEFINE sizeI == IF i < 0 THEN -i ELSE i
             sizeF == IF f < 0 THEN -f ELSE f
             dI == Longer(Digits[sizeI], 0)
             dF == Longer(Digits[sizeF], 2)
  <2>3. /\ sizeI \in Nat /\ sizeI < 10000 /\ sizeF \in Nat /\ sizeF < 100
        /\ n < 100000 => sizeI < 1000
        /\ n < 0 => sizeI < 10
    BY <2>1, SMT
  <2> HIDE DEF sizeI, sizeF
  <2>4. /\ Digits[sizeI] \in Nat /\ 1 <= Digits[sizeI] /\ Digits[sizeI] <= 4
        /\ n < 100000 => Digits[sizeI] <= 3
        /\ n < 0 => Digits[sizeI] <= 1
        /\ Digits[sizeF] \in Nat /\ Digits[sizeF] <= 2
    BY <2>3, DigitsBelow, SMT
  <2>5. /\ dI \in 0 .. 4 /\ dI = Digits[sizeI] /\ dF = 2
    BY <2>4, SMT DEF Longer
  <2>6. /\ Integer(i, 0) \in Seq(Glyphs)
        /\ Len(Integer(i, 0)) = IF i < 0 THEN dI + 1 ELSE dI
    BY <2>1, <2>3, <2>4, <2>5, IntegerText, SMT DEF sizeI
  <2>7. /\ Integer(f, 2) \in Seq(Glyphs)
        /\ Len(Integer(f, 2)) = IF f < 0 THEN dF + 1 ELSE dF
    BY <2>1, <2>3, <2>4, <2>5, IntegerText, SMT DEF sizeF
  <2>8. <<".">> \in Seq(Glyphs) /\ Len(<<".">>) = 1
    BY SMT DEF Glyphs
  <2>9. /\ Split(n) \in Seq(Glyphs)
        /\ Len(Split(n)) = Len(Integer(i, 0)) + 1 + Len(Integer(f, 2))
    BY <2>2, <2>6, <2>7, <2>8, ConcatProperties, SMT
  <2> QED
    BY <2>1, <2>4, <2>5, <2>6, <2>7, <2>9, SMT
<1> QED
  BY <1>1, SMT

\* The texts of GUI_update(), and how many cells they cover at most.
TextTi(t) == Split(t) \o <<"C", Blank>>
TextP(p) == Split(p) \o <<"h", "P", "a", Blank>>
TextTo(o) == <<IF o.sign = "NEGATIVE" THEN "-" ELSE Blank>>
               \o Integer(o.integer, 0) \o <<".">> \o Integer(o.fraction, 2) \o <<"C", Blank>>
TextH(h) == Integer(h, 0) \o <<"%">>

\* A humidity has up to three digits.
LEMMA HumidityDigits == \A h \in 0 .. 255 : Digits[h] \in 1 .. 3
<1> SUFFICES ASSUME NEW h \in 0 .. 255 PROVE Digits[h] \in 1 .. 3
  OBVIOUS
<1>1. h \in Nat /\ h < 1000
  BY SMT
<1> QED
  BY <1>1, DigitsBelow, SMT

LEMMA TextLengths ==
  /\ \A t \in Int : ShortTemperature(t) => TextTi(t) \in Seq(Glyphs) /\ Len(TextTi(t)) <= 8
  /\ \A p \in Nat : ShortPressure(p) => TextP(p) \in Seq(Glyphs) /\ Len(TextP(p)) <= 11
  /\ \A o \in Outdoor : TextTo(o) \in Seq(Glyphs) /\ Len(TextTo(o)) <= 10
  /\ \A h \in 0 .. 255 : TextH(h) \in Seq(Glyphs) /\ Len(TextH(h)) <= 4
<1>1. ASSUME NEW t \in Int, ShortTemperature(t)
      PROVE  TextTi(t) \in Seq(Glyphs) /\ Len(TextTi(t)) <= 8
  <2>1. <<"C", Blank>> \in Seq(Glyphs) /\ Len(<<"C", Blank>>) = 2
    BY SMT DEF Glyphs
  <2>2. Split(t) \in Seq(Glyphs) /\ Len(Split(t)) <= 6
    BY <1>1, SplitText, SMT DEF ShortTemperature
  <2>3. TextTi(t) \in Seq(Glyphs) /\ Len(TextTi(t)) = Len(Split(t)) + 2
    BY <2>1, <2>2, ConcatProperties, SMT DEF TextTi
  <2> QED
    BY <2>2, <2>3, SMT
<1>2. ASSUME NEW p \in Nat, ShortPressure(p)
      PROVE  TextP(p) \in Seq(Glyphs) /\ Len(TextP(p)) <= 11
  <2>1. <<"h", "P", "a", Blank>> \in Seq(Glyphs) /\ Len(<<"h", "P", "a", Blank>>) = 4
    BY SMT DEF Glyphs
  <2>2. Split(p) \in Seq(Glyphs) /\ Len(Split(p)) <= 7
    BY <1>2, SplitText, SMT DEF ShortPressure
  <2>3. TextP(p) \in Seq(Glyphs) /\ Len(TextP(p)) = Len(Split(p)) + 4
    BY <2>1, <2>2, ConcatProperties, SMT DEF TextP
  <2> QED
    BY <2>2, <2>3, SMT
<1>3. ASSUME NEW n \in 0 .. 255, NEW k \in {0, 2}
      PROVE  Integer(n, k) \in Seq(Glyphs) /\ Len(Integer(n, k)) <= 3
  <2>1. n \in Nat /\ n \in Int /\ ~(n < 0) /\ n < 1000 /\ k \in Nat /\ k <= 2
    BY SMT
  <2>2. Digits[n] \in Nat /\ Digits[n] <= 3
    BY <2>1, DigitsBelow, SMT
  <2>3. Longer(Digits[n], k) \in 0 .. 3 /\ Longer(Digits[n], k) \in Nat
    BY <2>1, <2>2, SMT DEF Longer
  <2>4. /\ Integer(n, k) \in Seq(Glyphs)
        /\ Len(Integer(n, k)) = Longer(Digits[n], k)
    BY <2>1, <2>2, <2>3, IntegerText
  <2> QED
    BY <2>3, <2>4
<1>4. ASSUME NEW o \in Outdoor
      PROVE  TextTo(o) \in Seq(Glyphs) /\ Len(TextTo(o)) <= 10
  <2> DEFINE sign == <<IF o.sign = "NEGATIVE" THEN "-" ELSE Blank>>
             upTo == sign \o Integer(o.integer, 0)
             point == upTo \o <<".">>
             number == point \o Integer(o.fraction, 2)
  <2>1. o.integer \in 0 .. 255 /\ o.fraction \in 0 .. 255
    BY DEF Outdoor
  <2>2. sign \in Seq(Glyphs) /\ Len(sign) = 1
    BY DEF Glyphs
  <2>3. <<".">> \in Seq(Glyphs) /\ Len(<<".">>) = 1
    BY DEF Glyphs
  <2>4. <<"C", Blank>> \in Seq(Glyphs) /\ Len(<<"C", Blank>>) = 2
    BY DEF Glyphs
  <2>5. TextTo(o) = number \o <<"C", Blank>>
    BY DEF TextTo
  <2> HIDE DEF sign
  <2>6. /\ Integer(o.integer, 0) \in Seq(Glyphs) /\ Len(Integer(o.integer, 0)) <= 3
        /\ Integer(o.fraction, 2) \in Seq(Glyphs) /\ Len(Integer(o.fraction, 2)) <= 3
    BY <1>3, <2>1
  <2>7. upTo \in Seq(Glyphs) /\ Len(upTo) = Len(sign) + Len(Integer(o.integer, 0))
    BY <2>2, <2>6, Joined, Zenon
  <2> HIDE DEF upTo
  <2>8. point \in Seq(Glyphs) /\ Len(point) = Len(upTo) + Len(<<".">>)
    BY <2>3, <2>7, Joined, Zenon
  <2> HIDE DEF point
  <2>9. number \in Seq(Glyphs) /\ Len(number) = Len(point) + Len(Integer(o.fraction, 2))
    BY <2>6, <2>8, Joined, Zenon
  <2> HIDE DEF number
  <2>10. TextTo(o) \in Seq(Glyphs) /\ Len(TextTo(o)) = Len(number) + Len(<<"C", Blank>>)
    BY <2>4, <2>5, <2>9, Joined, Zenon
  <2> QED
    BY <2>2, <2>3, <2>4, <2>6, <2>7, <2>8, <2>9, <2>10
<1>5. ASSUME NEW h \in 0 .. 255
      PROVE  TextH(h) \in Seq(Glyphs) /\ Len(TextH(h)) <= 4
  <2>1. <<"%">> \in Seq(Glyphs) /\ Len(<<"%">>) = 1
    BY DEF Glyphs
  <2>2. 0 \in {0, 2} /\ Integer(h, 0) \in Seq(Glyphs) /\ Len(Integer(h, 0)) <= 3
    BY <1>3
  <2>3. TextH(h) \in Seq(Glyphs) /\ Len(TextH(h)) = Len(Integer(h, 0)) + 1
    BY <2>1, <2>2, ConcatProperties DEF TextH
  <2> QED
    BY <2>2, <2>3
<1> QED
  BY <1>1, <1>2, <1>4, <1>5, Zenon

-----------------------------------------------------------------------------
\* One cycle of the main loop.

\* A text changes no cell beside it.
LEMMA BesideText ==
  ASSUME NEW cells, NEW at \in Cells, NEW string \in Seq(Glyphs),
         NEW n \in Nat, Len(string) <= n,
         NEW c \in Cells, c < at \/ at + n <= c
  PROVE  Over(cells, at, string)[c] = cells[c]
<1>1. at \in Int /\ c \in Int /\ Len(string) \in Nat
  BY DEF Cells, Rows, LineLength
<1>2. ~(at <= c /\ c < at + Len(string))
  BY <1>1
<1> QED
  BY <1>2 DEF Over

\* The numbers of a cycle, and the texts made of them.
LEMMA CycleTexts ==
  ASSUME BesideLabels, ScreenTypeOK, GUI_update
  PROVE  /\ TextTi(temperature') \in Seq(Glyphs) /\ Len(TextTi(temperature')) <= 8
         /\ TextP(pressure') \in Seq(Glyphs) /\ Len(TextP(pressure')) <= 11
         /\ TextTo(outdoor') \in Seq(Glyphs) /\ Len(TextTo(outdoor')) <= 10
         /\ TextH(humidity') \in Seq(Glyphs) /\ Len(TextH(humidity')) <= 4
<1>1. temperature' \in Int /\ ShortTemperature(temperature')
  BY DisplayAssumption, Zenon DEF GUI_update, BesideLabels
<1>2. pressure' \in Nat /\ ShortPressure(pressure')
  BY DisplayAssumption, Zenon DEF GUI_update, BesideLabels
<1>3. outdoor' \in Outdoor
  BY DisplayAssumption, Zenon DEF GUI_update, ScreenTypeOK
<1>4. humidity' \in 0 .. 255
  BY DisplayAssumption, Zenon DEF GUI_update
<1> QED
  BY <1>1, <1>2, <1>3, <1>4, TextLengths, Zenon

\* GUI_update() lays its four texts over the cells, one after the other.
LEMMA UpdateCells ==
  ASSUME BesideLabels, ScreenTypeOK, GUI_update
  PROVE  /\ screen' \in Screens
         /\ screen'.cells =
              Over(Over(Over(Over(screen.cells,
                                  3, TextTi(temperature')),
                             43, TextP(pressure')),
                        13, TextTo(outdoor')),
                   57, TextH(humidity'))
<1> DEFINE Ti == TextTi(temperature')
           P == TextP(pressure')
           To == TextTo(outdoor')
           H == TextH(humidity')
<1>1. /\ Ti \in Seq(Glyphs) /\ Len(Ti) <= 8 /\ P \in Seq(Glyphs) /\ Len(P) <= 11
      /\ To \in Seq(Glyphs) /\ Len(To) <= 10 /\ H \in Seq(Glyphs) /\ Len(H) <= 4
  BY CycleTexts
<1>2. screen' = Draw(Draw(Draw(Draw(screen, 1, 4, Ti), 2, 4, P), 1, 14, To), 2, 18, H)
  BY Zenon DEF GUI_update, GUI_draw_BMP280, GUI_draw_DS18B20, GUI_draw_DHT11,
               TextTi, TextP, TextTo, TextH
<1>3. screen \in Screens
  BY DEF ScreenTypeOK, Screens
<1> HIDE DEF Ti, P, To, H
<1> DEFINE s1 == Draw(screen, 1, 4, Ti)
           s2 == Draw(s1, 2, 4, P)
           s3 == Draw(s2, 1, 14, To)
<1>4. s1 \in Screens /\ s1.cells = Over(screen.cells, 3, Ti)
  BY <1>1, <1>3, DrawOver
<1> HIDE DEF s1
<1>5. s2 \in Screens /\ s2.cells = Over(s1.cells, 43, P)
  BY <1>1, <1>4, DrawOver
<1> HIDE DEF s2
<1>6. s3 \in Screens /\ s3.cells = Over(s2.cells, 13, To)
  BY <1>1, <1>5, DrawOver
<1> HIDE DEF s3
<1>7. screen' \in Screens /\ screen'.cells = Over(s3.cells, 57, H)
  <2>1. Draw(s3, 2, 18, H) \in Screens /\ Draw(s3, 2, 18, H).cells = Over(s3.cells, 57, H)
    BY <1>1, <1>6, DrawOver
  <2> QED
    BY <1>2, <2>1 DEF s1, s2, s3
<1> QED
  BY <1>4, <1>5, <1>6, <1>7, Zenon DEF Ti, P, To, H

\* No text reaches a cell outside the four fields.
LEMMA OutsideFields ==
  ASSUME BesideLabels, ScreenTypeOK, GUI_update,
         NEW c \in {0, 1, 2, 11, 12, 40, 41, 42, 54, 55, 56}
  PROVE  screen'.cells[c] = screen.cells[c]
<1>1. c \in Cells /\ {3, 43, 13, 57} \subseteq Cells
  BY DEF Cells, Rows, LineLength
<1>2. /\ c < 3 \/ 3 + 8 <= c
      /\ c < 43 \/ 43 + 11 <= c
      /\ c < 13 \/ 13 + 10 <= c
      /\ c < 57 \/ 57 + 4 <= c
  OBVIOUS
<1> DEFINE s0 == screen.cells
           s1 == Over(s0, 3, TextTi(temperature'))
           s2 == Over(s1, 43, TextP(pressure'))
           s3 == Over(s2, 13, TextTo(outdoor'))
<1> HIDE DEF s0
<1>3. s1[c] = s0[c]
  BY <1>1, <1>2, CycleTexts, BesideText
<1> HIDE DEF s1
<1>4. s2[c] = s1[c]
  BY <1>1, <1>2, CycleTexts, BesideText
<1> HIDE DEF s2
<1>5. s3[c] = s2[c]
  BY <1>1, <1>2, CycleTexts, BesideText
<1> HIDE DEF s3
<1>6. screen'.cells = Over(s3, 57, TextH(humidity'))
  BY UpdateCells, Zenon DEF s0, s1, s2, s3
<1>7. screen'.cells[c] = s3[c]
  BY <1>1, <1>2, <1>6, CycleTexts, BesideText
<1> QED
  BY <1>3, <1>4, <1>5, <1>7 DEF s0

\* The screen keeps its type.
LEMMA UpdateTypeOK ==
  ASSUME BesideLabels, ScreenTypeOK, GUI_update
  PROVE  ScreenTypeOK'
<1>1. screen' \in [cells : [Cells -> Glyphs], cursor : Cells]
  BY UpdateCells DEF Screens
<1>2. inRoom' \in BOOLEAN
  BY Zenon DEF GUI_update, ScreenTypeOK
<1>3. widest' \in 0 .. 3
  <2>1. humidity' \in 0 .. 255
    BY DisplayAssumption, Zenon DEF GUI_update
  <2>2. Digits[humidity'] \in 1 .. 3
    BY <2>1, HumidityDigits, Zenon
  <2>3. widest \in 0 .. 3 /\ widest' = Longer(widest, Digits[humidity'])
    BY Zenon DEF GUI_update, ScreenTypeOK
  <2> QED
    BY <2>2, <2>3, SMT DEF Longer
<1> QED
  BY <1>1, <1>2, <1>3, Zenon DEF GUI_update, ScreenTypeOK

\* What is written once stays: a cycle keeps the labels.
LEMMA UpdateLabels ==
  ASSUME BesideLabels, LabelsInv, GUI_update
  PROVE  LabelsInv'
<1>1. ScreenTypeOK /\ LabelsKept
  BY DEF LabelsInv
<1>2. /\ Seen(1, 1, 3)' = Seen(1, 1, 3)
      /\ Seen(2, 1, 3)' = Seen(2, 1, 3)
      /\ Seen(1, 12, 13)' = Seen(1, 12, 13)
      /\ Seen(2, 15, 17)' = Seen(2, 15, 17)
  BY <1>1, OutsideFields DEF Seen, LineLength
<1>3. LabelsKept'
  BY <1>1, <1>2 DEF LabelsKept
<1> QED
  BY <1>1, <1>3, UpdateTypeOK DEF LabelsInv

-----------------------------------------------------------------------------
\* The first screen.

\* Labels are texts of three characters.
LEMMA LabelText ==
  ASSUME NEW letter \in Glyphs
  PROVE  /\ Label(letter) \in Seq(Glyphs)
         /\ Len(Label(letter)) = 3 /\ Len(Label(letter)) <= 3
         /\ Label(letter)[1] = letter /\ Label(letter)[2] = ":" /\ Label(letter)[3] = Blank
BY DEF Label, Glyphs

\* They take three cells, and leave the others.
LEMMA LabelOver ==
  ASSUME NEW cells, NEW at \in Cells, NEW letter \in Glyphs, at + 2 \in Cells
  PROVE  /\ Over(cells, at, Label(letter))[at] = letter
         /\ Over(cells, at, Label(letter))[at + 1] = ":"
         /\ Over(cells, at, Label(letter))[at + 2] = Blank
         /\ \A c \in Cells : c < at \/ at + 3 <= c =>
              Over(cells, at, Label(letter))[c] = cells[c]
<1>1. at \in Int /\ at + 1 \in Cells /\ \A c \in Cells : c \in Int
  BY DEF Cells, Rows, LineLength
<1>2. ASSUME NEW c \in Cells
      PROVE  Over(cells, at, Label(letter))[c] =
               IF at <= c /\ c < at + 3 THEN Label(letter)[c - at + 1] ELSE cells[c]
  BY LabelText DEF Over
<1>3. at - at + 1 = 1 /\ at + 1 - at + 1 = 2 /\ at + 2 - at + 1 = 3
  BY <1>1
<1> QED
  BY <1>1, <1>2, <1>3, LabelText

\* Four labels on cleared cells.
LEMMA LayoutCells ==
  LET layout == GUI_draw_layout(HD44780_clear)
  IN /\ layout \in Screens
     /\ layout.cells =
          Over(Over(Over(Over([c \in Cells |-> Blank], 0, Label("I")), 40, Label("P")),
                    11, Label("O")), 54, Label("H"))
<1> DEFINE I == Label("I")
           P == Label("P")
           O == Label("O")
           H == Label("H")
           s0 == HD44780_clear
           s1 == HD44780_write_string(s0, I)
           s2 == Draw(s1, 2, 1, P)
           s3 == Draw(s2, 1, 12, O)
           s4 == Draw(s3, 2, 15, H)
<1>1. s0 \in Screens /\ s0.cells = [c \in Cells |-> Blank] /\ s0.cursor = 0
  BY DEF HD44780_clear, Screens, Glyphs, Cells, Rows, LineLength, CellAt, RowsFirstAddr
<1>2. /\ I \in Seq(Glyphs) /\ Len(I) <= 3 /\ P \in Seq(Glyphs) /\ Len(P) <= 3
      /\ O \in Seq(Glyphs) /\ Len(O) <= 3 /\ H \in Seq(Glyphs) /\ Len(H) <= 3
  <2>1. {"I", "P", "O", "H"} \subseteq Glyphs
    BY DEF Glyphs
  <2> QED
    BY <2>1, LabelText, Zenon
<1>3. s4 = GUI_draw_layout(HD44780_clear)
  BY DEF GUI_draw_layout
<1> HIDE DEF s0, I, P, O, H
<1>4. s1 \in Screens /\ s1.cells = Over(s0.cells, 0, I)
  BY <1>1, <1>2, WriteChars DEF HD44780_write_string
<1> HIDE DEF s1
<1>5. s2 \in Screens /\ s2.cells = Over(s1.cells, 40, P)
  BY <1>2, <1>4, DrawOver
<1> HIDE DEF s2
<1>6. s3 \in Screens /\ s3.cells = Over(s2.cells, 11, O)
  BY <1>2, <1>5, DrawOver
<1> HIDE DEF s3
<1>7. s4 \in Screens /\ s4.cells = Over(s3.cells, 54, H)
  BY <1>2, <1>6, DrawOver
<1> QED
  <2> HIDE DEF s4
  <2>1. s1.cells = Over([c \in Cells |-> Blank], 0, I)
    BY <1>1, <1>4, Zenon
  <2>2. s2.cells = Over(Over([c \in Cells |-> Blank], 0, I), 40, P)
    BY <1>5, <2>1, Zenon
  <2>3. s3.cells = Over(Over(Over([c \in Cells |-> Blank], 0, I), 40, P), 11, O)
    BY <1>6, <2>2, Zenon
  <2>4. s4.cells = Over(Over(Over(Over([c \in Cells |-> Blank], 0, I), 40, P), 11, O), 54, H)
    BY <1>7, <2>3, Zenon
  <2> QED
    BY <1>3, <1>7, <2>4, Zenon DEF I, P, O, H

\* What GUI_init() leaves in the cells the proof is about.
LEMMA InitCells ==
  ASSUME GUI_init
  PROVE  /\ screen \in Screens
         /\ screen.cells[0] = "I" /\ screen.cells[1] = ":" /\ screen.cells[2] = Blank
         /\ screen.cells[40] = "P" /\ screen.cells[41] = ":" /\ screen.cells[42] = Blank
         /\ screen.cells[11] = "O" /\ screen.cells[12] = ":"
         /\ screen.cells[54] = "H" /\ screen.cells[55] = ":" /\ screen.cells[56] = Blank
         /\ screen.cells[9] = Blank /\ screen.cells[10] = Blank /\ screen.cells[53] = Blank
         /\ screen.cells[58] = Blank /\ screen.cells[59] = Blank
<1> DEFINE c0 == [c \in Cells |-> Blank]
           c1 == Over(c0, 0, Label("I"))
           c2 == Over(c1, 40, Label("P"))
           c3 == Over(c2, 11, Label("O"))
           c4 == Over(c3, 54, Label("H"))
<1>1. screen \in Screens /\ screen.cells = c4
  BY LayoutCells DEF GUI_init
<1>2. {0, 1, 2, 9, 10, 11, 12, 40, 41, 42, 53, 54, 55, 56, 58, 59} \subseteq Cells
  BY DEF Cells, Rows, LineLength
<1>4. /\ c0[9] = Blank /\ c0[10] = Blank /\ c0[53] = Blank
      /\ c0[58] = Blank /\ c0[59] = Blank
  BY <1>2
<1> HIDE DEF c0
<1>5. /\ c1[0] = "I" /\ c1[1] = ":" /\ c1[2] = Blank
      /\ c1[9] = Blank /\ c1[10] = Blank /\ c1[53] = Blank
      /\ c1[58] = Blank /\ c1[59] = Blank
  <2> DEFINE at == 0
             letter == "I"
  <2>1. at \in Cells /\ at + 2 \in Cells /\ letter \in Glyphs
    BY DEF Cells, Rows, LineLength, Glyphs
  <2>2. c1 = Over(c0, at, Label(letter))
    OBVIOUS
  <2> HIDE DEF at, letter
  <2>3. /\ c1[at] = letter /\ c1[at + 1] = ":" /\ c1[at + 2] = Blank
        /\ \A c \in Cells : c < at \/ at + 3 <= c => c1[c] = c0[c]
    BY <2>1, <2>2, LabelOver
  <2> QED
    BY <1>2, <1>4, <2>3 DEF at, letter
<1> HIDE DEF c1
<1>6. /\ c2[0] = "I" /\ c2[1] = ":" /\ c2[2] = Blank
      /\ c2[40] = "P" /\ c2[41] = ":" /\ c2[42] = Blank
      /\ c2[9] = Blank /\ c2[10] = Blank /\ c2[53] = Blank
      /\ c2[58] = Blank /\ c2[59] = Blank
  <2> DEFINE at == 40
             letter == "P"
  <2>1. at \in Cells /\ at + 2 \in Cells /\ letter \in Glyphs
    BY DEF Cells, Rows, LineLength, Glyphs
  <2>2. c2 = Over(c1, at, Label(letter))
    OBVIOUS
  <2> HIDE DEF at, letter, c2
  <2>3. /\ c2[at] = letter /\ c2[at + 1] = ":" /\ c2[at + 2] = Blank
        /\ \A c \in Cells : c < at \/ at + 3 <= c => c2[c] = c1[c]
    BY <2>1, <2>2, LabelOver
  <2> QED
    BY <1>2, <1>5, <2>3 DEF at, letter
<1> HIDE DEF c2
<1>7. /\ c3[0] = "I" /\ c3[1] = ":" /\ c3[2] = Blank
      /\ c3[40] = "P" /\ c3[41] = ":" /\ c3[42] = Blank
      /\ c3[11] = "O" /\ c3[12] = ":"
      /\ c3[9] = Blank /\ c3[10] = Blank /\ c3[53] = Blank
      /\ c3[58] = Blank /\ c3[59] = Blank
  <2> DEFINE at == 11
             letter == "O"
  <2>1. at \in Cells /\ at + 2 \in Cells /\ letter \in Glyphs
    BY DEF Cells, Rows, LineLength, Glyphs
  <2>2. c3 = Over(c2, at, Label(letter))
    OBVIOUS
  <2> HIDE DEF at, letter, c3
  <2>3. /\ c3[at] = letter /\ c3[at + 1] = ":" /\ c3[at + 2] = Blank
        /\ \A c \in Cells : c < at \/ at + 3 <= c => c3[c] = c2[c]
    BY <2>1, <2>2, LabelOver
  <2> QED
    BY <1>2, <1>6, <2>3 DEF at, letter
<1> HIDE DEF c3
<1>8. /\ c4[0] = "I" /\ c4[1] = ":" /\ c4[2] = Blank
      /\ c4[40] = "P" /\ c4[41] = ":" /\ c4[42] = Blank
      /\ c4[11] = "O" /\ c4[12] = ":"
      /\ c4[54] = "H" /\ c4[55] = ":" /\ c4[56] = Blank
      /\ c4[9] = Blank /\ c4[10] = Blank /\ c4[53] = Blank
      /\ c4[58] = Blank /\ c4[59] = Blank
  <2> DEFINE at == 54
             letter == "H"
  <2>1. at \in Cells /\ at + 2 \in Cells /\ letter \in Glyphs
    BY DEF Cells, Rows, LineLength, Glyphs
  <2>2. c4 = Over(c3, at, Label(letter))
    OBVIOUS
  <2> HIDE DEF at, letter, c4
  <2>3. /\ c4[at] = letter /\ c4[at + 1] = ":" /\ c4[at + 2] = Blank
        /\ \A c \in Cells : c < at \/ at + 3 <= c => c4[c] = c3[c]
    BY <2>1, <2>2, LabelOver
  <2> QED
    BY <1>2, <1>7, <2>3 DEF at, letter
<1> HIDE DEF c4
<1> QED
  BY <1>1, <1>8

\* GUI_init() draws the labels.
LEMMA InitLabels == GUI_init => LabelsInv
<1> SUFFICES ASSUME GUI_init PROVE LabelsInv
  OBVIOUS
<1>1. ScreenTypeOK
  <2>1. 0 \in 0 .. 3
    BY SMT
  <2> QED
    BY <2>1, InitCells, Zenon DEF Screens, GUI_init, ScreenTypeOK
<1>2. /\ Seen(1, 1, 3) = Label("I")
      /\ Seen(2, 1, 3) = Label("P")
      /\ Seen(1, 12, 13) = <<"O", ":">>
      /\ Seen(2, 15, 17) = Label("H")
  BY InitCells DEF Seen, Label, LineLength
<1> QED
  BY <1>1, <1>2 DEF LabelsInv, LabelsKept

\* The layout is drawn once, and however long the station runs no number beside
\* the labels reaches them: any outdoor temperature and humidity the structs can
\* hold, uninitialised ones included, an indoor temperature above -10.00 degrees
\* and below 1000, a pressure of at most four digits before the point.
THEOREM LabelsStay == BesideLabels => (DisplaySpec => []LabelsKept)
<1> SUFFICES ASSUME BesideLabels PROVE DisplaySpec => []LabelsKept
  OBVIOUS
<1>1. LabelsInv /\ [GUI_update]_gui => LabelsInv'
  <2> SUFFICES ASSUME LabelsInv, [GUI_update]_gui PROVE LabelsInv'
    OBVIOUS
  <2>1. CASE GUI_update
    BY <2>1, UpdateLabels
  <2>2. CASE UNCHANGED gui
    BY <2>2 DEF gui, LabelsInv, ScreenTypeOK, LabelsKept, Seen
  <2> QED
    BY <2>1, <2>2
<1>2. LabelsInv => LabelsKept
  BY DEF LabelsInv
<1> QED
  BY InitLabels, <1>1, <1>2, PTL DEF DisplaySpec

-----------------------------------------------------------------------------
\* What a reader sees.

\* A point and two decimals.
LEMMA Decimals ==
  /\ <<".">> \in Seq(Glyphs) /\ DigitString(2) \in Seq(Glyphs)
  /\ <<".", "digit", "digit">> \in Seq(Glyphs) /\ Len(<<".", "digit", "digit">>) = 3
  /\ <<".">> \o DigitString(2) = <<".", "digit", "digit">>
<1> DEFINE a == <<".">>
           b == DigitString(2)
           c == <<".", "digit", "digit">>
<1>1. /\ a \in Seq(Glyphs) /\ Len(a) = 1 /\ a[1] = "."
      /\ c \in Seq(Glyphs) /\ Len(c) = 3 /\ c[1] = "." /\ c[2] = "digit" /\ c[3] = "digit"
  BY DEF Glyphs
<1>2. b \in Seq(Glyphs) /\ Len(b) = 2 /\ b[1] = "digit" /\ b[2] = "digit"
  BY DEF DigitString, Glyphs
<1> HIDE DEF a, b, c
<1>3. /\ a \o b \in Seq(Glyphs) /\ Len(a \o b) = 3
      /\ (a \o b)[1] = "." /\ (a \o b)[2] = "digit" /\ (a \o b)[3] = "digit"
  <2>1. /\ a \o b \in Seq(Glyphs) /\ Len(a \o b) = Len(a) + Len(b)
        /\ \A i \in 1 .. Len(a) + Len(b) :
             (a \o b)[i] = IF i <= Len(a) THEN a[i] ELSE b[i - Len(a)]
    BY <1>1, <1>2, ConcatProperties, Zenon
  <2>2. \A i \in 1 .. 3 : (a \o b)[i] = IF i <= 1 THEN a[i] ELSE b[i - 1]
    BY <1>1, <1>2, <2>1
  <2> QED
    BY <1>1, <1>2, <2>1, <2>2
<1>4. \A i \in 1 .. Len(a \o b) : (a \o b)[i] = c[i]
  BY <1>1, <1>3
<1>5. a \o b = c
  BY <1>1, <1>3, <1>4, SeqEqual
<1> QED
  BY <1>1, <1>2, <1>5, Zenon DEF a, b, c

\* Hundredths that are not negative are written the way they are read.
LEMMA HundredthsText ==
  ASSUME NEW n \in Nat, Digits[n \div 100] \in Nat, 1 <= Digits[n \div 100]
  PROVE  /\ Split(n) = Decimal(n)
         /\ Decimal(n) \in Seq(Glyphs)
         /\ Len(Decimal(n)) = Digits[n \div 100] + 3
         /\ Decimal(n) = DigitString(Digits[n \div 100]) \o (<<".">> \o DigitString(2))
<1> DEFINE i == n \div 100
           f == n - 100 * i
<1>1. i \in Nat /\ f \in Nat /\ f < 100
  BY SMT
<1>2. CDiv(n, 100) = i /\ CMod(n, 100) = f
  BY SMT DEF CDiv, CMod
<1>3. Digits[i] \in Nat /\ 1 <= Digits[i]
  OBVIOUS
<1>4. Decimal(n) = <<>> \o DigitString(Digits[i]) \o <<".", "digit", "digit">>
  BY SMT DEF Decimal
<1>5. Split(n) = Integer(i, 0) \o <<".">> \o Integer(f, 2)
  BY <1>2, Zenon DEF Split
<1> HIDE DEF i, f
<1>6. Digits[f] \in Nat /\ Digits[f] <= 2
  BY <1>1, DigitsBelow, SMT
<1>7. Longer(Digits[i], 0) = Digits[i] /\ Longer(Digits[f], 2) = 2
  BY <1>3, <1>6, SMT DEF Longer
<1>8. Integer(i, 0) = DigitString(Digits[i]) /\ Integer(f, 2) = DigitString(2)
  BY <1>1, <1>7, SMT DEF Integer
<1>9. DigitString(Digits[i]) \in Seq(Glyphs) /\ Len(DigitString(Digits[i])) = Digits[i]
  BY <1>3, DigitText, Zenon
<1>10. <<>> \o DigitString(Digits[i]) = DigitString(Digits[i])
  BY <1>9, ConcatEmptySeq, Zenon
<1>11. Split(n) = DigitString(Digits[i]) \o (<<".">> \o DigitString(2))
  <2> DEFINE a == DigitString(Digits[i])
             b == <<".">>
             c == DigitString(2)
  <2>1. a \in Seq(Glyphs) /\ b \in Seq(Glyphs) /\ c \in Seq(Glyphs)
    BY <1>9, Decimals, Zenon
  <2>2. Split(n) = (a \o b) \o c
    BY <1>5, <1>8, Zenon
  <2> HIDE DEF a, b, c
  <2>3. (a \o b) \o c = a \o (b \o c)
    BY <2>1, Rejoined, Zenon
  <2> QED
    BY <2>2, <2>3, Zenon DEF a, b, c
<1>12. Decimal(n) = DigitString(Digits[i]) \o <<".", "digit", "digit">>
  BY <1>4, <1>10, Zenon
<1>13. Split(n) = Decimal(n)
  BY <1>11, <1>12, Decimals, Zenon
<1>14. /\ Decimal(n) \in Seq(Glyphs)
       /\ Len(Decimal(n)) = Len(DigitString(Digits[i])) + Len(<<".", "digit", "digit">>)
  BY <1>9, <1>12, Decimals, Joined, Zenon
<1>15. Len(Decimal(n)) = Digits[i] + 3
  BY <1>9, <1>14, Decimals
<1> QED
  BY <1>11, <1>13, <1>14, <1>15, Zenon DEF i

\* The texts without the blank at the end.
ShownTi(t) == Decimal(t) \o <<"C">>
ShownP(p) == Decimal(p) \o <<"h", "P", "a">>
ShownTo(o) == <<IF o.sign = "NEGATIVE" THEN "-" ELSE Blank>>
                \o Decimal(o.integer * 100 + o.fraction) \o <<"C">>
ShownH(h) == DigitString(Digits[h]) \o <<"%">>

\* Units are texts, and a blank can follow each.
LEMMA Units ==
  /\ <<Blank>> \in Seq(Glyphs) /\ Len(<<Blank>>) = 1
  /\ <<"%">> \in Seq(Glyphs) /\ Len(<<"%">>) = 1
  /\ <<"C">> \in Seq(Glyphs) /\ Len(<<"C">>) = 1
  /\ <<"h", "P", "a">> \in Seq(Glyphs) /\ Len(<<"h", "P", "a">>) = 3
  /\ <<"C", Blank>> = <<"C">> \o <<Blank>>
  /\ <<"h", "P", "a", Blank>> = <<"h", "P", "a">> \o <<Blank>>
BY DEF Glyphs

\* The blank at the end of a text can be taken off.
LEMMA BlankLast ==
  ASSUME NEW a \in Seq(Glyphs)
  PROVE  /\ a \o <<"C", Blank>> = (a \o <<"C">>) \o <<Blank>>
         /\ a \o <<"h", "P", "a", Blank>> = (a \o <<"h", "P", "a">>) \o <<Blank>>
<1> DEFINE C == <<"C">>
           hPa == <<"h", "P", "a">>
           blank == <<Blank>>
<1>1. C \in Seq(Glyphs) /\ hPa \in Seq(Glyphs) /\ blank \in Seq(Glyphs)
  BY Units, Zenon
<1>2. <<"C", Blank>> = C \o blank /\ <<"h", "P", "a", Blank>> = hPa \o blank
  BY Units, Zenon
<1> HIDE DEF C, hPa, blank
<1>3. a \o (C \o blank) = (a \o C) \o blank
  BY <1>1, Rejoined
<1>4. a \o (hPa \o blank) = (a \o hPa) \o blank
  BY <1>1, Rejoined
<1> QED
  BY <1>2, <1>3, <1>4, Zenon DEF C, hPa, blank

\* Indoor temperatures of a room.
LEMMA RoomTi ==
  ASSUME NEW t \in Int, RoomTemperature(t)
  PROVE  /\ TextTi(t) = ShownTi(t) \o <<Blank>>
         /\ ShownTi(t) \in Seq(Glyphs) /\ 5 <= Len(ShownTi(t)) /\ Len(ShownTi(t)) <= 6
<1>1. t \in Nat /\ t \div 100 \in Nat /\ t \div 100 < 100
  BY SMT DEF RoomTemperature
<1>2. /\ Digits[t \div 100] \in Nat
      /\ 1 <= Digits[t \div 100] /\ Digits[t \div 100] <= 2
  BY <1>1, DigitsBelow, SMT
<1>3. /\ Split(t) = Decimal(t) /\ Decimal(t) \in Seq(Glyphs)
      /\ Len(Decimal(t)) = Digits[t \div 100] + 3
  BY <1>1, <1>2, HundredthsText, Zenon
<1>4. TextTi(t) = ShownTi(t) \o <<Blank>>
  BY <1>3, BlankLast, Zenon DEF TextTi, ShownTi
<1>5. ShownTi(t) \in Seq(Glyphs) /\ Len(ShownTi(t)) = Len(Decimal(t)) + Len(<<"C">>)
  BY <1>3, Units, Joined, Zenon DEF ShownTi
<1> QED
  BY <1>2, <1>3, <1>4, <1>5, Units, SMT

\* Pressures on the surface of the earth.
LEMMA RoomP ==
  ASSUME NEW p \in Nat, RoomPressure(p)
  PROVE  /\ TextP(p) = ShownP(p) \o <<Blank>>
         /\ ShownP(p) \in Seq(Glyphs) /\ 9 <= Len(ShownP(p)) /\ Len(ShownP(p)) <= 10
<1>1. p \div 100 \in Nat /\ 100 <= p \div 100 /\ p \div 100 < 10000
  BY SMT DEF RoomPressure
<1>2. Digits[p \div 100] \in 3 .. 4
  BY <1>1, DigitsExactly, SMT
<1>3. /\ Split(p) = Decimal(p) /\ Decimal(p) \in Seq(Glyphs)
      /\ Len(Decimal(p)) = Digits[p \div 100] + 3
  <2>1. Digits[p \div 100] \in Nat /\ 1 <= Digits[p \div 100]
    BY <1>2, SMT
  <2> QED
    BY <2>1, HundredthsText, Zenon
<1>4. TextP(p) = ShownP(p) \o <<Blank>>
  BY <1>3, BlankLast, Zenon DEF TextP, ShownP
<1>5. ShownP(p) \in Seq(Glyphs) /\ Len(ShownP(p)) = Len(Decimal(p)) + Len(<<"h", "P", "a">>)
  BY <1>3, Units, Joined, Zenon DEF ShownP
<1> QED
  BY <1>2, <1>3, <1>4, <1>5, Units, SMT

\* Outdoor temperatures of one or two digits and two decimals.
LEMMA RoomTo ==
  ASSUME NEW o \in Outdoor, OutdoorDigits(o)
  PROVE  /\ TextTo(o) = ShownTo(o) \o <<Blank>>
         /\ ShownTo(o) \in Seq(Glyphs) /\ 6 <= Len(ShownTo(o)) /\ Len(ShownTo(o)) <= 7
<1> DEFINE i == o.integer
           f == o.fraction
           n == i * 100 + f
           s == <<IF o.sign = "NEGATIVE" THEN "-" ELSE Blank>>
<1>1. i \in Nat /\ i < 100 /\ f \in Nat /\ f < 100
  BY DEF Outdoor, OutdoorDigits
<1>2. s \in Seq(Glyphs) /\ Len(s) = 1
  BY DEF Glyphs
<1>3. TextTo(o) = s \o Integer(i, 0) \o <<".">> \o Integer(f, 2) \o <<"C", Blank>>
  BY Zenon DEF TextTo
<1>4. ShownTo(o) = s \o Decimal(n) \o <<"C">>
  BY Zenon DEF ShownTo
<1> HIDE DEF i, f, s
<1>5. n \in Nat /\ n \div 100 = i
  BY <1>1, SMT
<1>6. /\ Digits[i] \in Nat /\ 1 <= Digits[i] /\ Digits[i] <= 2
      /\ Digits[f] \in Nat /\ Digits[f] <= 2
  BY <1>1, DigitsBelow, SMT
<1> HIDE DEF n
<1>7. /\ Decimal(n) \in Seq(Glyphs) /\ Len(Decimal(n)) = Digits[i] + 3
      /\ Decimal(n) = DigitString(Digits[i]) \o (<<".">> \o DigitString(2))
  BY <1>5, <1>6, HundredthsText, Zenon
<1>8. Integer(i, 0) = DigitString(Digits[i]) /\ Integer(f, 2) = DigitString(2)
  <2>1. Longer(Digits[i], 0) = Digits[i] /\ Longer(Digits[f], 2) = 2
    BY <1>6, SMT DEF Longer
  <2> QED
    BY <1>1, <2>1, SMT DEF Integer
<1>9. s \o Integer(i, 0) \o <<".">> \o Integer(f, 2) = s \o Decimal(n)
  <2> DEFINE a == DigitString(Digits[i])
             b == <<".">>
             c == DigitString(2)
  <2>1. a \in Seq(Glyphs) /\ b \in Seq(Glyphs) /\ c \in Seq(Glyphs)
    BY <1>6, DigitText, Decimals, Zenon
  <2> HIDE DEF a, b, c
  <2>2. b \o c \in Seq(Glyphs) /\ s \o a \in Seq(Glyphs)
    BY <1>2, <2>1, Joined, Zenon
  <2>3. ((s \o a) \o b) \o c = (s \o a) \o (b \o c)
    BY <2>1, <2>2, Rejoined, Zenon
  <2>4. (s \o a) \o (b \o c) = s \o (a \o (b \o c))
    BY <1>2, <2>1, <2>2, Rejoined, Zenon
  <2> QED
    BY <1>7, <1>8, <2>3, <2>4, Zenon DEF a, b, c
<1>10. s \o Decimal(n) \in Seq(Glyphs) /\ Len(s \o Decimal(n)) = Len(s) + Len(Decimal(n))
  BY <1>2, <1>7, Joined, Zenon
<1>11. TextTo(o) = ShownTo(o) \o <<Blank>>
  <2> DEFINE text == s \o Decimal(n)
  <2>1. TextTo(o) = text \o <<"C", Blank>> /\ ShownTo(o) = text \o <<"C">>
    BY <1>3, <1>4, <1>9, Zenon
  <2>2. text \in Seq(Glyphs)
    BY <1>10, Zenon
  <2> HIDE DEF text
  <2> QED
    BY <2>1, <2>2, BlankLast, Zenon
<1>12. /\ ShownTo(o) \in Seq(Glyphs)
       /\ Len(ShownTo(o)) = Len(s \o Decimal(n)) + Len(<<"C">>)
  BY <1>4, <1>10, Units, Joined, Zenon
<1> QED
  BY <1>2, <1>6, <1>7, <1>10, <1>11, <1>12, Units, SMT

\* Humidities of any number of digits.
LEMMA HumidityText ==
  ASSUME NEW h \in 0 .. 255
  PROVE  /\ TextH(h) = ShownH(h) /\ ShownH(h) \in Seq(Glyphs)
         /\ Digits[h] \in 1 .. 3 /\ Len(ShownH(h)) = Digits[h] + 1
<1> DEFINE a == DigitString(Digits[h])
           b == <<"%">>
<1>1. Digits[h] \in 1 .. 3
  BY HumidityDigits
<1>2. Longer(Digits[h], 0) = Digits[h]
  BY <1>1, SMT DEF Longer
<1>3. Integer(h, 0) = a
  BY <1>2, SMT DEF Integer
<1>4. a \in Seq(Glyphs) /\ Len(a) = Digits[h]
  <2>1. Digits[h] \in Nat
    BY <1>1, SMT
  <2> QED
    BY <2>1, DigitText, Zenon
<1>5. TextH(h) = a \o b /\ ShownH(h) = a \o b
  BY <1>3, Zenon DEF TextH, ShownH
<1>6. b \in Seq(Glyphs) /\ Len(b) = 1
  BY Units, Zenon
<1> HIDE DEF a, b
<1>7. a \o b \in Seq(Glyphs) /\ Len(a \o b) = Len(a) + Len(b)
  BY <1>4, <1>6, Joined, Zenon
<1> QED
  BY <1>1, <1>4, <1>5, <1>6, <1>7, Zenon

-----------------------------------------------------------------------------
\* A cycle in a room.

\* Each of the four texts is the last one drawn in its own field.
LEMMA Fields ==
  ASSUME BesideLabels, ScreenTypeOK, GUI_update, NEW c \in Cells
  PROVE  /\ 3 <= c /\ c < 11 =>
              screen'.cells[c] = Over(screen.cells, 3, TextTi(temperature'))[c]
         /\ 43 <= c /\ c < 54 =>
              screen'.cells[c] = Over(screen.cells, 43, TextP(pressure'))[c]
         /\ 13 <= c /\ c < 23 =>
              screen'.cells[c] = Over(screen.cells, 13, TextTo(outdoor'))[c]
         /\ 57 <= c /\ c < 61 =>
              screen'.cells[c] = Over(screen.cells, 57, TextH(humidity'))[c]
<1> DEFINE Ti == TextTi(temperature')
           P == TextP(pressure')
           To == TextTo(outdoor')
           H == TextH(humidity')
           s0 == screen.cells
           s1 == Over(s0, 3, Ti)
           s2 == Over(s1, 43, P)
           s3 == Over(s2, 13, To)
           s4 == Over(s3, 57, H)
<1>1. /\ Ti \in Seq(Glyphs) /\ Len(Ti) <= 8 /\ P \in Seq(Glyphs) /\ Len(P) <= 11
      /\ To \in Seq(Glyphs) /\ Len(To) <= 10 /\ H \in Seq(Glyphs) /\ Len(H) <= 4
  BY CycleTexts
<1>2. screen'.cells = s4
  BY UpdateCells, Zenon
<1>3. c \in Int /\ {3, 43, 13, 57} \subseteq Cells
  BY DEF Cells, Rows, LineLength
<1> HIDE DEF Ti, P, To, H, s0
<1>4. c < 3 \/ 11 <= c => s1[c] = s0[c]
  BY <1>1, <1>3, BesideText
<1> HIDE DEF s1
<1>5. /\ c < 43 \/ 54 <= c => s2[c] = s1[c]
      /\ s1[c] = s0[c] => s2[c] = Over(s0, 43, P)[c]
  <2>1. c < 43 \/ 54 <= c => s2[c] = s1[c]
    BY <1>1, <1>3, BesideText
  <2>2. s1[c] = s0[c] => s2[c] = Over(s0, 43, P)[c]
    BY DEF Over
  <2> QED
    BY <2>1, <2>2
<1> HIDE DEF s2
<1>6. /\ c < 13 \/ 23 <= c => s3[c] = s2[c]
      /\ s2[c] = s0[c] => s3[c] = Over(s0, 13, To)[c]
  <2>1. c < 13 \/ 23 <= c => s3[c] = s2[c]
    BY <1>1, <1>3, BesideText
  <2>2. s2[c] = s0[c] => s3[c] = Over(s0, 13, To)[c]
    BY DEF Over
  <2> QED
    BY <2>1, <2>2
<1> HIDE DEF s3
<1>7. /\ c < 57 \/ 61 <= c => s4[c] = s3[c]
      /\ s3[c] = s0[c] => s4[c] = Over(s0, 57, H)[c]
  <2>1. c < 57 \/ 61 <= c => s4[c] = s3[c]
    BY <1>1, <1>3, BesideText
  <2>2. s3[c] = s0[c] => s4[c] = Over(s0, 57, H)[c]
    BY DEF Over
  <2> QED
    BY <2>1, <2>2
<1> HIDE DEF s4
<1>8. 3 <= c /\ c < 11 => s4[c] = Over(s0, 3, Ti)[c]
  BY <1>3, <1>5, <1>6, <1>7 DEF s1
<1>9. /\ 43 <= c /\ c < 54 => s4[c] = Over(s0, 43, P)[c]
      /\ 13 <= c /\ c < 23 => s4[c] = Over(s0, 13, To)[c]
      /\ 57 <= c /\ c < 61 => s4[c] = Over(s0, 57, H)[c]
  BY <1>3, <1>4, <1>5, <1>6, <1>7
<1> QED
  BY <1>2, <1>8, <1>9, Zenon DEF Ti, P, To, H, s0

\* A text and its blank cover a field whose other cells are blank.
LEMMA BlankCovers ==
  ASSUME NEW cells, NEW at \in Cells, NEW width \in Nat, at + width <= 80,
         NEW text \in Seq(Glyphs), Len(text) <= width,
         \A c \in Cells : at + Len(text) < c /\ c < at + width => cells[c] = Blank
  PROVE  \A i \in 1 .. width :
           Over(cells, at, text \o <<Blank>>)[at + i - 1] =
             IF i <= Len(text) THEN text[i] ELSE Blank
<1> SUFFICES ASSUME NEW i \in 1 .. width
             PROVE  Over(cells, at, text \o <<Blank>>)[at + i - 1] =
                      IF i <= Len(text) THEN text[i] ELSE Blank
  OBVIOUS
<1> DEFINE c == at + i - 1
           blank == <<Blank>>
           string == text \o blank
<1>1. c \in Cells /\ at \in Int /\ c - at + 1 = i /\ Len(text) \in Nat /\ at <= c
      /\ c < at + width /\ i \in Nat /\ 1 <= i
  <2>1. at \in Nat /\ i \in Nat /\ 1 <= i /\ i <= width /\ Len(text) \in Nat
    <3>1. at \in Nat
      BY DEF Cells, Rows, LineLength
    <3>2. Len(text) \in Nat
      BY LenProperties
    <3>3. i \in Nat /\ 1 <= i /\ i <= width
      OBVIOUS
    <3> QED
      BY <3>1, <3>2, <3>3
  <2>2. c \in 0 .. 79
    BY <2>1
  <2> QED
    BY <2>1, <2>2 DEF Cells, Rows, LineLength
<1>2. blank \in Seq(Glyphs) /\ Len(blank) = 1 /\ blank[1] = Blank
  BY DEF Glyphs
<1> HIDE DEF blank
<1>3. /\ Len(string) = Len(text) + Len(blank)
      /\ \A k \in 1 .. Len(text) + Len(blank) :
           string[k] = IF k <= Len(text) THEN text[k] ELSE blank[k - Len(text)]
  BY <1>2, ConcatProperties, Zenon
<1> HIDE DEF string
<1>4. Over(cells, at, string)[c] =
        IF at <= c /\ c < at + Len(string) THEN string[c - at + 1] ELSE cells[c]
  BY <1>1 DEF Over
<1> HIDE DEF c
<1>5. CASE i <= Len(text)
  <2>1. string[i] = text[i] /\ c < at + Len(string)
    BY <1>1, <1>2, <1>3, <1>5
  <2> QED
    BY <1>1, <1>4, <1>5, <2>1, Zenon DEF c, string, blank
<1>6. CASE i = Len(text) + 1
  <2>1. string[i] = Blank /\ c < at + Len(string) /\ ~(i <= Len(text))
    BY <1>1, <1>2, <1>3, <1>6
  <2> QED
    BY <1>1, <1>4, <2>1, Zenon DEF c, string, blank
<1>7. CASE Len(text) + 1 < i
  <2>1. ~(c < at + Len(string)) /\ at + Len(text) < c /\ ~(i <= Len(text))
    BY <1>1, <1>2, <1>3, <1>7
  <2>2. cells[c] = Blank
    BY <1>1, <2>1
  <2> QED
    BY <1>4, <2>1, <2>2, Zenon DEF c, string, blank
<1> QED
  BY <1>1, <1>5, <1>6, <1>7

\* A text covers as many cells as it has characters, and leaves the others.
LEMMA TextCovers ==
  ASSUME NEW cells, NEW at \in Cells, NEW width \in Nat, at + width <= 80,
         NEW text \in Seq(Glyphs), NEW i \in 1 .. width
  PROVE  Over(cells, at, text)[at + i - 1] =
           IF i <= Len(text) THEN text[i] ELSE cells[at + i - 1]
<1> DEFINE c == at + i - 1
<1>1. /\ c \in Cells /\ at \in Int /\ c - at + 1 = i /\ at <= c
      /\ c < at + Len(text) <=> i <= Len(text)
  <2>1. Len(text) \in Nat
    BY LenProperties
  <2> QED
    BY <2>1 DEF Cells, Rows, LineLength
<1> QED
  BY <1>1 DEF Over

\* What EndsBlank says of the cells.
LEMMA EndCells ==
  EndsBlank <=> /\ screen.cells[9] = Blank /\ screen.cells[10] = Blank
                /\ screen.cells[53] = Blank
<1>1. Seen(1, 10, 11) = [i \in 1 .. 2 |-> screen.cells[8 + i]]
  BY DEF Seen, LineLength
<1>2. Seen(2, 14, 14) = [i \in 1 .. 1 |-> screen.cells[52 + i]]
  BY DEF Seen, LineLength
<1> QED
  BY <1>1, <1>2 DEF EndsBlank

\* The indoor temperature.
LEMMA ShowsTi ==
  ASSUME BesideLabels, RoomTemperature(temperature'), ScreenTypeOK, EndsBlank, GUI_update
  PROVE  /\ Shows(1, 4, 11, ShownTi(temperature))'
         /\ screen'.cells[9] = Blank /\ screen'.cells[10] = Blank
<1> DEFINE text == ShownTi(temperature')
<1>1. /\ TextTi(temperature') = text \o <<Blank>>
      /\ text \in Seq(Glyphs) /\ 5 <= Len(text) /\ Len(text) <= 6
  <2>1. temperature' \in Int /\ RoomTemperature(temperature')
    BY DisplayAssumption, Zenon DEF GUI_update
  <2> QED
    BY <2>1, RoomTi, Zenon
<1>2. \A c \in Cells : 3 <= c /\ c < 11 =>
        screen'.cells[c] = Over(screen.cells, 3, text \o <<Blank>>)[c]
  BY <1>1, Fields, Zenon
<1>3. Shows(1, 4, 11, ShownTi(temperature))' <=>
        /\ Len(text) <= 8
        /\ [i \in 1 .. 8 |-> screen'.cells[2 + i]] =
             [i \in 1 .. 8 |-> IF i <= Len(text) THEN text[i] ELSE Blank]
  BY DEF Shows, Seen, LineLength
<1> HIDE DEF text
<1>4. \A i \in 1 .. 8 : screen'.cells[2 + i] = IF i <= Len(text) THEN text[i] ELSE Blank
  <2> DEFINE old == screen.cells
  <2>1. old[9] = Blank /\ old[10] = Blank
    BY EndCells
  <2> HIDE DEF old
  <2>2. 3 \in Cells /\ \A c \in Cells : c \in Int
    BY DEF Cells, Rows, LineLength
  <2>3. \A c \in Cells : 3 + Len(text) < c /\ c < 3 + 8 => old[c] = Blank
    BY <1>1, <2>1, <2>2
  <2>4. \A i \in 1 .. 8 : Over(old, 3, text \o <<Blank>>)[3 + i - 1] =
                             IF i <= Len(text) THEN text[i] ELSE Blank
    <3> DEFINE at == 3
               width == 8
    <3>1. at \in Cells /\ width \in Nat /\ at + width <= 80 /\ Len(text) <= width
      BY <1>1, <2>2
    <3>2. \A c \in Cells : at + Len(text) < c /\ c < at + width => old[c] = Blank
      BY <2>3
    <3> HIDE DEF at, width
    <3>3. text \in Seq(Glyphs)
      BY <1>1, Zenon
    <3>4. \A i \in 1 .. width : Over(old, at, text \o <<Blank>>)[at + i - 1] =
                                 IF i <= Len(text) THEN text[i] ELSE Blank
      BY <3>1, <3>2, <3>3, BlankCovers, Zenon
    <3> QED
      BY <3>4 DEF at, width
  <2>5. ASSUME NEW i \in 1 .. 8
        PROVE  3 + i - 1 = 2 + i /\ 2 + i \in Cells /\ 3 <= 2 + i /\ 2 + i < 11
    BY DEF Cells, Rows, LineLength
  <2> QED
    BY <1>2, <2>4, <2>5 DEF old
<1>5. screen'.cells[9] = Blank /\ screen'.cells[10] = Blank
  <2>1. screen'.cells[2 + 7] = Blank /\ screen'.cells[2 + 8] = Blank
    BY <1>1, <1>4
  <2> QED
    BY <2>1
<1> QED
  BY <1>1, <1>3, <1>4, <1>5

\* The pressure.
LEMMA ShowsP ==
  ASSUME BesideLabels, RoomPressure(pressure'), ScreenTypeOK, EndsBlank, GUI_update
  PROVE  Shows(2, 4, 14, ShownP(pressure))' /\ screen'.cells[53] = Blank
<1> DEFINE text == ShownP(pressure')
<1>1. /\ TextP(pressure') = text \o <<Blank>>
      /\ text \in Seq(Glyphs) /\ 9 <= Len(text) /\ Len(text) <= 10
  <2>1. pressure' \in Nat /\ RoomPressure(pressure')
    BY DisplayAssumption, Zenon DEF GUI_update
  <2> QED
    BY <2>1, RoomP, Zenon
<1>2. \A c \in Cells : 43 <= c /\ c < 54 =>
        screen'.cells[c] = Over(screen.cells, 43, text \o <<Blank>>)[c]
  BY <1>1, Fields, Zenon
<1>3. Shows(2, 4, 14, ShownP(pressure))' <=>
        /\ Len(text) <= 11
        /\ [i \in 1 .. 11 |-> screen'.cells[42 + i]] =
             [i \in 1 .. 11 |-> IF i <= Len(text) THEN text[i] ELSE Blank]
  BY DEF Shows, Seen, LineLength
<1> HIDE DEF text
<1>4. \A i \in 1 .. 11 : screen'.cells[42 + i] = IF i <= Len(text) THEN text[i] ELSE Blank
  <2> DEFINE old == screen.cells
  <2>1. old[53] = Blank
    BY EndCells
  <2> HIDE DEF old
  <2>2. 43 \in Cells /\ \A c \in Cells : c \in Int
    BY DEF Cells, Rows, LineLength
  <2>3. \A c \in Cells : 43 + Len(text) < c /\ c < 43 + 11 => old[c] = Blank
    BY <1>1, <2>1, <2>2
  <2>4. \A i \in 1 .. 11 : Over(old, 43, text \o <<Blank>>)[43 + i - 1] =
                              IF i <= Len(text) THEN text[i] ELSE Blank
    <3> DEFINE at == 43
               width == 11
    <3>1. at \in Cells /\ width \in Nat /\ at + width <= 80 /\ Len(text) <= width
      BY <1>1, <2>2
    <3>2. \A c \in Cells : at + Len(text) < c /\ c < at + width => old[c] = Blank
      BY <2>3
    <3> HIDE DEF at, width
    <3>3. text \in Seq(Glyphs)
      BY <1>1, Zenon
    <3>4. \A i \in 1 .. width : Over(old, at, text \o <<Blank>>)[at + i - 1] =
                                 IF i <= Len(text) THEN text[i] ELSE Blank
      BY <3>1, <3>2, <3>3, BlankCovers, Zenon
    <3> QED
      BY <3>4 DEF at, width
  <2>5. ASSUME NEW i \in 1 .. 11
        PROVE  43 + i - 1 = 42 + i /\ 42 + i \in Cells /\ 43 <= 42 + i /\ 42 + i < 54
    BY DEF Cells, Rows, LineLength
  <2> QED
    BY <1>2, <2>4, <2>5 DEF old
<1>5. screen'.cells[53] = Blank
  <2>1. 11 \in 1 .. 11 /\ ~(11 <= Len(text)) /\ 42 + 11 = 53
    BY <1>1
  <2> QED
    BY <1>4, <2>1
<1> QED
  BY <1>1, <1>3, <1>4, <1>5

\* The outdoor temperature, which covers its field whatever was there.
LEMMA ShowsTo ==
  ASSUME BesideLabels, ScreenTypeOK, GUI_update, outdoor' # Uninitialised,
         OutdoorDigits(outdoor')
  PROVE  Shows(1, 14, 20, ShownTo(outdoor))'
<1> DEFINE text == ShownTo(outdoor')
<1>1. /\ TextTo(outdoor') = text \o <<Blank>>
      /\ text \in Seq(Glyphs) /\ 6 <= Len(text) /\ Len(text) <= 7
  <2>1. outdoor' \in Outdoors
    BY Zenon DEF GUI_update, ScreenTypeOK
  <2>2. outdoor' \in Outdoor /\ OutdoorDigits(outdoor')
    BY <2>1, DisplayAssumption, Zenon
  <2> QED
    BY <2>2, RoomTo, Zenon
<1>2. \A c \in Cells : 13 <= c /\ c < 23 =>
        screen'.cells[c] = Over(screen.cells, 13, text \o <<Blank>>)[c]
  BY <1>1, Fields, Zenon
<1>3. Shows(1, 14, 20, ShownTo(outdoor))' <=>
        /\ Len(text) <= 7
        /\ [i \in 1 .. 7 |-> screen'.cells[12 + i]] =
             [i \in 1 .. 7 |-> IF i <= Len(text) THEN text[i] ELSE Blank]
  BY DEF Shows, Seen, LineLength
<1> HIDE DEF text
<1>4. \A i \in 1 .. 7 : screen'.cells[12 + i] = IF i <= Len(text) THEN text[i] ELSE Blank
  <2> DEFINE old == screen.cells
  <2> HIDE DEF old
  <2>2. 13 \in Cells /\ \A c \in Cells : c \in Int
    BY DEF Cells, Rows, LineLength
  <2>3. \A c \in Cells : 13 + Len(text) < c /\ c < 13 + 7 => old[c] = Blank
    BY <1>1, <2>2
  <2>4. \A i \in 1 .. 7 : Over(old, 13, text \o <<Blank>>)[13 + i - 1] =
                             IF i <= Len(text) THEN text[i] ELSE Blank
    <3> DEFINE at == 13
               width == 7
    <3>1. at \in Cells /\ width \in Nat /\ at + width <= 80 /\ Len(text) <= width
      BY <1>1, <2>2
    <3>2. \A c \in Cells : at + Len(text) < c /\ c < at + width => old[c] = Blank
      BY <2>3
    <3> HIDE DEF at, width
    <3>3. text \in Seq(Glyphs)
      BY <1>1, Zenon
    <3>4. \A i \in 1 .. width : Over(old, at, text \o <<Blank>>)[at + i - 1] =
                                 IF i <= Len(text) THEN text[i] ELSE Blank
      BY <3>1, <3>2, <3>3, BlankCovers, Zenon
    <3> QED
      BY <3>4 DEF at, width
  <2>5. ASSUME NEW i \in 1 .. 7
        PROVE  13 + i - 1 = 12 + i /\ 12 + i \in Cells /\ 13 <= 12 + i /\ 12 + i < 23
    BY DEF Cells, Rows, LineLength
  <2> QED
    BY <1>2, <2>4, <2>5 DEF old
<1> QED
  BY <1>1, <1>3, <1>4

\* The humidity, which has no blank: behind it stays what was there.
LEMMA ShowsH ==
  ASSUME BesideLabels, ScreenTypeOK, RestBlank, GUI_update
  PROVE  ShowsOver(2, 18, 20, ShownH(humidity), widest + 1)' /\ RestBlank'
<1> DEFINE text == ShownH(humidity')
<1>1. /\ TextH(humidity') = text /\ text \in Seq(Glyphs)
      /\ Digits[humidity'] \in 1 .. 3 /\ Len(text) = Digits[humidity'] + 1
  <2>1. humidity' \in 0 .. 255
    BY DisplayAssumption, Zenon DEF GUI_update
  <2> QED
    BY <2>1, HumidityText, Zenon
<1>2. \A c \in Cells : 57 <= c /\ c < 61 =>
        screen'.cells[c] = Over(screen.cells, 57, text)[c]
  BY <1>1, Fields, Zenon
<1>3. Seen(2, 18, 20) = [i \in 1 .. 3 |-> screen.cells[56 + i]]
  BY DEF Seen, LineLength
<1>4. Seen(2, 18, 20)' = [i \in 1 .. 3 |-> screen'.cells[56 + i]]
  BY DEF Seen, LineLength
<1>5. /\ widest \in Nat /\ widest' \in Nat /\ Len(text) \in Nat
      /\ widest <= widest' /\ Len(text) <= widest' + 1
  <2>1. widest \in 0 .. 3 /\ widest' = Longer(widest, Digits[humidity'])
    BY Zenon DEF GUI_update, ScreenTypeOK
  <2> QED
    BY <1>1, <2>1, SMT DEF Longer
<1>6. ShowsOver(2, 18, 20, ShownH(humidity), widest + 1)' <=>
        \A i \in 1 .. 3 : /\ i <= Len(text) => Seen(2, 18, 20)'[i] = text[i]
                          /\ widest' + 1 < i => Seen(2, 18, 20)'[i] = Blank
  BY DEF ShowsOver
<1>7. RestBlank' <=> \A i \in 1 .. 3 : widest' + 1 < i => Seen(2, 18, 20)'[i] = Blank
  BY DEF RestBlank
<1> HIDE DEF text
<1>8. ASSUME NEW i \in 1 .. 3
      PROVE  screen'.cells[56 + i] = IF i <= Len(text) THEN text[i] ELSE screen.cells[56 + i]
  <2> DEFINE old == screen.cells
  <2> HIDE DEF old
  <2>1. 57 \in Cells
    BY DEF Cells, Rows, LineLength
  <2>2. Over(old, 57, text)[57 + i - 1] = IF i <= Len(text) THEN text[i] ELSE old[57 + i - 1]
    <3> DEFINE at == 57
               width == 3
    <3>1. at \in Cells /\ width \in Nat /\ at + width <= 80 /\ i \in 1 .. width
      BY <2>1
    <3> HIDE DEF at, width
    <3>2. text \in Seq(Glyphs)
      BY <1>1, Zenon
    <3>3. Over(old, at, text)[at + i - 1] =
            IF i <= Len(text) THEN text[i] ELSE old[at + i - 1]
      BY <3>1, <3>2, TextCovers, Zenon
    <3> QED
      BY <3>3 DEF at, width
  <2>3. 57 + i - 1 = 56 + i /\ 56 + i \in Cells /\ 57 <= 56 + i /\ 56 + i < 61
    BY DEF Cells, Rows, LineLength
  <2>4. screen'.cells[56 + i] = Over(old, 57, text)[56 + i]
    BY <1>2, <2>3, Zenon DEF old
  <2> QED
    BY <2>2, <2>3, <2>4 DEF old
<1>9. ASSUME NEW i \in 1 .. 3
      PROVE  /\ i <= Len(text) => Seen(2, 18, 20)'[i] = text[i]
             /\ widest' + 1 < i => Seen(2, 18, 20)'[i] = Blank
  <2>1. Seen(2, 18, 20)'[i] = screen'.cells[56 + i] /\ Seen(2, 18, 20)[i] = screen.cells[56 + i]
    BY <1>3, <1>4
  <2>2. i <= Len(text) => Seen(2, 18, 20)'[i] = text[i]
    BY <1>8, <2>1, Zenon
  <2>3. ASSUME widest' + 1 < i
        PROVE  Seen(2, 18, 20)'[i] = Blank
    <3>1. ~(i <= Len(text)) /\ widest + 1 < i
      <4>1. \A l, v, w, k \in Nat :
              l <= w + 1 /\ v <= w /\ w + 1 < k => ~(k <= l) /\ v + 1 < k
        BY SMT
      <4>2. i \in Nat
        BY SMT
      <4> QED
        BY <1>5, <2>3, <4>1, <4>2, Zenon
    <3>2. Seen(2, 18, 20)[i] = Blank
      BY <3>1, Zenon DEF RestBlank
    <3> QED
      BY <1>8, <2>1, <3>1, <3>2, Zenon
  <2> QED
    BY <2>2, <2>3, Zenon
<1> QED
  BY <1>6, <1>7, <1>9, Zenon

-----------------------------------------------------------------------------
\* DisplayInv holds when GUI_init() returns.
LEMMA InitDisplayInv == GUI_init => DisplayInv
<1> SUFFICES ASSUME GUI_init PROVE DisplayInv
  OBVIOUS
<1>1. EndsBlank
  BY InitCells, EndCells
<1>2. RestBlank
  <2>1. widest = 0
    BY DEF GUI_init
  <2>2. ASSUME NEW i \in 1 .. 3, widest + 1 < i
        PROVE  Seen(2, 18, 20)[i] = Blank
    <3>1. i = 2 \/ i = 3
      BY <2>1, <2>2
    <3>2. Seen(2, 18, 20)[i] = screen.cells[56 + i]
      BY DEF Seen, LineLength
    <3> QED
      BY <3>1, <3>2, InitCells
  <2> QED
    BY <2>2 DEF RestBlank
<1>3. ShowsMeasurements
  BY Zenon DEF GUI_init, ShowsMeasurements
<1> QED
  BY <1>1, <1>2, <1>3, InitLabels, Zenon DEF DisplayInv

\* A cycle keeps it.
LEMMA UpdateDisplayInv ==
  ASSUME BesideLabels, DisplayInv, GUI_update
  PROVE  DisplayInv'
<1>1. LabelsInv /\ ScreenTypeOK /\ RestBlank /\ (inRoom => EndsBlank)
  BY Zenon DEF DisplayInv, LabelsInv
<1>2. LabelsInv'
  BY <1>1, UpdateLabels, Zenon
<1>3. inRoom' => EndsBlank /\ RoomTemperature(temperature') /\ RoomPressure(pressure')
  BY <1>1, Zenon DEF GUI_update
<1>4. inRoom' => EndsBlank'
  <2> SUFFICES ASSUME inRoom' PROVE EndsBlank'
    OBVIOUS
  <2>1. screen'.cells[9] = Blank /\ screen'.cells[10] = Blank /\ screen'.cells[53] = Blank
    BY <1>1, <1>3, ShowsTi, ShowsP, Zenon
  <2>2. Seen(1, 10, 11)' = [i \in 1 .. 2 |-> screen'.cells[8 + i]]
    BY DEF Seen, LineLength
  <2>3. Seen(2, 14, 14)' = [i \in 1 .. 1 |-> screen'.cells[52 + i]]
    BY DEF Seen, LineLength
  <2> QED
    BY <2>1, <2>2, <2>3 DEF EndsBlank
<1>5. RestBlank'
  BY <1>1, ShowsH, Zenon
<1>6. ShowsMeasurements'
  <2>1. inRoom' => Shows(1, 4, 11, Decimal(temperature) \o <<"C">>)'
    BY <1>1, <1>3, ShowsTi, Zenon DEF ShownTi
  <2>2. inRoom' => Shows(2, 4, 14, Decimal(pressure) \o <<"h", "P", "a">>)'
    BY <1>1, <1>3, ShowsP, Zenon DEF ShownP
  <2>3. outdoor' # Uninitialised /\ OutdoorDigits(outdoor') =>
          Shows(1, 14, 20, <<IF outdoor.sign = "NEGATIVE" THEN "-" ELSE Blank>>
                             \o Decimal(outdoor.integer * 100 + outdoor.fraction)
                             \o <<"C">>)'
    BY <1>1, ShowsTo, Zenon DEF ShownTo
  <2>4. ShowsOver(2, 18, 20, DigitString(Digits[humidity]) \o <<"%">>, widest + 1)'
    BY <1>1, ShowsH, Zenon DEF ShownH
  <2> QED
    BY <2>1, <2>2, <2>3, <2>4, Zenon DEF ShowsMeasurements
<1> QED
  BY <1>2, <1>4, <1>5, <1>6, Zenon DEF DisplayInv

\* The inductive invariant of the display: the labels, the cells that only blanks
\* reach, and the last measurements between them.
THEOREM DisplayInvariance == BesideLabels => (DisplaySpec => []DisplayInv)
<1> SUFFICES ASSUME BesideLabels PROVE DisplaySpec => []DisplayInv
  OBVIOUS
<1>1. DisplayInv /\ [GUI_update]_gui => DisplayInv'
  <2> SUFFICES ASSUME DisplayInv, [GUI_update]_gui PROVE DisplayInv'
    OBVIOUS
  <2>1. CASE GUI_update
    BY <2>1, UpdateDisplayInv
  <2>2. CASE UNCHANGED gui
    BY <2>2 DEF gui, DisplayInv, LabelsInv, ScreenTypeOK, LabelsKept, EndsBlank, RestBlank,
                ShowsMeasurements, Shows, ShowsOver, Seen
  <2> QED
    BY <2>1, <2>2
<1> QED
  BY InitDisplayInv, <1>1, PTL DEF DisplaySpec

\* Whatever was measured before, the display shows the last outdoor temperature
\* of two digits and the last humidity, a humidity with nothing behind it unless
\* one with more digits has been there; and the last indoor temperature and
\* pressure, with nothing of a longer number beside a shorter one, as long as
\* all of them were those of a room.
THEOREM ShowsLast == BesideLabels => (DisplaySpec => []ShowsMeasurements)
<1> SUFFICES ASSUME BesideLabels PROVE DisplaySpec => []ShowsMeasurements
  OBVIOUS
<1>1. DisplayInv => ShowsMeasurements
  BY DEF DisplayInv
<1> QED
  BY DisplayInvariance, <1>1, PTL
=============================================================================
