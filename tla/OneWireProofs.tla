---------------------------- MODULE OneWireProofs ----------------------------
(***************************************************************************)
(* Proofs of the properties of OneWire, for all temperatures, any length   *)
(* of a tick and any partition of it.                                      *)
(*                                                                         *)
(* The invariant follows the bits: in a slot of a write the sensor takes   *)
(* bit i of the command, the lowest one left of the byte, and after eight  *)
(* of them it holds the command; in a slot of a read bit i enters the byte *)
(* at the top and is in its place when eight have come.  That the sensor   *)
(* reports the requested conversion follows from the order of the cycles   *)
(* alone: between request and reading lies a tick, and a tick is longer    *)
(* than a conversion and a conversation together.                          *)
(***************************************************************************)
EXTENDS OneWireInvariant, SequenceTheorems, TLAPS

USE DEF control, slots, device, time, history

-----------------------------------------------------------------------------
\* The numbers, and what is true or false.
LEMMA NumberFacts ==
  ASSUME TypeOK
  PROVE  /\ ConversionTime \in Nat \ {0} /\ ConversationTime \in Nat
         /\ TickPeriod \in Nat /\ TickPeriod >= ConversionTime + ConversationTime
         /\ converting \in 0 .. ConversionTime
         /\ clock \in 0 .. TickPeriod /\ spent \in 0 .. ConversationTime
         /\ step \in 0 .. 5 /\ i \in 0 .. 7
         /\ contact \in BOOLEAN /\ begun \in BOOLEAN /\ disturbed \in BOOLEAN
<1>1. /\ converting \in 0 .. ConversionTime
      /\ clock \in 0 .. TickPeriod /\ spent \in 0 .. ConversationTime
      /\ step \in 0 .. 5 /\ i \in 0 .. 7
      /\ contact \in BOOLEAN /\ begun \in BOOLEAN /\ disturbed \in BOOLEAN
  BY DEF TypeOK
<1>2. /\ ConversionTime \in Nat \ {0} /\ ConversationTime \in Nat
      /\ TickPeriod \in Nat /\ TickPeriod >= ConversionTime + ConversationTime
  BY OneWireAssumption
<1> QED
  BY <1>1, <1>2

\* What is assumed of the constants.
LEMMA ConstantFacts ==
  /\ ConversionTime \in Nat \ {0} /\ ConversationTime \in Nat
  /\ TickPeriod \in Nat /\ TickPeriod >= ConversionTime + ConversationTime
  /\ PowerOn \in Word /\ \A w \in Temperatures : w \in Word
BY OneWireAssumption

\* The sensor's side of a conversation.
LEMMA SensorFacts ==
  ASSUME TypeOK
  PROVE  /\ sensor.expects \in {"a reset", "a ROM command", "a function", "nothing but slots"}
         /\ sensor.count \in 0 .. 16 /\ sensor.received \in Byte
         /\ scratchpad \in Word
         /\ sensor = [expects |-> sensor.expects, count |-> sensor.count,
                      received |-> sensor.received]
BY DEF TypeOK, Sensors

\* Each combination of its parts is a state of the sensor.
LEMMA SensorType ==
  ASSUME NEW e \in {"a reset", "a ROM command", "a function", "nothing but slots"},
         NEW n \in 0 .. 16, NEW b \in Byte
  PROVE  [expects |-> e, count |-> n, received |-> b] \in Sensors
BY DEF Sensors

\* A sensor that expects something new.
LEMMA NewSensor ==
  \A e \in {"a reset", "a ROM command", "a function", "nothing but slots"} :
    /\ Expecting(e) \in Sensors
    /\ Expecting(e) = [expects |-> e, count |-> 0, received |-> Zeros]
<1>1. Zeros \in Byte /\ 0 \in 0 .. 16
  BY DEF Byte, Bit, Zeros
<1> QED
  BY <1>1, SensorType DEF Expecting

\* The commands are bytes and differ.
LEMMA CommandFacts ==
  /\ Zeros \in Byte
  /\ SKIP_ROM \in Byte /\ CONVERT_T \in Byte /\ READ_SCRATCHPAD \in Byte
  /\ CONVERT_T # READ_SCRATCHPAD
<1>1. /\ Zeros \in Byte
      /\ SKIP_ROM \in Byte /\ CONVERT_T \in Byte /\ READ_SCRATCHPAD \in Byte
  BY DEF Byte, Bit, Zeros, SKIP_ROM, CONVERT_T, READ_SCRATCHPAD
<1>2. CONVERT_T[1] = 0 /\ READ_SCRATCHPAD[1] = 1
  BY DEF CONVERT_T, READ_SCRATCHPAD
<1> QED
  BY <1>1, <1>2

\* What each conversation writes.
LEMMA CommandsFacts ==
  /\ Commands[1] = SKIP_ROM
  /\ DS18B20_state = "REQUEST_CONVERSION" => Commands[2] = CONVERT_T /\ Replies = 0
  /\ DS18B20_state # "REQUEST_CONVERSION" => Commands[2] = READ_SCRATCHPAD /\ Replies = 2
  /\ Commands[1] \in Byte /\ Commands[2] \in Byte
BY CommandFacts DEF Commands, Replies

\* Two bytes are equal if their bits are.
LEMMA ByteEqual ==
  ASSUME NEW b \in Byte, NEW c \in Byte, \A k \in 0 .. 7 : b[k] = c[k]
  PROVE  b = c
BY DEF Byte

\* Where the bits of a byte go.
LEMMA ShiftFacts ==
  ASSUME NEW b \in Byte, NEW high \in Bit
  PROVE  /\ ShiftIn(b, high) \in Byte
         /\ \A k \in 0 .. 6 : ShiftIn(b, high)[k] = b[k + 1]
         /\ ShiftIn(b, high)[7] = high
BY DEF Byte, ShiftIn

\* The line carries a bit.
LEMMA SendsFacts ==
  ASSUME TypeOK
  PROVE  Sends \in Bit
<1>1. sensor.count \in 0 .. 16
  BY SensorFacts
<1>2. scratchpad \in [0 .. 15 -> {0, 1}]
  BY SensorFacts DEF Word, Bit
<1>3. CASE sensor.count < 16
  <2>1. sensor.count \in 0 .. 15
    BY <1>1, <1>3
  <2>2. scratchpad[sensor.count] \in {0, 1}
    BY <1>2, <2>1
  <2> QED
    BY <2>2 DEF Sends, Bit
<1>4. CASE ~(sensor.count < 16)
  BY <1>4 DEF Sends, Bit
<1> QED
  BY <1>3, <1>4

\* A byte with one bit more.
LEMMA ReceivedFacts ==
  ASSUME NEW b \in Byte, NEW n \in 0 .. 7, NEW level \in Bit
  PROVE  /\ [b EXCEPT ![n] = level] \in Byte
         /\ [b EXCEPT ![n] = level][n] = level
         /\ \A k \in 0 .. 7 : k # n => [b EXCEPT ![n] = level][k] = b[k]
BY DEF Byte

-----------------------------------------------------------------------------
\* At power-on nothing has been said yet.
LEMMA InitIInv == Init => IInv
<1> SUFFICES ASSUME Init PROVE IInv
  OBVIOUS
<1>1. <<>> \in Seq(Byte) /\ Len(<<>>) = 0
  BY EmptySeq
<1>2. sensor = [expects |-> "a reset", count |-> 0, received |-> Zeros]
  BY DEF Init, Expecting
<1>4. pc = "waiting" /\ answer = <<>> /\ clock = 0 /\ converting = 0 /\ begun = FALSE
      /\ DS18B20_state = "REQUEST_CONVERSION"
  BY DEF Init
<1>3. TypeOK
  <2>1. /\ 0 \in 0 .. ConversionTime /\ 0 \in 0 .. TickPeriod /\ 0 \in 0 .. ConversationTime
        /\ PowerOn \in Word
    BY ConstantFacts
  <2>2. sensor \in Sensors
    BY <1>2, NewSensor DEF Init
  <2>3. /\ update_state = "UPDATE_REQUEST" /\ step = 0 /\ i = 0 /\ byte = Zeros
        /\ scratchpad = PowerOn /\ measured = PowerOn /\ contact \in BOOLEAN
        /\ spent = 0 /\ disturbed = FALSE
    BY DEF Init
  <2>4. 0 \in 0 .. 5 /\ 0 \in 0 .. 7
    OBVIOUS
  <2> QED
    <3>1. answer \in Seq(Byte) /\ Len(answer) <= 2
      <4>1. 0 <= 2
        OBVIOUS
      <4> QED
        BY <1>1, <1>4, <4>1, Zenon
    <3> QED
      BY <1>4, <2>1, <2>2, <2>3, <2>4, <3>1, CommandFacts, Zenon DEF TypeOK
<1>5. BitsToWrite /\ BitsTaken /\ BitsRead /\ InStep
  <2>1. sensor.expects = "a reset" /\ sensor.count = 0
    BY <1>2
  <2>2. pc # "talking"
    BY <1>4
  <2>3. sensor.expects # "nothing but slots" => sensor.count <= 7
    <3>1. 0 <= 7
      OBVIOUS
    <3> QED
      BY <2>1, <3>1, Zenon
  <2> QED
    BY <2>2, <2>3, Zenon DEF BitsToWrite, BitsTaken, BitsRead, InStep
<1>6. Conversation /\ Timing /\ Conversion /\ ReadsWhatItRequested
  BY <1>1, <1>4 DEF Conversation, Timing, Conversion, ReadsWhatItRequested
<1> QED
  BY <1>3, <1>5, <1>6 DEF IInv

\* A conversation starts from nothing, and a request starts the history anew.
LEMMA StartCycleIInv == ASSUME IInv, StartCycle PROVE IInv'
<1> USE DEF IInv
<1>1. <<>> \in Seq(Byte) /\ Len(<<>>) = 0
  BY EmptySeq
<1>2. TypeOK'
  <2>1. begun' \in BOOLEAN /\ disturbed' \in BOOLEAN
    BY NumberFacts DEF StartCycle
  <2>2. 0 \in 0 .. ConversationTime
    BY ConstantFacts
  <2> QED
    <3>1. /\ pc' = "talking" /\ step' = 0 /\ i' = 0 /\ answer' = <<>> /\ spent' = 0
          /\ UNCHANGED <<update_state, DS18B20_state, byte, device, contact, clock>>
      BY DEF StartCycle
    <3>2. 0 \in 0 .. 5 /\ 0 \in 0 .. 7
      OBVIOUS
    <3> QED
      BY <1>1, <2>1, <2>2, <3>1, <3>2 DEF TypeOK
<1>3. step' = 0 /\ ~Writing' /\ ~Reading'
  <2>1. step' = 0
    BY DEF StartCycle
  <2> QED
    BY <2>1 DEF Writing, Reading, Replies
<1>8. BitsToWrite' /\ BitsRead' /\ InStep'
  <2>1. InStep'
    <3>1. ~(step' > 0)
      BY <1>3
    <3> QED
      BY <3>1 DEF InStep
  <2> QED
    BY <1>3, <2>1 DEF BitsToWrite, BitsRead
<1>9. BitsTaken'
  BY <1>3 DEF StartCycle, BitsTaken
<1>4. Conversation'
  BY <1>1, <1>3 DEF StartCycle, Conversation, Replies
<1>5. Timing'
  BY NumberFacts DEF StartCycle, Timing
<1>6. Conversion'
  BY NumberFacts DEF StartCycle, Conversion, Timing
<1>7. ReadsWhatItRequested'
  BY <1>1 DEF StartCycle, ReadsWhatItRequested
<1> QED
  BY <1>2, <1>4, <1>5, <1>6, <1>7, <1>8, <1>9

\* After the reset both sides are before the first bit of the first command.
LEMMA ResetIInv == ASSUME IInv, Reset PROVE IInv'
<1> USE DEF IInv
<1>1. sensor' = [expects |-> "a ROM command", count |-> 0, received |-> Zeros] \/ sensor' = sensor
  BY DEF Reset, Expecting
<1>2. TypeOK'
  <2>1. sensor' \in Sensors
    BY NewSensor DEF Reset, TypeOK
  <2>2. 1 \in 0 .. 5 /\ 0 \in 0 .. 7 /\ Commands[1] \in Byte
    BY CommandsFacts
  <2>3. /\ step' = 1 /\ i' = 0 /\ byte' = Commands[1]
        /\ UNCHANGED <<control, answer, scratchpad, converting, measured, contact,
                       time, history>>
    BY DEF Reset
  <2> QED
    BY <2>1, <2>2, <2>3 DEF TypeOK
<1>3. /\ step = 0 /\ step' = 1 /\ i' = 0 /\ byte' = Commands[1] /\ pc = "talking"
      /\ UNCHANGED <<control, answer, history>>
  BY DEF Reset
<1>9. BitsToWrite'
  <2>1. Commands' = Commands
    BY <1>3 DEF Commands
  <2> QED
    BY <1>3, <2>1 DEF BitsToWrite
<1>4. BitsTaken'
  <2>1. sensor'.expects # "nothing but slots" => sensor'.count <= 7
    <3>1. CASE sensor' = [expects |-> "a ROM command", count |-> 0, received |-> Zeros]
      <4>1. sensor'.count = 0
        BY <3>1
      <4>2. 0 <= 7
        OBVIOUS
      <4> QED
        BY <4>1, <4>2, Zenon
    <3>2. CASE sensor' = sensor
      BY <3>2 DEF BitsTaken
    <3> QED
      BY <1>1, <3>1, <3>2
  <2>2. \A k \in 0 .. 7 : ~(k < i')
    BY <1>3
  <2> QED
    BY <2>1, <2>2 DEF BitsTaken
<1>5. BitsRead' /\ Conversation'
  <2>1. ~Reading /\ ~Reading' /\ step' <= 2 + Replies'
    BY <1>3 DEF Reading, Replies
  <2> QED
    BY <1>3, <2>1 DEF BitsRead, Conversation
<1>6. Timing' /\ Conversion'
  BY DEF Reset, Timing, Conversion
<1>7. InStep'
  BY DEF Reset, InStep, Conversion, Expecting
<1>8. ReadsWhatItRequested'
  BY DEF Reset, ReadsWhatItRequested, Reported
<1> QED
  BY <1>2, <1>4, <1>5, <1>6, <1>7, <1>8, <1>9

\* The rest of a cycle leaves the bus alone.
LEMMA FinishCycleIInv == ASSUME IInv, FinishCycle PROVE IInv'
<1> USE DEF IInv
<1>1. TypeOK'
  BY DEF FinishCycle, TypeOK
<1>2. BitsToWrite' /\ BitsTaken' /\ BitsRead' /\ InStep'
  BY DEF FinishCycle, BitsToWrite, BitsTaken, BitsRead, InStep
<1>3. Conversation' /\ Timing' /\ Conversion'
  BY DEF FinishCycle, Conversation, Timing, Conversion
<1>4. ReadsWhatItRequested'
  BY DEF FinishCycle, ReadsWhatItRequested, Reported
<1> QED
  BY <1>1, <1>2, <1>3, <1>4

\* A tick finds the conversation and the conversion of the tick before over.
LEMMA TickIInv == ASSUME IInv, Tick PROVE IInv'
<1> USE DEF IInv
<1>0. pc # "talking" /\ converting = 0
  BY NumberFacts DEF Tick, Timing
<1>1. TypeOK'
  <2>1. 0 \in 0 .. TickPeriod
    BY ConstantFacts
  <2> QED
    BY <2>1 DEF Tick, TypeOK
<1>2. BitsToWrite' /\ BitsTaken' /\ BitsRead' /\ InStep'
  BY <1>0 DEF Tick, BitsToWrite, BitsTaken, BitsRead, InStep
<1>3. Conversation' /\ Timing' /\ Conversion'
  BY <1>0 DEF Tick, Conversation, Timing, Conversion
<1>4. ReadsWhatItRequested'
  BY DEF Tick, ReadsWhatItRequested, Reported
<1> QED
  BY <1>1, <1>2, <1>3, <1>4

\* The conversion ends while nobody reads the scratchpad.
LEMMA ElapseIInv == ASSUME IInv, Elapse PROVE IInv'
<1> USE DEF IInv
<1>1. TypeOK'
  <2>1. /\ clock' \in 0 .. TickPeriod /\ spent' \in 0 .. ConversationTime
        /\ converting' \in 0 .. ConversionTime
    BY NumberFacts DEF Elapse
  <2>2. scratchpad' \in Word
    BY DEF Elapse, TypeOK
  <2> QED
    BY <2>1, <2>2 DEF Elapse, TypeOK
<1>2. BitsToWrite' /\ BitsTaken' /\ InStep'
  BY DEF Elapse, BitsToWrite, BitsTaken, InStep, Writing, Reading, Replies, Commands
<1>3. pc = "talking" /\ Reading /\ ~disturbed => scratchpad' = scratchpad
  <2>1. Reading => DS18B20_state # "REQUEST_CONVERSION"
    BY DEF Reading, Replies
  <2>2. DS18B20_state \in {"REQUEST_CONVERSION", "GET_MEASUREMENT"}
    BY DEF TypeOK
  <2>3. pc = "talking" /\ Reading /\ ~disturbed => converting = 0
    BY <2>1, <2>2 DEF Conversion
  <2>4. converting = 0 => scratchpad' = scratchpad
    BY DEF Elapse
  <2> QED
    BY <2>3, <2>4
<1>4. BitsRead'
  BY <1>3 DEF Elapse, BitsRead, Reading, Replies
<1>5. Conversation'
  BY DEF Elapse, Conversation, Reading, Replies
<1>6. Timing'
  BY NumberFacts DEF Elapse, Timing
<1>7. Conversion'
  BY NumberFacts DEF Elapse, Conversion
<1>8. ReadsWhatItRequested'
  BY DEF Elapse, ReadsWhatItRequested, Reported
<1> QED
  BY <1>1, <1>2, <1>4, <1>5, <1>6, <1>7, <1>8

\* A fault takes effect on the sensor only, and is remembered.
LEMMA FaultIInv == ASSUME IInv, Unplug \/ Plug \/ PowerFail PROVE IInv'
<1> USE DEF IInv
<1>0. \/ UNCHANGED device
      \/ /\ sensor' = [expects |-> "a reset", count |-> 0, received |-> Zeros]
         /\ scratchpad' = PowerOn /\ converting' = 0 /\ measured' = PowerOn /\ disturbed' = TRUE
  BY DEF Unplug, Plug, PowerFail, Expecting
<1>7. /\ UNCHANGED <<control, slots, time, begun>>
      /\ contact' \in BOOLEAN /\ disturbed' \in BOOLEAN
      /\ ~disturbed' => ~disturbed /\ contact' /\ UNCHANGED device
  <2>1. contact \in BOOLEAN /\ disturbed \in BOOLEAN
    BY NumberFacts
  <2>2. CASE Unplug
    BY <2>1, <2>2 DEF Unplug
  <2>3. CASE Plug
    BY <2>1, <2>3 DEF Plug
  <2>4. CASE PowerFail
    BY <2>1, <2>4 DEF PowerFail
  <2> QED
    BY <2>2, <2>3, <2>4
<1>1. TypeOK'
  <2>1. sensor' \in Sensors
    BY NewSensor DEF Unplug, Plug, PowerFail, TypeOK
  <2>2. scratchpad' \in Word /\ measured' \in Word
    BY <1>0, ConstantFacts DEF TypeOK
  <2>3. converting' \in 0 .. ConversionTime
    <3>1. 0 \in 0 .. ConversionTime
      BY ConstantFacts
    <3> QED
      BY <1>0, <3>1 DEF TypeOK
  <2> QED
    BY <1>7, <2>1, <2>2, <2>3 DEF TypeOK
<1>2. BitsToWrite'
  BY <1>7 DEF BitsToWrite, Writing, Replies, Commands
<1>3. BitsTaken'
  <2>1. sensor'.expects # "nothing but slots" => sensor'.count <= 7
    <3>1. CASE sensor' = [expects |-> "a reset", count |-> 0, received |-> Zeros]
      <4>1. sensor'.count = 0
        BY <3>1
      <4>2. 0 <= 7
        OBVIOUS
      <4> QED
        BY <4>1, <4>2, Zenon
    <3>2. CASE sensor' = sensor
      BY <3>2 DEF BitsTaken
    <3> QED
      BY <1>0, <3>1, <3>2
  <2>2. UNCHANGED <<pc, step, i>> /\ Commands' = Commands /\ (~disturbed' => ~disturbed /\ UNCHANGED sensor)
    BY <1>7 DEF Commands
  <2> QED
    BY <2>1, <2>2 DEF BitsTaken, Writing
<1>4. BitsRead' /\ InStep' /\ Conversation'
  BY <1>7 DEF BitsRead, InStep, Conversation, Reading, Replies
<1>5. Timing' /\ Conversion'
  <2>1. Timing'
    <3>1. converting' = converting \/ converting' = 0
      BY <1>0
    <3> QED
      BY <1>7, <3>1 DEF Timing
  <2> QED
    BY <1>7, <2>1 DEF Conversion
<1>6. ReadsWhatItRequested'
  BY <1>7 DEF ReadsWhatItRequested, Reported
<1> QED
  BY <1>1, <1>2, <1>3, <1>4, <1>5, <1>6

-----------------------------------------------------------------------------
\* What a slot does to the sensor, in step or not.
LEMMA SlotFacts ==
  ASSUME TypeOK, BitsTaken, NEW level \in Bit, Slot(level)
  PROVE  /\ sensor' \in Sensors /\ scratchpad' = scratchpad
         /\ sensor'.expects # "nothing but slots" => sensor'.count <= 7
         /\ \/ UNCHANGED <<converting, measured, begun>>
            \/ /\ measured' \in Temperatures /\ converting' = ConversionTime /\ begun' = TRUE
               /\ sensor.expects = "a function" /\ sensor.count = 7
               /\ [sensor.received EXCEPT ![7] = level] = CONVERT_T
<1>0. /\ sensor \in Sensors /\ sensor.count \in 0 .. 16 /\ sensor.received \in Byte
      /\ sensor.expects # "nothing but slots" => sensor.count <= 7
      /\ sensor.expects \in {"a reset", "a ROM command", "a function", "nothing but slots"}
  BY SensorFacts DEF TypeOK, BitsTaken
<1>1. CASE UNCHANGED <<device, begun>>
  BY <1>0, <1>1
<1>2. CASE /\ sensor.expects = "nothing but slots"
           /\ sensor' = [sensor EXCEPT !.count = IF @ < 16 THEN @ + 1 ELSE @]
           /\ UNCHANGED <<scratchpad, converting, measured, begun>>
  <2>1. \A n \in 0 .. 16 : (IF n < 16 THEN n + 1 ELSE n) \in 0 .. 16
    OBVIOUS
  <2>3. (IF sensor.count < 16 THEN sensor.count + 1 ELSE sensor.count) \in 0 .. 16
    BY <1>0, <2>1, Zenon
  <2>2. sensor' \in Sensors /\ sensor'.expects = "nothing but slots"
    BY <1>0, <1>2, <2>3 DEF Sensors
  <2> QED
    BY <1>2, <2>2
<1>3. CASE /\ sensor.expects \in {"a ROM command", "a function"} /\ sensor.count # 7
           /\ sensor' = [sensor EXCEPT !.count = @ + 1,
                                       !.received = [sensor.received EXCEPT ![sensor.count] = level]]
           /\ UNCHANGED <<scratchpad, converting, measured, begun>>
  <2>0. \A n \in 0 .. 16 : n <= 7 /\ n # 7 =>
           n \in 0 .. 7 /\ n + 1 \in 0 .. 16 /\ n + 1 <= 7
    OBVIOUS
  <2>4. sensor.count <= 7
    BY <1>0, <1>3
  <2>1. sensor.count \in 0 .. 7 /\ sensor.count + 1 \in 0 .. 16 /\ sensor.count + 1 <= 7
    BY <1>0, <1>3, <2>0, <2>4, Zenon
  <2>2. [sensor.received EXCEPT ![sensor.count] = level] \in Byte
    BY <1>0, <2>1, ReceivedFacts, Zenon
  <2>3. sensor' \in Sensors /\ sensor'.count = sensor.count + 1
    BY <1>0, <1>3, <2>1, <2>2 DEF Sensors
  <2> QED
    BY <1>3, <2>1, <2>3
<1>4. CASE /\ \E e \in {"a reset", "a function", "nothing but slots"} : sensor' = Expecting(e)
           /\ scratchpad' = scratchpad
           /\ \/ UNCHANGED <<converting, measured, begun>>
              \/ /\ measured' \in Temperatures /\ converting' = ConversionTime /\ begun' = TRUE
                 /\ sensor.expects = "a function" /\ sensor.count = 7
                 /\ [sensor.received EXCEPT ![7] = level] = CONVERT_T
  <2>2. 0 <= 7
    OBVIOUS
  <2>3. PICK e \in {"a reset", "a function", "nothing but slots"} : sensor' = Expecting(e)
    BY <1>4
  <2>4. e \in {"a reset", "a ROM command", "a function", "nothing but slots"}
    BY <2>3
  <2>5. sensor' \in Sensors /\ sensor' = [expects |-> e, count |-> 0, received |-> Zeros]
    BY <2>3, <2>4, NewSensor, Zenon
  <2>1. sensor' \in Sensors /\ sensor'.count = 0
    BY <2>5
  <2> QED
    BY <1>4, <2>1, <2>2, Zenon
<1> QED
  BY <1>1, <1>2, <1>3, <1>4, Zenon DEF Slot

\* The next bit, the next byte, the end.
LEMMA AdvanceFacts ==
  ASSUME TypeOK, Conversation, pc = "talking", NEW shifted \in Byte, Advance(shifted),
         Writing \/ Reading
  PROVE  /\ UNCHANGED <<update_state, contact, time, disturbed>>
         /\ \/ /\ i < 7 /\ i' = i + 1 /\ byte' = shifted
               /\ UNCHANGED <<step, answer, pc, DS18B20_state>>
            \/ /\ i = 7 /\ step < 2 + Replies
               /\ i' = 0 /\ step' = step + 1 /\ UNCHANGED <<pc, DS18B20_state>>
               /\ byte' = IF step = 1 THEN Commands[2] ELSE Zeros
               /\ answer' = IF Reading THEN Append(answer, shifted) ELSE answer
            \/ /\ i = 7 /\ step = 2 + Replies
               /\ i' = 0 /\ step' = step + 1 /\ pc' = "rest" /\ byte' = Zeros
               /\ DS18B20_state' = IF DS18B20_state = "GET_MEASUREMENT"
                                     THEN "REQUEST_CONVERSION" ELSE "GET_MEASUREMENT"
               /\ answer' = IF Reading THEN Append(answer, shifted) ELSE answer
<1>1. /\ i \in 0 .. 7 /\ step \in 0 .. 5 /\ Replies \in {0, 2} /\ step <= 2 + Replies
  BY NumberFacts DEF Conversation, Replies
<1>2. CASE i # 7
  <2>1. (i + 1) % 8 = i + 1 /\ i < 7
    BY <1>1, <1>2
  <2>2. pc' = pc /\ answer' = answer
    BY <1>2, Zenon DEF Advance
  <2>3. step' = step
    BY <1>2, Zenon DEF Advance
  <2>4. DS18B20_state' = DS18B20_state
    <3>1. DS18B20_state' = CASE ~(i = 7 /\ step = 2 + Replies) -> DS18B20_state
                                [] (i = 7 /\ step = 2 + Replies) /\ DS18B20_state = "GET_MEASUREMENT"
                                     -> "REQUEST_CONVERSION"
                                [] OTHER -> "GET_MEASUREMENT"
      BY Zenon DEF Advance
    <3> QED
      BY <1>2, <3>1
  <2>5. byte' = shifted
    BY <1>2 DEF Advance
  <2>6. i' = (i + 1) % 8 /\ UNCHANGED <<update_state, contact, time, disturbed>>
    BY Zenon DEF Advance
  <2> QED
    BY <2>1, <2>2, <2>3, <2>4, <2>5, <2>6, Zenon
<1>3. CASE i = 7 /\ step # 2 + Replies
  <2>1. (i + 1) % 8 = 0 /\ step < 2 + Replies
    BY <1>1, <1>3
  <2>2. /\ i' = (i + 1) % 8 /\ step' = step + 1 /\ UNCHANGED <<pc, DS18B20_state>>
        /\ byte' = IF step = 1 THEN Commands[2] ELSE Zeros
        /\ answer' = IF Reading THEN Append(answer, shifted) ELSE answer
        /\ UNCHANGED <<update_state, contact, time, disturbed>>
    <3>1. byte' = IF step = 1 THEN Commands[2] ELSE Zeros
      BY <1>3 DEF Advance
    <3>2. UNCHANGED <<pc, DS18B20_state>>
      <4>1. pc' = IF i = 7 /\ step = 2 + Replies THEN "rest" ELSE pc
        BY Zenon DEF Advance
      <4>2. DS18B20_state' = CASE ~(i = 7 /\ step = 2 + Replies) -> DS18B20_state
                                [] (i = 7 /\ step = 2 + Replies) /\ DS18B20_state = "GET_MEASUREMENT"
                                     -> "REQUEST_CONVERSION"
                                [] OTHER -> "GET_MEASUREMENT"
        BY Zenon DEF Advance
      <4> QED
        BY <1>3, <4>1, <4>2
    <3>3. answer' = IF Reading THEN Append(answer, shifted) ELSE answer
      BY <1>3, Zenon DEF Advance
    <3>4. /\ i' = (i + 1) % 8 /\ step' = step + 1
          /\ UNCHANGED <<update_state, contact, time, disturbed>>
      BY <1>3, Zenon DEF Advance
    <3> QED
      BY <3>1, <3>2, <3>3, <3>4, Zenon
  <2> QED
    BY <1>3, <2>1, <2>2, Zenon
<1>4. CASE i = 7 /\ step = 2 + Replies
  <2>1. (i + 1) % 8 = 0 /\ step # 1
    BY <1>1, <1>4
  <2>2. /\ i' = (i + 1) % 8 /\ step' = step + 1 /\ pc' = "rest" /\ byte' = Zeros
        /\ DS18B20_state' = IF DS18B20_state = "GET_MEASUREMENT"
                              THEN "REQUEST_CONVERSION" ELSE "GET_MEASUREMENT"
        /\ answer' = IF Reading THEN Append(answer, shifted) ELSE answer
        /\ UNCHANGED <<update_state, contact, time, disturbed>>
    <3>1. byte' = Zeros
      BY <1>4, <2>1 DEF Advance
    <3>2. /\ pc' = "rest"
          /\ DS18B20_state' = IF DS18B20_state = "GET_MEASUREMENT"
                                THEN "REQUEST_CONVERSION" ELSE "GET_MEASUREMENT"
      BY <1>4 DEF Advance
    <3>3. answer' = IF Reading THEN Append(answer, shifted) ELSE answer
      BY <1>4, Zenon DEF Advance
    <3>4. /\ i' = (i + 1) % 8 /\ step' = step + 1
          /\ UNCHANGED <<update_state, contact, time, disturbed>>
      BY <1>4, Zenon DEF Advance
    <3> QED
      BY <3>1, <3>2, <3>3, <3>4, Zenon
  <2> QED
    BY <1>4, <2>1, <2>2, Zenon
<1> QED
  BY <1>2, <1>3, <1>4

\* A slot that the program spends on a byte: the bookkeeping that does not
\* depend on what the sensor makes of it.
LEMMA SlotBookkeeping ==
  ASSUME IInv, pc = "talking", Writing \/ Reading, NEW level \in Bit, NEW shifted \in Byte,
         Slot(level), Advance(shifted)
  PROVE  TypeOK' /\ Conversation' /\ Timing'
<1> USE DEF IInv
<1>0. /\ i \in 0 .. 7 /\ step \in 0 .. 5 /\ Replies \in {0, 2} /\ step <= 2 + Replies
      /\ Reading <=> step \in 3 .. 2 + Replies
      /\ Len(answer) = IF Reading THEN step - 3 ELSE 0
      /\ answer \in Seq(Byte) /\ step >= 1
  BY NumberFacts DEF Conversation, Replies, TypeOK, Writing, Reading
<1>1. /\ Append(answer, shifted) \in Seq(Byte) /\ Len(Append(answer, shifted)) = Len(answer) + 1
  BY <1>0, AppendProperties
<1>2. UNCHANGED <<update_state, contact, time, disturbed>>
  BY AdvanceFacts
<1>3. /\ sensor' \in Sensors /\ scratchpad' \in Word /\ measured' \in Word
      /\ converting' \in 0 .. ConversionTime /\ begun' \in BOOLEAN
  <2>1. scratchpad' = scratchpad /\ sensor' \in Sensors
    BY SlotFacts
  <2>2. CASE UNCHANGED <<converting, measured, begun>>
    BY <2>1, <2>2 DEF TypeOK
  <2>3. CASE measured' \in Temperatures /\ converting' = ConversionTime /\ begun' = TRUE
    <3>1. measured' \in Word /\ ConversionTime \in 0 .. ConversionTime
      BY <2>3, ConstantFacts
    <3> QED
      BY <2>1, <2>3, <3>1 DEF TypeOK
  <2> QED
    BY <2>2, <2>3, SlotFacts
<1>4. Timing'
  <2>1. converting' > 0 => converting' + clock' <= TickPeriod
    <3>1. clock = spent
      BY DEF Timing
    <3>2. CASE converting' = converting
      BY <1>2, <3>2 DEF Timing
    <3>3. CASE converting' = ConversionTime
      BY <1>2, <3>1, <3>3, NumberFacts
    <3> QED
      BY <3>2, <3>3, SlotFacts
  <2>2. pc' \in {"talking", "rest"}
    BY AdvanceFacts
  <2> QED
    BY <1>2, <2>1, <2>2 DEF Timing
\* The rest depends on where in the conversation the slot is.
<1>5. SUFFICES /\ i' \in 0 .. 7 /\ step' \in 0 .. 5 /\ byte' \in Byte
               /\ pc' \in {"talking", "rest"}
               /\ DS18B20_state' \in {"REQUEST_CONVERSION", "GET_MEASUREMENT"}
               /\ answer' \in Seq(Byte) /\ Len(answer') <= 2
               /\ Conversation'
  BY <1>2, <1>3, <1>4 DEF TypeOK
<1>6. CASE i < 7 /\ i' = i + 1 /\ byte' = shifted /\ UNCHANGED <<step, answer, pc, DS18B20_state>>
  <2>1. i + 1 \in 0 .. 7
    BY <1>0, <1>6
  <2>2. Conversation'
    BY <1>6 DEF Conversation, Reading, Replies
  <2> QED
    BY <1>6, <2>1, <2>2 DEF TypeOK
<1>7. CASE /\ i = 7 /\ step < 2 + Replies
           /\ i' = 0 /\ step' = step + 1 /\ UNCHANGED <<pc, DS18B20_state>>
           /\ byte' = IF step = 1 THEN Commands[2] ELSE Zeros
           /\ answer' = IF Reading THEN Append(answer, shifted) ELSE answer
  <2>1. /\ step' \in 0 .. 5 /\ i' \in 0 .. 7 /\ Replies' = Replies /\ step' <= 2 + Replies'
    BY <1>0, <1>7 DEF Replies
  <2>2. byte' \in Byte
    BY <1>7, CommandsFacts, CommandFacts
  <2>3. answer' \in Seq(Byte) /\ Len(answer') = IF Reading THEN step - 2 ELSE 0
    BY <1>0, <1>1, <1>7
  <2>4. Len(answer') = IF Reading' THEN step' - 3 ELSE 0
    <3>1. Reading' <=> step' \in 3 .. 2 + Replies'
      BY DEF Reading
    <3> QED
      BY <1>0, <1>7, <2>1, <2>3, <3>1
  <2>5. Len(answer') <= 2
    BY <1>0, <2>3
  <2>6. Conversation'
    BY <1>7, <2>1, <2>4 DEF Conversation
  <2> QED
    BY <1>7, <2>1, <2>2, <2>3, <2>5, <2>6 DEF TypeOK
<1>8. CASE /\ i = 7 /\ step = 2 + Replies
           /\ i' = 0 /\ step' = step + 1 /\ pc' = "rest" /\ byte' = Zeros
           /\ DS18B20_state' = IF DS18B20_state = "GET_MEASUREMENT"
                                 THEN "REQUEST_CONVERSION" ELSE "GET_MEASUREMENT"
           /\ answer' = IF Reading THEN Append(answer, shifted) ELSE answer
  <2>1. step' \in 0 .. 5 /\ i' \in 0 .. 7
    BY <1>0, <1>8
  <2>2. answer' \in Seq(Byte) /\ Len(answer') = IF Reading THEN step - 2 ELSE 0
    BY <1>0, <1>1, <1>8
  <2>3. /\ Replies = 0 => Len(answer') = 0
        /\ Replies = 2 => Len(answer') = 2
        /\ Len(answer') <= 2
    BY <1>0, <1>8, <2>2
  <2>4. /\ Replies = 2 => DS18B20_state = "GET_MEASUREMENT"
    BY DEF Replies, TypeOK
  <2>5. Conversation'
    BY <1>0, <1>8, <2>3, <2>4 DEF Conversation
  <2>6. byte' \in Byte
    BY <1>8, CommandFacts
  <2> QED
    BY <1>8, <2>1, <2>2, <2>3, <2>5, <2>6
<1> QED
  BY <1>6, <1>7, <1>8, AdvanceFacts

\* Where a conversation stands.
LEMMA StepFacts ==
  ASSUME IInv, pc = "talking"
  PROVE  /\ i \in 0 .. 7
         /\ Writing => step \in {1, 2} /\ ~Reading
         /\ Reading => step \in {3, 4} /\ ~Writing /\ Replies = 2
                       /\ DS18B20_state = "GET_MEASUREMENT"
         /\ DS18B20_state \in {"REQUEST_CONVERSION", "GET_MEASUREMENT"}
         /\ byte \in Byte /\ answer \in Seq(Byte)
         /\ ~disturbed => contact
<1>1. i \in 0 .. 7 /\ step \in 0 .. 5
  BY NumberFacts DEF IInv
<1>2. DS18B20_state \in {"REQUEST_CONVERSION", "GET_MEASUREMENT"}
      /\ byte \in Byte /\ answer \in Seq(Byte)
  BY DEF IInv, TypeOK
<1>3. ~disturbed => contact
  BY DEF IInv, Conversion
<1>4. Writing => step \in {1, 2} /\ ~Reading
  BY <1>1 DEF Writing, Reading
<1>5. Reading => Replies = 2 /\ DS18B20_state = "GET_MEASUREMENT"
  BY <1>1, <1>2 DEF Reading, Replies
<1>6. Reading => step \in {3, 4} /\ ~Writing
  BY <1>1, <1>5 DEF Writing, Reading
<1> QED
  BY <1>1, <1>2, <1>3, <1>4, <1>5, <1>6

\* In step, the sensor takes the next bit of the command for what it is, and
\* after the last bit it has the command.
LEMMA WrittenSlot ==
  ASSUME IInv, pc = "talking", Writing, ~disturbed, Slot(byte[0])
  PROVE  /\ scratchpad' = scratchpad
         /\ \/ /\ i < 7
               /\ sensor'.expects = sensor.expects /\ sensor'.count = i + 1
               /\ \A k \in 0 .. 7 : k < i + 1 => sensor'.received[k] = Commands[step][k]
               /\ UNCHANGED <<converting, measured, begun>>
            \/ /\ i = 7 /\ step = 1 /\ sensor' = Expecting("a function")
               /\ UNCHANGED <<converting, measured, begun>>
            \/ /\ i = 7 /\ step = 2 /\ DS18B20_state = "REQUEST_CONVERSION"
               /\ converting' = ConversionTime /\ begun' = TRUE
            \/ /\ i = 7 /\ step = 2 /\ DS18B20_state = "GET_MEASUREMENT"
               /\ sensor' = Expecting("nothing but slots")
               /\ UNCHANGED <<converting, measured, begun>>
<1> USE DEF IInv
<1> DEFINE received == [sensor.received EXCEPT ![i] = byte[0]]
<1>1. /\ i \in 0 .. 7 /\ step \in {1, 2} /\ ~Reading /\ contact /\ byte \in Byte
      /\ DS18B20_state \in {"REQUEST_CONVERSION", "GET_MEASUREMENT"}
  BY StepFacts
<1>2. /\ step = 1 => sensor.expects = "a ROM command"
      /\ step = 2 => sensor.expects = "a function"
      /\ sensor.count = i
  <2>1. step > 0 /\ step # 0 /\ (step = 1 => step # 2)
    BY <1>1
  <2> QED
    BY <1>1, <2>1, Zenon DEF InStep
<1>3. \A k \in 0 .. 7 : k < i => sensor.received[k] = Commands[step][k]
  BY DEF BitsTaken
<1>4. byte[0] = Commands[step][i]
  <2>1. 0 + i = i /\ 0 + i <= 7 /\ 0 \in 0 .. 7
    BY <1>1
  <2>2. 0 + i <= 7 => byte[0] = Commands[step][0 + i]
    BY <2>1, Zenon DEF BitsToWrite
  <2> QED
    BY <2>1, <2>2
<1>5. sensor.received \in Byte /\ byte[0] \in Bit /\ Commands[step] \in Byte
  <2>1. sensor.received \in Byte
    BY SensorFacts
  <2>2. byte[0] \in Bit
    BY <1>1 DEF Byte
  <2>3. Commands[step] \in Byte
    <3>1. Commands[1] \in Byte /\ Commands[2] \in Byte
      BY CommandsFacts
    <3> QED
      BY <1>1, <3>1
  <2> QED
    BY <2>1, <2>2, <2>3
<1>6. /\ received \in Byte
      /\ \A k \in 0 .. 7 : k < i + 1 => received[k] = Commands[step][k]
  <2>1. \A k \in 0 .. 7 : k < i + 1 => k = i \/ k < i
    BY <1>1
  <2>2. /\ received \in Byte /\ received[i] = byte[0]
        /\ \A k \in 0 .. 7 : k # i => received[k] = sensor.received[k]
    BY <1>1, <1>5, ReceivedFacts
  <2>3. ASSUME NEW k \in 0 .. 7, k < i + 1
        PROVE  received[k] = Commands[step][k]
    <3>1. CASE k = i
      BY <1>4, <2>2, <3>1, Zenon
    <3>2. CASE k # i
      <4>1. k < i
        BY <2>1, <2>3, <3>2
      <4> QED
        BY <1>3, <2>2, <3>2, <4>1, Zenon
    <3> QED
      BY <3>1, <3>2
  <2> QED
    BY <2>2, <2>3
<1>7. i = 7 => received = Commands[step]
  <2>1. i = 7 => \A k \in 0 .. 7 : k < i + 1
    OBVIOUS
  <2>2. i = 7 => \A k \in 0 .. 7 : received[k] = Commands[step][k]
    BY <1>6, <2>1, Zenon
  <2> QED
    BY <1>5, <1>6, <2>2, ByteEqual, Zenon
<1>8. CASE i # 7
  <2>1. /\ sensor' = [sensor EXCEPT !.count = @ + 1, !.received = received]
        /\ UNCHANGED <<scratchpad, converting, measured, begun>>
    BY <1>1, <1>2, <1>8, Zenon DEF Slot
  <2>2. sensor \in Sensors
    BY DEF TypeOK
  <2>3. sensor'.expects = sensor.expects /\ sensor'.count = sensor.count + 1
        /\ sensor'.received = received
    BY <2>1, <2>2 DEF Sensors
  <2>4. i < 7
    BY <1>1, <1>8
  <2> QED
    BY <1>2, <1>6, <2>1, <2>3, <2>4, Zenon
<1>9. CASE i = 7 /\ step = 1
  <2>1. received = SKIP_ROM
    BY <1>7, <1>9, CommandsFacts, Zenon
  <2>2. /\ sensor' = Expecting(IF received = SKIP_ROM THEN "a function" ELSE "a reset")
        /\ UNCHANGED <<scratchpad, converting, measured, begun>>
    BY <1>1, <1>2, <1>9, Zenon DEF Slot
  <2> QED
    BY <1>9, <2>1, <2>2, Zenon
<1>10. CASE i = 7 /\ step = 2
  <2>2. /\ sensor' = Expecting(IF received = READ_SCRATCHPAD THEN "nothing but slots"
                                                             ELSE "a reset")
        /\ received = CONVERT_T => converting' = ConversionTime /\ begun' = TRUE
        /\ received # CONVERT_T => UNCHANGED <<converting, measured, begun>>
        /\ scratchpad' = scratchpad
    BY <1>1, <1>2, <1>10, Zenon DEF Slot
  <2>3. CASE DS18B20_state = "REQUEST_CONVERSION"
    BY <1>7, <1>10, <2>2, <2>3, CommandsFacts, Zenon
  <2>4. CASE DS18B20_state = "GET_MEASUREMENT"
    <3>1. received = READ_SCRATCHPAD /\ received # CONVERT_T
      BY <1>7, <1>10, <2>4, CommandsFacts, CommandFacts
    <3> QED
      BY <1>10, <2>2, <2>4, <3>1, Zenon
  <2> QED
    BY <1>1, <2>3, <2>4
<1> QED
  BY <1>1, <1>8, <1>9, <1>10

\* A slot of onewire_write_byte().
LEMMA WriteSlotIInv == ASSUME IInv, WriteSlot PROVE IInv'
<1> USE DEF IInv
<1> DEFINE shifted == ShiftIn(byte, 0)
<1>1. /\ pc = "talking" /\ Writing /\ Slot(byte[0]) /\ Advance(shifted)
  BY DEF WriteSlot
<1>2. /\ i \in 0 .. 7 /\ step \in {1, 2} /\ ~Reading /\ byte \in Byte
      /\ DS18B20_state \in {"REQUEST_CONVERSION", "GET_MEASUREMENT"}
      /\ ~disturbed => contact
  BY <1>1, StepFacts
<1>3. /\ shifted \in Byte /\ \A k \in 0 .. 6 : shifted[k] = byte[k + 1]
      /\ byte[0] \in Bit
  <2>1. 0 \in Bit /\ byte[0] \in Bit
    BY <1>2 DEF Bit, Byte
  <2> QED
    BY <1>2, <2>1, ShiftFacts
<1>4. TypeOK' /\ Conversation' /\ Timing'
  BY <1>1, <1>3, SlotBookkeeping
<1>5. /\ scratchpad' = scratchpad
      /\ sensor'.expects # "nothing but slots" => sensor'.count <= 7
  BY <1>1, <1>3, SlotFacts
<1>6. contact' = contact /\ disturbed' = disturbed /\ answer' = answer /\ Len(answer) = 0
  <2>1. Len(answer) = 0
    BY <1>1, <1>2 DEF Conversation
  <2> QED
    <3>1. UNCHANGED <<contact, disturbed>> /\ answer' = answer
      BY <1>1, <1>2, <1>3, AdvanceFacts, Zenon
    <3> QED
      BY <2>1, <3>1
<1>7. ReadsWhatItRequested'
  BY <1>6 DEF ReadsWhatItRequested
<1>8. ~disturbed =>
        /\ \/ /\ i < 7
              /\ sensor'.expects = sensor.expects /\ sensor'.count = i + 1
              /\ \A k \in 0 .. 7 : k < i + 1 => sensor'.received[k] = Commands[step][k]
              /\ UNCHANGED <<converting, measured, begun>>
           \/ /\ i = 7 /\ step = 1 /\ sensor' = Expecting("a function")
              /\ UNCHANGED <<converting, measured, begun>>
           \/ /\ i = 7 /\ step = 2 /\ DS18B20_state = "REQUEST_CONVERSION"
              /\ converting' = ConversionTime /\ begun' = TRUE
           \/ /\ i = 7 /\ step = 2 /\ DS18B20_state = "GET_MEASUREMENT"
              /\ sensor' = Expecting("nothing but slots")
              /\ UNCHANGED <<converting, measured, begun>>
  BY <1>1, WrittenSlot
<1>11. UNCHANGED <<converting, measured, begun>> =>
         converting' = converting /\ measured' = measured /\ begun' = begun
  OBVIOUS
\* Within a byte.
<1>9. CASE i # 7
  <2>1. /\ i < 7 /\ i' = i + 1 /\ byte' = shifted
        /\ step' = step /\ pc' = pc /\ DS18B20_state' = DS18B20_state
    <3>1. /\ i < 7 /\ i' = i + 1 /\ byte' = shifted
          /\ UNCHANGED <<step, answer, pc, DS18B20_state>>
      BY <1>1, <1>3, <1>9, AdvanceFacts, Zenon
    <3> QED
      BY <3>1
  <2>2. Commands' = Commands /\ (Writing' <=> Writing) /\ (Reading' <=> Reading)
    BY <2>1 DEF Commands, Writing, Reading, Replies
  <2>3. BitsToWrite'
    <3>1. ASSUME NEW k \in 0 .. 7, k + i' <= 7
          PROVE  byte'[k] = Commands[step][k + i']
      <4>1. /\ k \in 0 .. 6 /\ k + 1 \in 0 .. 7 /\ (k + 1) + i <= 7 /\ (k + 1) + i = k + i'
        BY <1>2, <2>1, <3>1
      <4>2. byte[k + 1] = Commands[step][(k + 1) + i]
        BY <1>1, <4>1, Zenon DEF BitsToWrite
      <4>3. byte'[k] = byte[k + 1]
        BY <1>3, <2>1, <4>1, Zenon
      <4> QED
        BY <4>1, <4>2, <4>3
    <3> QED
      BY <2>1, <2>2, <3>1 DEF BitsToWrite
  <2>4. ~disturbed =>
          /\ sensor'.expects = sensor.expects /\ sensor'.count = i + 1
          /\ \A k \in 0 .. 7 : k < i + 1 => sensor'.received[k] = Commands[step][k]
          /\ UNCHANGED <<converting, measured, begun>>
    BY <1>8, <1>9, Zenon
  <2>5. BitsTaken'
    BY <1>5, <1>6, <2>1, <2>2, <2>4, Zenon DEF BitsTaken
  <2>6. BitsRead'
    BY <1>2, <2>2 DEF BitsRead
  <2>7. Conversion'
    <3>1. disturbed' = disturbed /\ contact' = contact /\ pc' = "talking" /\ DS18B20_state' = DS18B20_state
      BY <1>1, <1>6, <2>1
    <3>2. CASE disturbed
      BY <3>1, <3>2, Zenon DEF Conversion
    <3>3. CASE ~disturbed
      <4>1. /\ converting' = converting /\ measured' = measured /\ begun' = begun
            /\ scratchpad' = scratchpad /\ contact
        BY <1>2, <1>5, <1>11, <2>4, <3>3, Zenon
      <4> QED
        BY <1>1, <3>1, <3>3, <4>1, Zenon DEF Conversion
    <3> QED
      BY <3>2, <3>3
  <2>8. InStep'
    <3>1. step > 0 /\ ~Reading'
      BY <1>2, <2>2
    <3>2. ~disturbed => \/ step = 1 /\ sensor.expects = "a ROM command"
                        \/ step = 2 /\ sensor.expects = "a function"
      BY <1>1, <1>2, <3>1, Zenon DEF InStep
    <3> QED
      BY <1>6, <2>1, <2>4, <3>2, Zenon DEF InStep
  <2> QED
    BY <1>4, <1>7, <2>3, <2>5, <2>6, <2>7, <2>8
\* The last bit of a command.
<1>10. CASE i = 7
  <2>1. i' = 0 /\ step' = step + 1
    <3>1. ~(i < 7)
      BY <1>10
    <3> QED
      BY <1>1, <1>3, <3>1, AdvanceFacts, Zenon
  <2>2. \/ /\ step < 2 + Replies /\ UNCHANGED <<pc, DS18B20_state>>
           /\ byte' = IF step = 1 THEN Commands[2] ELSE Zeros
        \/ step = 2 + Replies /\ pc' = "rest"
           /\ DS18B20_state' = IF DS18B20_state = "GET_MEASUREMENT"
                                 THEN "REQUEST_CONVERSION" ELSE "GET_MEASUREMENT"
    <3>1. ~(i < 7)
      BY <1>10
    <3> QED
      BY <1>1, <1>3, <3>1, AdvanceFacts, Zenon
  <2>3. /\ DS18B20_state = "REQUEST_CONVERSION" => Replies = 0
        /\ DS18B20_state = "GET_MEASUREMENT" => Replies = 2
    BY CommandsFacts
  <2>4. pc' = "talking" => UNCHANGED DS18B20_state
    BY <2>2
  <2>5. pc' = "talking" /\ step = 2 => DS18B20_state = "GET_MEASUREMENT"
    BY <1>2, <2>2, <2>3
  <2>6. BitsToWrite'
    <3>1. Writing' => step = 1 /\ step' = 2
      BY <1>2, <2>1 DEF Writing
    <3>2. pc' = "talking" => Commands' = Commands
      BY <2>4 DEF Commands
    <3>3. step = 1 => step < 2 + Replies /\ step # 2 + Replies
      BY <1>2, <2>3
    <3>4. step = 1 => byte' = Commands[2]
      BY <2>2, <3>3
    <3>5. \A k \in 0 .. 7 : k + 0 = k
      OBVIOUS
    <3> QED
      BY <2>1, <3>1, <3>2, <3>4, <3>5, Zenon DEF BitsToWrite
  <2>7. BitsTaken'
    <3>1. \A k \in 0 .. 7 : ~(k < 0)
      OBVIOUS
    <3> QED
      BY <1>5, <2>1, <3>1, Zenon DEF BitsTaken
  <2>8. BitsRead'
    <3>1. (\A k \in 0 .. 7 : ~(k + i' >= 8)) /\ step' # 4
      BY <1>2, <2>1
    <3> QED
      BY <3>1, Zenon DEF BitsRead
  <2>9. Conversion'
    <3>1. ConversionTime # 0
      BY ConstantFacts
    <3>2. CASE disturbed
      BY <1>6, <3>2, Zenon DEF Conversion
    <3>3. CASE ~disturbed /\ UNCHANGED <<converting, measured, begun>>
                          /\ (step = 2 => DS18B20_state = "GET_MEASUREMENT")
      <4>1. DS18B20_state' = "GET_MEASUREMENT" => DS18B20_state = "GET_MEASUREMENT"
        BY <1>2, <2>2, <2>3, <3>3
      <4> QED
        BY <1>1, <1>2, <1>5, <1>6, <1>11, <2>4, <3>3, <4>1, Zenon DEF Conversion
    <3>4. CASE ~disturbed /\ step = 2 /\ DS18B20_state = "REQUEST_CONVERSION"
               /\ converting' = ConversionTime /\ begun' = TRUE
      <4>1. pc' # "talking"
        BY <2>5, <3>4
      <4> QED
        BY <1>1, <1>2, <1>6, <3>1, <3>4, <4>1, Zenon DEF Conversion
    <3>5. step = 1 => step # 2
      OBVIOUS
    <3>6. i = 7 => ~(i < 7)
      OBVIOUS
    <3> QED
      BY <1>8, <1>10, <3>2, <3>3, <3>4, <3>5, <3>6, Zenon
  <2>10. InStep'
    <3>1. CASE step = 1
      <4>1. i' = 0 /\ step' = 2 /\ ~(i < 7) /\ step # 2
        BY <1>10, <2>1, <3>1
      <4>2. ~disturbed => sensor' = [expects |-> "a function", count |-> 0, received |-> Zeros]
        BY <1>8, <3>1, <4>1, Zenon DEF Expecting
      <4>3. ~disturbed => sensor'.expects = "a function" /\ sensor'.count = 0
        <5>1. ASSUME ~disturbed PROVE sensor'.expects = "a function" /\ sensor'.count = 0
          <6>1. sensor' = [expects |-> "a function", count |-> 0, received |-> Zeros]
            BY <4>2, <5>1, Zenon
          <6> QED
            BY <6>1
        <5> QED
          BY <5>1
      <4> QED
        BY <1>6, <4>1, <4>3, Zenon DEF InStep
    <3>2. CASE step = 2 /\ pc' = "talking"
      <4>1. i' = 0 /\ step' = 3 /\ ~(i < 7) /\ step # 1
        BY <1>10, <2>1, <3>2
      <4>2. DS18B20_state = "GET_MEASUREMENT"
        BY <2>5, <3>2
      <4>3. ~disturbed => sensor' = [expects |-> "nothing but slots", count |-> 0, received |-> Zeros]
        BY <1>8, <3>2, <4>1, <4>2 DEF Expecting
      <4>4. ~disturbed => sensor'.expects = "nothing but slots" /\ sensor'.count = 0
        <5>1. ASSUME ~disturbed PROVE sensor'.expects = "nothing but slots" /\ sensor'.count = 0
          <6>1. sensor' = [expects |-> "nothing but slots", count |-> 0, received |-> Zeros]
            BY <4>3, <5>1, Zenon
          <6> QED
            BY <6>1
        <5> QED
          BY <5>1
      <4>5. 8 * (step' - 3) + i' = 0
        BY <4>1
      <4>6. Reading'
        BY <2>4, <3>2, <4>1, <4>2 DEF Reading, Replies
      <4> QED
        BY <1>6, <4>4, <4>5, <4>6, Zenon DEF InStep
    <3>3. CASE pc' # "talking"
      BY <3>3, Zenon DEF InStep
    <3> QED
      BY <1>2, <3>1, <3>2, <3>3
  <2> QED
    BY <1>4, <1>7, <2>6, <2>7, <2>8, <2>9, <2>10
<1> QED
  BY <1>9, <1>10

\* In step, the program reads the next bit of the scratchpad, and after the
\* last bit of a byte it has that byte.
LEMMA BitRead ==
  ASSUME IInv, pc = "talking", Reading, ~disturbed, Slot(1)
  PROVE  /\ Sends = scratchpad[8 * (step - 3) + i]
         /\ sensor'.expects = "nothing but slots"
         /\ sensor'.count = 8 * (step - 3) + i + 1
         /\ scratchpad' = scratchpad /\ converting' = converting
         /\ measured' = measured /\ begun' = begun
<1> USE DEF IInv
<1>1. /\ i \in 0 .. 7 /\ step \in {3, 4} /\ ~Writing /\ contact
  BY StepFacts
<1>2. sensor.expects = "nothing but slots" /\ sensor.count = 8 * (step - 3) + i
  <2>1. step > 0 /\ step # 1 /\ step # 2
    BY <1>1
  <2> QED
    BY <2>1, Zenon DEF InStep
<1>3. 8 * (step - 3) + i < 16
  BY <1>1
<1>4. sensor.count < 16
  BY <1>2, <1>3
<1>5. Sends = scratchpad[8 * (step - 3) + i]
  BY <1>1, <1>2, <1>4, Zenon DEF Sends
<1>6. sensor' = [sensor EXCEPT !.count = IF @ < 16 THEN @ + 1 ELSE @]
      /\ UNCHANGED <<scratchpad, converting, measured, begun>>
  <2>1. ~(sensor.expects \in {"a ROM command", "a function"}) /\ sensor.expects # "a reset"
        /\ sensor.expects # "a ROM command" /\ sensor.expects # "a function"
    BY <1>2
  <2> QED
    BY <1>1, <2>1, Zenon DEF Slot
<1>7. sensor \in Sensors
  BY DEF TypeOK
<1>8. sensor'.expects = sensor.expects /\ sensor'.count = sensor.count + 1
  BY <1>4, <1>6, <1>7 DEF Sensors
<1>9. scratchpad' = scratchpad /\ converting' = converting
      /\ measured' = measured /\ begun' = begun
  BY <1>6
<1> QED
  BY <1>2, <1>5, <1>8, <1>9, Zenon

\* The part of the byte that has been read after this slot.
LEMMA ByteRead ==
  ASSUME IInv, pc = "talking", Reading, ~disturbed, Slot(1),
         NEW k \in 0 .. 7, k + i + 1 >= 8
  PROVE  ShiftIn(byte, Sends)[k] = scratchpad[8 * (step - 3) + k + i + 1 - 8]
<1> USE DEF IInv
<1>1. i \in 0 .. 7 /\ step \in {3, 4} /\ byte \in Byte
  BY StepFacts
<1>2. /\ \A n \in 0 .. 6 : ShiftIn(byte, Sends)[n] = byte[n + 1]
      /\ ShiftIn(byte, Sends)[7] = Sends
  BY <1>1, SendsFacts, ShiftFacts
<1>3. CASE k = 7
  <2>1. 8 * (step - 3) + k + i + 1 - 8 = 8 * (step - 3) + i
    BY <1>1, <1>3
  <2> QED
    BY <1>2, <1>3, <2>1, BitRead, Zenon
<1>4. CASE k # 7
  <2>1. /\ k \in 0 .. 6 /\ k + 1 \in 0 .. 7 /\ (k + 1) + i >= 8
        /\ 8 * (step - 3) + (k + 1) + i - 8 = 8 * (step - 3) + k + i + 1 - 8
    BY <1>1, <1>4
  <2>2. byte[k + 1] = scratchpad[8 * (step - 3) + (k + 1) + i - 8]
    BY <2>1, Zenon DEF BitsRead
  <2> QED
    BY <1>2, <2>1, <2>2, Zenon
<1> QED
  BY <1>3, <1>4

\* A slot of onewire_read_byte().
LEMMA ReadSlotIInv == ASSUME IInv, ReadSlot PROVE IInv'
<1> USE DEF IInv
<1> DEFINE shifted == ShiftIn(byte, Sends)
<1>1. /\ pc = "talking" /\ Reading /\ Slot(1) /\ Advance(shifted)
  BY DEF ReadSlot
<1>2. /\ i \in 0 .. 7 /\ step \in {3, 4} /\ ~Writing /\ byte \in Byte /\ Replies = 2
      /\ DS18B20_state = "GET_MEASUREMENT" /\ answer \in Seq(Byte)
      /\ Len(answer) = step - 3 /\ (~disturbed => contact)
  <2>1. Len(answer) = step - 3
    BY <1>1 DEF Conversation
  <2> QED
    BY <1>1, <2>1, StepFacts
<1>3. shifted \in Byte /\ 1 \in Bit
  <2>1. 1 \in Bit
    BY DEF Bit
  <2> QED
    BY <1>2, <2>1, SendsFacts, ShiftFacts
<1>4. TypeOK' /\ Conversation' /\ Timing'
  BY <1>1, <1>3, SlotBookkeeping
<1>5. scratchpad' = scratchpad /\ (sensor'.expects # "nothing but slots" => sensor'.count <= 7)
  BY <1>1, <1>3, SlotFacts
<1>6. contact' = contact /\ disturbed' = disturbed
  <2>1. UNCHANGED <<contact, disturbed>>
    BY <1>1, <1>3, AdvanceFacts, Zenon
  <2> QED
    BY <2>1
<1>7. ~disturbed =>
        /\ sensor'.expects = "nothing but slots" /\ sensor'.count = 8 * (step - 3) + i + 1
        /\ converting' = converting /\ measured' = measured /\ begun' = begun
  BY <1>1, BitRead
<1>8. \/ /\ i < 7 /\ i' = i + 1 /\ byte' = shifted /\ step' = step /\ answer' = answer
         /\ pc' = pc /\ DS18B20_state' = DS18B20_state
      \/ /\ i = 7 /\ step = 3 /\ i' = 0 /\ step' = 4
         /\ pc' = pc /\ DS18B20_state' = DS18B20_state
         /\ answer' = Append(answer, shifted)
      \/ /\ i = 7 /\ step = 4 /\ i' = 0 /\ step' = 5
         /\ pc' = "rest" /\ DS18B20_state' = "REQUEST_CONVERSION"
         /\ answer' = Append(answer, shifted)
  <2>1. CASE /\ i < 7 /\ i' = i + 1 /\ byte' = shifted
             /\ UNCHANGED <<step, answer, pc, DS18B20_state>>
    BY <2>1
  <2>2. CASE /\ i = 7 /\ step < 2 + Replies
             /\ i' = 0 /\ step' = step + 1 /\ UNCHANGED <<pc, DS18B20_state>>
             /\ answer' = IF Reading THEN Append(answer, shifted) ELSE answer
    <3>1. step = 3 /\ step' = 4
      BY <1>2, <2>2
    <3>2. answer' = Append(answer, shifted)
      BY <1>1, <2>2, Zenon
    <3>3. pc' = pc /\ DS18B20_state' = DS18B20_state
      BY <2>2
    <3> QED
      BY <2>2, <3>1, <3>2, <3>3, Zenon
  <2>3. CASE /\ i = 7 /\ step = 2 + Replies
             /\ i' = 0 /\ step' = step + 1 /\ pc' = "rest"
             /\ DS18B20_state' = IF DS18B20_state = "GET_MEASUREMENT"
                                   THEN "REQUEST_CONVERSION" ELSE "GET_MEASUREMENT"
             /\ answer' = IF Reading THEN Append(answer, shifted) ELSE answer
    <3>1. step = 4 /\ step' = 5
      BY <1>2, <2>3
    <3>2. answer' = Append(answer, shifted)
      BY <1>1, <2>3, Zenon
    <3> QED
      BY <1>2, <2>3, <3>1, <3>2, Zenon
  <2> QED
    BY <1>1, <1>3, <2>1, <2>2, <2>3, AdvanceFacts, Zenon
<1>9. BitsToWrite' /\ BitsTaken'
  <2>1. ~Writing'
    <3>1. step' \in {3, 4, 5}
      BY <1>2, <1>8
    <3> QED
      BY <3>1 DEF Writing
  <2> QED
    BY <1>5, <2>1, Zenon DEF BitsToWrite, BitsTaken
\* The byte that this slot completes, and the one before it.
<1>10. ~disturbed /\ i = 7 =>
         \A k \in 0 .. 7 : shifted[k] = scratchpad[8 * (step - 3) + k]
  <2>1. ASSUME ~disturbed, i = 7, NEW k \in 0 .. 7
        PROVE  shifted[k] = scratchpad[8 * (step - 3) + k]
    <3>1. k + i + 1 >= 8 /\ 8 * (step - 3) + k + i + 1 - 8 = 8 * (step - 3) + k
      BY <1>2, <2>1
    <3>2. shifted[k] = scratchpad[8 * (step - 3) + k + i + 1 - 8]
      BY <1>1, <2>1, <3>1, ByteRead
    <3> QED
      BY <3>1, <3>2, Zenon
  <2> QED
    BY <2>1
<1>11. /\ step = 3 => Append(answer, shifted)[1] = shifted
       /\ step = 4 => /\ Append(answer, shifted)[1] = answer[1]
                      /\ Append(answer, shifted)[2] = shifted
  <2>1. step = 3 => Len(answer) = 0
    BY <1>2
  <2>2. step = 4 => Len(answer) = 1
    BY <1>2
  <2> QED
    BY <1>2, <1>3, <2>1, <2>2, AppendProperties
<1>12. BitsRead'
  <2>1. SUFFICES ASSUME pc' = "talking", ~disturbed
                 PROVE  /\ \A k \in 0 .. 7 : k + i' >= 8 =>
                             byte'[k] = scratchpad'[8 * (step' - 3) + k + i' - 8]
                        /\ step' = 4 => \A k \in 0 .. 7 : answer'[1][k] = scratchpad'[k]
    BY <1>6, Zenon DEF BitsRead
  <2>2. CASE i < 7
    <3>1. i' = i + 1 /\ byte' = shifted /\ step' = step /\ answer' = answer
      BY <1>8, <2>2
    <3>2. ASSUME NEW k \in 0 .. 7, k + i' >= 8
          PROVE  byte'[k] = scratchpad'[8 * (step' - 3) + k + i' - 8]
      <4>1. k + i + 1 >= 8 /\ 8 * (step' - 3) + k + i' - 8 = 8 * (step - 3) + k + i + 1 - 8
        BY <1>2, <3>1, <3>2
      <4>2. shifted[k] = scratchpad[8 * (step - 3) + k + i + 1 - 8]
        BY <1>1, <2>1, <4>1, ByteRead
      <4> QED
        BY <1>5, <3>1, <4>1, <4>2, Zenon
    <3>3. step = 4 => \A k \in 0 .. 7 : answer[1][k] = scratchpad[k]
      BY <1>1, <2>1, Zenon DEF BitsRead
    <3> QED
      BY <1>5, <3>1, <3>2, <3>3, Zenon
  <2>3. CASE i = 7
    <3>1. i' = 0 /\ answer' = Append(answer, shifted) /\ step = 3
      <4>1. ~(i < 7) /\ pc' # "rest"
        BY <2>1, <2>3
      <4> QED
        BY <1>8, <4>1, Zenon
    <3>2. \A k \in 0 .. 7 : ~(k + i' >= 8)
      BY <3>1
    <3>3. \A k \in 0 .. 7 : 8 * (step - 3) + k = k
      BY <3>1
    <3>4. \A k \in 0 .. 7 : answer'[1][k] = scratchpad[k]
      BY <1>10, <1>11, <2>1, <2>3, <3>1, <3>3, Zenon
    <3> QED
      BY <1>5, <3>2, <3>4, Zenon
  <2> QED
    BY <1>2, <2>2, <2>3
<1>13. Conversion'
  <2>1. CASE disturbed
    BY <1>6, <2>1, Zenon DEF Conversion
  <2>2. CASE ~disturbed
    <3>1. begun /\ converting = 0 /\ scratchpad = measured /\ contact
      BY <1>1, <1>2, <2>2, Zenon DEF Conversion
    <3>2. begun' /\ converting' = 0 /\ scratchpad' = measured' /\ contact'
      BY <1>5, <1>6, <1>7, <2>2, <3>1, Zenon
    <3> QED
      BY <3>2, Zenon DEF Conversion
  <2> QED
    BY <2>1, <2>2
<1>14. InStep'
  <2>1. SUFFICES ASSUME pc' = "talking", ~disturbed
                 PROVE  /\ Reading' /\ sensor'.expects = "nothing but slots"
                        /\ sensor'.count = 8 * (step' - 3) + i'
    BY <1>6, Zenon DEF InStep
  <2>2. /\ DS18B20_state' = DS18B20_state /\ step' \in {3, 4}
        /\ 8 * (step' - 3) + i' = 8 * (step - 3) + i + 1
    <3>1. CASE i < 7
      BY <1>2, <1>8, <3>1
    <3>2. CASE i = 7
      <4>1. i' = 0 /\ step = 3 /\ step' = 4 /\ DS18B20_state' = DS18B20_state
        <5>1. ~(i < 7) /\ pc' # "rest"
          BY <2>1, <3>2
        <5> QED
          BY <1>8, <5>1, Zenon
      <4> QED
        BY <3>2, <4>1
    <3> QED
      BY <1>2, <3>1, <3>2
  <2>3. Reading'
    BY <1>2, <2>2 DEF Reading, Replies
  <2> QED
    BY <1>7, <2>1, <2>2, <2>3, Zenon
<1>15. ReadsWhatItRequested'
  <2>1. SUFFICES ASSUME Len(answer') = 2, ~disturbed
                 PROVE  begun' /\ Reported' = measured'
    BY <1>6, Zenon DEF ReadsWhatItRequested
  <2>2. begun /\ scratchpad = measured
    BY <1>1, <1>2, <2>1, Zenon DEF Conversion
  <2>3. i = 7 /\ step = 4 /\ answer' = Append(answer, shifted)
    <3>1. Len(answer) # 2 /\ (step = 3 => Len(Append(answer, shifted)) = 1)
      <4>1. Len(Append(answer, shifted)) = Len(answer) + 1
        BY <1>2, <1>3, AppendProperties
      <4> QED
        BY <1>2, <4>1
    <3>2. 1 # 2
      OBVIOUS
    <3> QED
      BY <1>8, <2>1, <3>1, <3>2, Zenon
  <2>4. \A k \in 0 .. 7 : answer'[1][k] = scratchpad[k]
    <3>1. \A k \in 0 .. 7 : answer[1][k] = scratchpad[k]
      BY <1>1, <2>1, <2>3, Zenon DEF BitsRead
    <3> QED
      BY <1>11, <2>3, <3>1, Zenon
  <2>5. \A k \in 8 .. 15 : answer'[2][k - 8] = scratchpad[k]
    <3>1. \A k \in 0 .. 7 : answer'[2][k] = scratchpad[8 * (step - 3) + k]
      BY <1>10, <1>11, <2>1, <2>3, Zenon
    <3>2. \A k \in 8 .. 15 : k - 8 \in 0 .. 7 /\ 8 * (step - 3) + (k - 8) = k
      BY <2>3
    <3> QED
      BY <3>1, <3>2, Zenon
  <2>6. \A k \in 0 .. 15 : (k < 8 => k \in 0 .. 7) /\ (~(k < 8) => k \in 8 .. 15)
    OBVIOUS
  <2>7. \A k \in 0 .. 15 : (IF k < 8 THEN answer'[1][k] ELSE answer'[2][k - 8]) = scratchpad[k]
    BY <2>4, <2>5, <2>6, Zenon
  <2>8. scratchpad = [k \in 0 .. 15 |-> scratchpad[k]]
    BY SensorFacts DEF Word
  <2>9. Reported' = scratchpad
    BY <2>7, <2>8, Zenon DEF Reported
  <2> QED
    BY <1>7, <2>1, <2>2, <2>9, Zenon
<1> QED
  BY <1>4, <1>9, <1>12, <1>13, <1>14, <1>15

-----------------------------------------------------------------------------
\* Every step keeps the invariant.
LEMMA NextIInv == IInv /\ [Next]_vars => IInv'
<1> SUFFICES ASSUME IInv, [Next]_vars PROVE IInv'
  OBVIOUS
<1>1. CASE UNCHANGED vars
  <2>1. /\ UNCHANGED <<control, slots, device, contact, time, history>>
    BY <1>1 DEF vars
  <2>2. TypeOK' /\ BitsToWrite' /\ BitsTaken' /\ BitsRead'
    BY <2>1 DEF IInv, TypeOK, BitsToWrite, BitsTaken, BitsRead, Writing, Reading, Replies, Commands
  <2>3. Conversation' /\ Timing' /\ Conversion'
    BY <2>1 DEF IInv, Conversation, Timing, Conversion, Reading, Replies
  <2>4. InStep' /\ ReadsWhatItRequested'
    BY <2>1 DEF IInv, InStep, ReadsWhatItRequested, Reported, Reading, Replies
  <2> QED
    BY <2>2, <2>3, <2>4 DEF IInv
<1>2. CASE Next
  BY <1>2, StartCycleIInv, ResetIInv, WriteSlotIInv, ReadSlotIInv, FinishCycleIInv,
     TickIInv, ElapseIInv, FaultIInv, Zenon DEF Next
<1> QED
  BY <1>1, <1>2

\* Whatever the temperatures and however a tick is divided, the invariant
\* holds: main(), onewire.c and the sensor never leave it.
THEOREM Invariance == Spec => []IInv
BY InitIInv, NextIInv, PTL DEF Spec

\* The sensor takes every bit that onewire_write_byte() sends it, and
\* onewire_read_byte() every bit of the sensor, for the bit it is.
THEOREM StaysInStep == Spec => []InStep
<1>1. IInv => InStep
  BY DEF IInv
<1> QED
  BY <1>1, Invariance, PTL

\* What DS18B20_get_temperature() reads is the result of the conversion that
\* DS18B20_request_conversion() has started a cycle before.
THEOREM ReadsRequested == Spec => []ReadsWhatItRequested
<1>1. IInv => ReadsWhatItRequested
  BY DEF IInv
<1> QED
  BY <1>1, Invariance, PTL
=============================================================================
