-------------------------------- MODULE OneWire --------------------------------
(***************************************************************************)
(* The DS18B20 at the other end of onewire.c, slot by slot, and the update *)
(* cycles of main() that ask it for a conversion and for its result.       *)
(* Nothing the sensor answers steers the program: the presence pulse is    *)
(* not looked at, and that a conversion is through is known from the time  *)
(* that has passed only.                                                   *)
(*                                                                         *)
(* A byte is the function of its bits, from the least significant one.     *)
(* Time passes in equal parts of a tick.                                   *)
(***************************************************************************)
EXTENDS Integers, Sequences

CONSTANTS
  Temperatures,     \* what the sensor may measure, as the 16 bits it reports
  PowerOn,          \* what it reports before its first conversion
  TickPeriod,       \* parts of a tick
  ConversionTime,   \* parts a conversion takes at most: 750 ms
  ConversationTime  \* parts that may pass while the program talks to it

Bit == {0, 1}
Byte == [0 .. 7 -> Bit]
Word == [0 .. 15 -> Bit]

ASSUME OneWireAssumption ==
  /\ Temperatures \subseteq Word
  /\ PowerOn \in Word
  /\ ConversionTime \in Nat \ {0}
  /\ ConversationTime \in Nat
  /\ TickPeriod \in Nat /\ TickPeriod >= ConversionTime + ConversationTime

VARIABLES
  pc,             \* main(): "waiting", "talking" to the sensor, in the "rest"
  update_state,
  DS18B20_state,
  step,           \* the reset (0) or the byte of the conversation
  i, byte,        \* of onewire_write_byte() and onewire_read_byte()
  answer,         \* the bytes read in this conversation
  sensor,         \* [expects, count, received]: its side of the conversation
  scratchpad,     \* the temperature it reports
  converting,     \* parts of a tick its conversion will still take
  measured,       \* what the conversion will yield
  contact,        \* it is connected to the bus
  clock,          \* parts of a tick since the last one
  spent,          \* history: parts spent in this conversation
  begun,          \* history: a conversion was begun since the last request,
  disturbed       \* history: and something went wrong since

control == <<pc, update_state, DS18B20_state>>
slots == <<step, i, byte, answer>>
device == <<sensor, scratchpad, converting, measured>>
time == <<clock, spent>>
history == <<begun, disturbed>>
vars == <<control, slots, device, contact, time, history>>

-----------------------------------------------------------------------------
Zeros == [k \in 0 .. 7 |-> 0]

\* 0xCC, 0x44 and 0xBE
SKIP_ROM == [k \in 0 .. 7 |-> IF k \in {2, 3, 6, 7} THEN 1 ELSE 0]
CONVERT_T == [k \in 0 .. 7 |-> IF k \in {2, 6} THEN 1 ELSE 0]
READ_SCRATCHPAD == [k \in 0 .. 7 |-> IF k \in {1, 2, 3, 4, 5, 7} THEN 1 ELSE 0]

\* byte >>= 1, with a new most significant bit
ShiftIn(b, high) == [k \in 0 .. 7 |-> IF k = 7 THEN high ELSE b[k + 1]]

\* What DS18B20_request_conversion() and DS18B20_get_temperature() write after
\* the reset, and how many bytes they read then.
Commands ==
  IF DS18B20_state = "REQUEST_CONVERSION" THEN <<SKIP_ROM, CONVERT_T>>
                                          ELSE <<SKIP_ROM, READ_SCRATCHPAD>>
Replies == IF DS18B20_state = "REQUEST_CONVERSION" THEN 0 ELSE 2

Writing == step \in 1 .. 2
Reading == step \in 3 .. 2 + Replies

-----------------------------------------------------------------------------
\* The sensor.

Sensors ==
  [expects : {"a reset", "a ROM command", "a function", "nothing but slots"},
   count : 0 .. 16, received : Byte]

Expecting(command) == [expects |-> command, count |-> 0, received |-> Zeros]

\* In a slot it sends a bit by holding the line low or leaving it alone ...
Sends ==
  IF contact /\ sensor.expects = "nothing but slots" /\ sensor.count < 16
    THEN scratchpad[sensor.count] ELSE 1

\* ... or takes the one the program gives it, the least significant first, and
\* carries out the command the last one completes.
Slot(level) ==
  LET received == [sensor.received EXCEPT ![sensor.count] = level]
      complete == sensor.count = 7
  IN
  \/ /\ ~contact \/ sensor.expects = "a reset"
     /\ UNCHANGED <<device, begun>>
  \/ /\ contact /\ sensor.expects = "nothing but slots"
     /\ sensor' = [sensor EXCEPT !.count = IF @ < 16 THEN @ + 1 ELSE @]
     /\ UNCHANGED <<scratchpad, converting, measured, begun>>
  \/ /\ contact /\ sensor.expects \in {"a ROM command", "a function"} /\ ~complete
     /\ sensor' = [sensor EXCEPT !.count = @ + 1, !.received = received]
     /\ UNCHANGED <<scratchpad, converting, measured, begun>>
  \/ /\ contact /\ sensor.expects = "a ROM command" /\ complete
     /\ sensor' = Expecting(IF received = SKIP_ROM THEN "a function" ELSE "a reset")
     /\ UNCHANGED <<scratchpad, converting, measured, begun>>
  \/ /\ contact /\ sensor.expects = "a function" /\ complete
     /\ sensor' = Expecting(IF received = READ_SCRATCHPAD THEN "nothing but slots"
                                                          ELSE "a reset")
     /\ IF received = CONVERT_T
          THEN /\ measured' \in Temperatures
               /\ converting' = ConversionTime
               /\ begun' = TRUE
          ELSE UNCHANGED <<converting, measured, begun>>
     /\ UNCHANGED scratchpad

-----------------------------------------------------------------------------
Init ==
  /\ pc = "waiting"
  /\ update_state = "UPDATE_REQUEST"
  /\ DS18B20_state = "REQUEST_CONVERSION"
  /\ step = 0 /\ i = 0 /\ byte = Zeros /\ answer = <<>>
  /\ sensor = Expecting("a reset")
  /\ scratchpad = PowerOn
  /\ converting = 0
  /\ measured = PowerOn
  /\ contact \in BOOLEAN
  /\ clock = 0 /\ spent = 0
  /\ begun = FALSE /\ disturbed = FALSE

\* An update cycle begins.
StartCycle ==
  /\ pc = "waiting" /\ update_state = "UPDATE_REQUEST"
  /\ pc' = "talking"
  /\ step' = 0 /\ i' = 0 /\ answer' = <<>> /\ spent' = 0
  /\ IF DS18B20_state = "REQUEST_CONVERSION"
       THEN begun' = FALSE /\ disturbed' = ~contact
       ELSE UNCHANGED history
  /\ UNCHANGED <<update_state, DS18B20_state, byte, device, contact, clock>>

\* Mutant: the pulse is too short for the sensor.
ResetTooShort ==
  /\ pc = "talking" /\ step = 0
  /\ step' = 1 /\ i' = 0 /\ byte' = Commands[1]
  /\ UNCHANGED <<control, answer, device, contact, time, history>>

\* onewire_reset(): whatever the sensor was doing, it takes commands again.
\* Its presence pulse is returned to callers that drop it.
Reset ==
  /\ pc = "talking" /\ step = 0
  /\ sensor' = IF contact THEN Expecting("a ROM command") ELSE sensor
  /\ step' = 1 /\ i' = 0 /\ byte' = Commands[1]
  /\ UNCHANGED <<control, answer, scratchpad, converting, measured, contact,
                 time, history>>

\* The end of a slot: the next bit, the next byte, or the rest of the cycle.
Advance(shifted) ==
  LET last == i = 7
      over == last /\ step = 2 + Replies
  IN
  /\ i' = (i + 1) % 8
  /\ step' = IF last THEN step + 1 ELSE step
  /\ byte' = CASE ~last -> shifted
               [] last /\ step = 1 -> Commands[2]
               [] OTHER -> Zeros
  /\ answer' = IF last /\ Reading THEN Append(answer, shifted) ELSE answer
  /\ pc' = IF over THEN "rest" ELSE pc
  /\ DS18B20_state' = CASE ~over -> DS18B20_state
                        [] over /\ DS18B20_state = "GET_MEASUREMENT" ->
                             "REQUEST_CONVERSION"
                        [] OTHER -> "GET_MEASUREMENT"
  /\ UNCHANGED <<update_state, contact, time, disturbed>>

\* onewire_write_byte(): the line is released early for a 1.
WriteSlot ==
  /\ pc = "talking" /\ Writing
  /\ Slot(byte[0])
  /\ Advance(ShiftIn(byte, 0))

\* Mutant: byte >>= 1 after the bit is set and not before it.
ReadSlotShiftsLast ==
  /\ pc = "talking" /\ Reading
  /\ Slot(1)
  /\ Advance(ShiftIn([byte EXCEPT ![7] = Sends], 0))

\* onewire_read_byte(): the line is released at once and read.
ReadSlot ==
  /\ pc = "talking" /\ Reading
  /\ Slot(1)
  /\ Advance(ShiftIn(byte, Sends))

\* Mutant: the request is not taken back, the next cycle follows at once.
FinishCycleKeepsRequest ==
  /\ pc = "rest"
  /\ pc' = "waiting"
  /\ UNCHANGED <<update_state, DS18B20_state, slots, device, contact, time, history>>

\* The rest of the cycle, which takes any time, and its end: a tick that came
\* meanwhile is forgotten.
FinishCycle ==
  /\ pc = "rest"
  /\ pc' = "waiting" /\ update_state' = "UP_TO_DATE"
  /\ UNCHANGED <<DS18B20_state, slots, device, contact, time, history>>

\* timer_callback()
Tick ==
  /\ clock = TickPeriod
  /\ clock' = 0 /\ update_state' = "UPDATE_REQUEST"
  /\ UNCHANGED <<pc, DS18B20_state, slots, device, contact, spent, history>>

\* Time does not pass between a request and the cycle it starts, and only
\* ConversationTime of it in a conversation.
Elapse ==
  /\ clock < TickPeriod
  /\ pc = "waiting" => update_state = "UP_TO_DATE"
  /\ pc = "talking" => spent < ConversationTime
  /\ clock' = clock + 1
  /\ spent' = IF pc = "talking" THEN spent + 1 ELSE spent
  /\ converting' = IF converting > 0 THEN converting - 1 ELSE 0
  /\ scratchpad' = IF converting = 1 THEN measured ELSE scratchpad
  /\ UNCHANGED <<control, slots, sensor, measured, contact, history>>

\* A loose plug; a sensor that loses its supply for a moment.  Bound: one fault
\* from a request to the next.
Unplug ==
  /\ contact /\ ~disturbed
  /\ contact' = FALSE /\ disturbed' = TRUE
  /\ UNCHANGED <<control, slots, device, time, begun>>
Plug ==
  /\ ~contact /\ contact' = TRUE
  /\ UNCHANGED <<control, slots, device, time, history>>
PowerFail ==
  /\ ~disturbed
  /\ sensor' = Expecting("a reset")
  /\ scratchpad' = PowerOn /\ converting' = 0 /\ measured' = PowerOn
  /\ disturbed' = TRUE
  /\ UNCHANGED <<control, slots, contact, time, begun>>

Next ==
  \/ StartCycle \/ Reset \/ WriteSlot \/ ReadSlot \/ FinishCycle
  \/ Tick \/ Elapse
  \/ Unplug \/ Plug \/ PowerFail

Spec == Init /\ [][Next]_vars

-----------------------------------------------------------------------------
TypeOK ==
  /\ pc \in {"waiting", "talking", "rest"}
  /\ update_state \in {"UP_TO_DATE", "UPDATE_REQUEST"}
  /\ DS18B20_state \in {"REQUEST_CONVERSION", "GET_MEASUREMENT"}
  /\ step \in 0 .. 5 /\ i \in 0 .. 7 /\ byte \in Byte
  /\ answer \in Seq(Byte) /\ Len(answer) <= 2
  /\ sensor \in Sensors
  /\ scratchpad \in Word /\ measured \in Word
  /\ converting \in 0 .. ConversionTime
  /\ clock \in 0 .. TickPeriod /\ spent \in 0 .. ConversationTime
  /\ contact \in BOOLEAN /\ begun \in BOOLEAN /\ disturbed \in BOOLEAN

\* The temperature that DS18B20_get_temperature() decodes.
Reported == [k \in 0 .. 15 |-> IF k < 8 THEN answer[1][k] ELSE answer[2][k - 8]]

\* What main() reads, a cycle after it has requested it and without asking
\* whether it is there yet, is the temperature of the conversion it requested,
\* bit by bit, however long the cycles take and whatever has happened to the
\* sensor in earlier conversations.
ReadsWhatItRequested ==
  Len(answer) = 2 /\ ~disturbed => begun /\ Reported = measured

\* Program and sensor agree on the slot they are in although neither counts for
\* the other: while nothing disturbs them the sensor takes every bit for what
\* it is.
InStep ==
  pc = "talking" /\ step > 0 /\ ~disturbed =>
    \/ step = 1 /\ sensor.expects = "a ROM command" /\ sensor.count = i
    \/ step = 2 /\ sensor.expects = "a function" /\ sensor.count = i
    \/ Reading /\ sensor.expects = "nothing but slots"
       /\ sensor.count = 8 * (step - 3) + i
=============================================================================
