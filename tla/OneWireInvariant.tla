-------------------------- MODULE OneWireInvariant --------------------------
(***************************************************************************)
(* The inductive invariant behind the results of OneWire.  It follows each *)
(* bit from the byte it is shifted out of to the one it is shifted into,   *)
(* and the conversion from the cycle that requests it to the next one.     *)
(***************************************************************************)
EXTENDS OneWire

\* The bits of the byte that are still to be written.
BitsToWrite ==
  pc = "talking" /\ Writing =>
    \A k \in 0 .. 7 : k + i <= 7 => byte[k] = Commands[step][k + i]

\* The bits the sensor has taken.
BitsTaken ==
  /\ sensor.expects # "nothing but slots" => sensor.count <= 7
  /\ pc = "talking" /\ Writing /\ ~disturbed =>
       \A k \in 0 .. 7 : k < i => sensor.received[k] = Commands[step][k]

\* The bits the program has read, from the top of the byte downwards, and the
\* bytes it has read before.
BitsRead ==
  pc = "talking" /\ Reading /\ ~disturbed =>
    /\ \A k \in 0 .. 7 : k + i >= 8 => byte[k] = scratchpad[8 * (step - 3) + k + i - 8]
    /\ step = 4 => \A k \in 0 .. 7 : answer[1][k] = scratchpad[k]

\* What the bytes of a conversation have come to.
Conversation ==
  /\ pc = "talking" => step <= 2 + Replies
  /\ pc = "talking" => Len(answer) = IF Reading THEN step - 3 ELSE 0
  /\ pc # "talking" /\ Len(answer) # 0 =>
       DS18B20_state = "REQUEST_CONVERSION" /\ Len(answer) = 2

\* A conversation starts with a tick and is over before the next, and so is a
\* conversion.
Timing ==
  /\ pc = "talking" => clock = spent
  /\ converting > 0 => converting + clock <= TickPeriod
  /\ pc = "waiting" /\ update_state = "UPDATE_REQUEST" => clock = 0 /\ converting = 0

\* The conversion that was requested is begun, and what it yields is there when
\* the sensor is asked for it.
Conversion ==
  /\ ~disturbed /\ ~contact => pc = "waiting" /\ answer = <<>>
                               /\ DS18B20_state = "REQUEST_CONVERSION"
  /\ ~disturbed /\ DS18B20_state = "GET_MEASUREMENT" => begun
  /\ ~disturbed /\ DS18B20_state = "GET_MEASUREMENT" /\ pc = "talking" => converting = 0
  /\ ~disturbed /\ begun /\ converting = 0 => scratchpad = measured

IInv ==
  /\ TypeOK /\ BitsToWrite /\ BitsTaken /\ BitsRead
  /\ Conversation /\ Timing /\ Conversion
  /\ InStep /\ ReadsWhatItRequested
=============================================================================
