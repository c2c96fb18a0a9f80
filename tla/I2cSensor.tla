------------------------------- MODULE I2cSensor -------------------------------
(***************************************************************************)
(* BMP280.c on top of I2C.c: three calls of I2C.c, one after the other,    *)
(* with a sensor that may lose its contact or its supply in the middle of  *)
(* any of them.  I2C.c notes in `error' whether a call has succeeded;      *)
(* BMP280.c never looks at it and takes what the buffer holds.             *)
(*                                                                         *)
(* A byte is where it comes from, a buffer the set of the origins of its   *)
(* bytes.                                                                  *)
(***************************************************************************)
EXTENDS Integers

CONSTANT MaxSample  \* samples of the sensor that are told apart

ASSUME SampleAssumption == MaxSample \in Nat \ {0}

\* A measurement register holds a sample (0 after power-on).  A byte that is
\* not from a register is left over on the stack, zero from program start, or
\* read from a line that nobody drives.
Samples == [reg : {"PRESS_MSB"}, sample : 0 .. MaxSample]
Byte(register, sample) ==
  IF register = "PRESS_MSB" THEN [reg |-> "PRESS_MSB", sample |-> sample]
                            ELSE [reg |-> register, sample |-> 0]
Origins == Samples \cup
  [reg : {"CTRL_MEAS", "CAL0", "elsewhere", "stack", "zero", "line"}, sample : {0}]

Statuses == {"STATUS_OK", "STATUS_WRITE_FAILED", "STATUS_READ_FAILED"}

VARIABLES
  call,      \* the call of I2C.c: "config", "calibration" or "measurement"
  stage,     \* how far it is: "address", "register", "restart", "first", "rest"
  error,
  cal, buffer,
  pointer,   \* sensor: the register its next byte is from
  current,   \* sensor: its newest sample
  shadow,    \* sensor: the one it sends during a burst
  awake,     \* sensor: it takes samples
  contact,
  lost,      \* history: contact or supply has failed in this call
  absent,    \* history: ... or was missing when the call began
  boot,      \* history: status of the calibration call, and whether it lost contact
  meas       \* history: the same of the last measurement, and its data

i2c == <<call, stage, error>>
memory == <<cal, buffer>>
device == <<pointer, current, shadow, awake>>
reports == <<boot, meas>>
vars == <<i2c, memory, device, contact, lost, absent, reports>>

-----------------------------------------------------------------------------
Register ==
  CASE call = "config" -> "CTRL_MEAS"
    [] call = "calibration" -> "CAL0"
    [] call = "measurement" -> "PRESS_MSB"

Init ==
  /\ call = "config" /\ stage = "address"
  /\ error = "STATUS_OK"
  /\ cal = {Byte("zero", 0)} /\ buffer = {Byte("stack", 0)}
  /\ pointer = "elsewhere" /\ current = 0 /\ shadow = 0 /\ awake = FALSE
  /\ contact \in BOOLEAN
  /\ lost = FALSE /\ absent = ~contact
  /\ boot = [status |-> "STATUS_WRITE_FAILED", lost |-> FALSE]
  /\ meas = [status |-> "STATUS_WRITE_FAILED", lost |-> FALSE, absent |-> TRUE,
             data |-> {}]

\* The bytes the call has written to; its buffer as it was.
Stack == {Byte("stack", 0)}
Stored == IF call = "calibration" THEN cal ELSE buffer

\* A call returns and BMP280.c goes on: from the configuration to the
\* calibration and from there to a measurement for ever, each with a new,
\* uninitialised buffer.
Return(status, bytes) ==
  /\ error' = status
  /\ call' = IF call = "config" THEN "calibration" ELSE "measurement"
  /\ stage' = "address"
  /\ cal' = IF call = "calibration" THEN bytes ELSE cal
  /\ buffer' = Stack
  /\ boot' = IF call = "calibration" THEN [status |-> status, lost |-> lost]
                                     ELSE boot
  /\ meas' = IF call = "measurement"
               THEN [status |-> status, lost |-> lost, absent |-> absent,
                     data |-> bytes]
               ELSE meas
  /\ lost' = FALSE
  /\ absent' = ~contact

GoTo(next, bytes) ==
  /\ stage' = next
  /\ cal' = IF call = "calibration" THEN bytes ELSE cal
  /\ buffer' = IF call = "measurement" THEN bytes ELSE buffer
  /\ UNCHANGED <<call, error, lost, absent, reports>>

-----------------------------------------------------------------------------
\* Mutant: the call goes on.
AddressRefusedGoesOn ==
  /\ stage = "address" /\ ~contact
  /\ GoTo("restart", Stored)
  /\ UNCHANGED <<device, contact>>

\* qm_i2c_master_write() of the register number: nobody answers to the address.
AddressRefused ==
  /\ stage = "address" /\ ~contact
  /\ Return("STATUS_WRITE_FAILED", Stored)
  /\ UNCHANGED <<device, contact>>

AddressTaken ==
  /\ stage = "address" /\ contact
  /\ GoTo("register", Stored)
  /\ UNCHANGED <<device, contact>>

\* The driver looks for an abort when the FIFO is empty, which is before the
\* last byte is acknowledged: it may miss that nobody took the register number.
WriteRegister ==
  /\ stage = "register"
  /\ pointer' = IF contact THEN Register ELSE pointer
  /\ \/ GoTo(IF call = "config" THEN "first" ELSE "restart", Stored)
     \/ ~contact /\ Return("STATUS_WRITE_FAILED", Stored)
  /\ UNCHANGED <<current, shadow, awake, contact>>

\* The data of I2C_write(): control_flags, in normal mode, starts the sampling.
WriteConfig ==
  /\ call = "config" /\ stage \in {"first", "rest"}
  /\ awake' = (awake \/ (contact /\ stage = "first" /\ pointer = "CTRL_MEAS"))
  /\ \/ stage = "first" /\ GoTo("rest", Stored)
     \/ stage = "rest" /\ Return("STATUS_OK", Stored)
     \/ ~contact /\ Return("STATUS_WRITE_FAILED", Stored)
  /\ UNCHANGED <<pointer, current, shadow, contact>>

\* qm_i2c_master_read(): the address again ...
Restart ==
  /\ stage = "restart"
  /\ \/ contact /\ shadow' = current /\ GoTo("first", Stored)
     \/ ~contact /\ Return("STATUS_READ_FAILED", Stored) /\ UNCHANGED shadow
  /\ UNCHANGED <<pointer, current, awake, contact>>

\* ... and the bytes of one burst, in two parts.
Received == Byte(IF contact THEN pointer ELSE "line", IF contact THEN shadow ELSE 0)

ReadFirst ==
  /\ stage = "first" /\ call # "config"
  /\ GoTo("rest", {Received} \cup Stored)
  /\ UNCHANGED <<device, contact>>

\* Mutant: a success is not noted.
ReadRestKeepsError ==
  /\ stage = "rest" /\ call # "config"
  /\ Return(error, {Received} \cup {b \in Stored : b.reg \notin {"stack", "zero"}})
  /\ pointer' = "elsewhere"
  /\ UNCHANGED <<current, shadow, awake, contact>>

\* The last byte replaces what is left of the old contents.  The controller can
\* be disabled unless the bus is gone.
ReadRest ==
  /\ stage = "rest" /\ call # "config"
  /\ \E status \in {"STATUS_OK"} \cup (IF contact THEN {} ELSE {"STATUS_READ_FAILED"}) :
       Return(status, {Received} \cup {b \in Stored : b.reg \notin {"stack", "zero"}})
  /\ pointer' = "elsewhere"
  /\ UNCHANGED <<current, shadow, awake, contact>>

-----------------------------------------------------------------------------
\* The sensor takes a sample, also in the middle of a burst.
Sample ==
  /\ awake
  /\ current' = (current % MaxSample) + 1
  /\ UNCHANGED <<i2c, memory, pointer, shadow, awake, contact, lost, absent, reports>>

Unplug ==
  /\ contact /\ contact' = FALSE /\ lost' = TRUE
  /\ UNCHANGED <<i2c, memory, device, absent, reports>>

Plug ==
  /\ ~contact /\ contact' = TRUE
  /\ UNCHANGED <<i2c, memory, device, lost, absent, reports>>

\* The sensor comes back as after power-on: asleep, nobody configures it again.
PowerFail ==
  /\ pointer' = "elsewhere" /\ current' = 0 /\ shadow' = 0 /\ awake' = FALSE
  /\ lost' = TRUE
  /\ UNCHANGED <<i2c, memory, contact, absent, reports>>

Next ==
  \/ AddressRefused \/ AddressTaken \/ WriteRegister \/ WriteConfig
  \/ Restart \/ ReadFirst \/ ReadRest
  \/ Sample \/ Unplug \/ Plug \/ PowerFail

Spec == Init /\ [][Next]_vars

-----------------------------------------------------------------------------
TypeOK ==
  /\ call \in {"config", "calibration", "measurement"}
  /\ stage \in {"address", "register", "restart", "first", "rest"}
  /\ error \in Statuses
  /\ cal \subseteq Origins /\ buffer \subseteq Origins
  /\ pointer \in {"CTRL_MEAS", "CAL0", "PRESS_MSB", "elsewhere"}
  /\ current \in 0 .. MaxSample /\ shadow \in 0 .. MaxSample
  /\ awake \in BOOLEAN /\ contact \in BOOLEAN
  /\ lost \in BOOLEAN /\ absent \in BOOLEAN
  /\ boot \in [status : Statuses, lost : BOOLEAN]
  /\ meas \in [status : Statuses, lost : BOOLEAN, absent : BOOLEAN,
               data : SUBSET Origins]

\* "STATUS_OK if transmission succeeded" (I2C.h:66): a measurement that is
\* reported good, and during which the sensor has not gone away, consists of
\* one sample of the measurement registers, although the register is chosen and
\* read in two transfers and the sensor goes on measuring between them.
OkMeansOneSample ==
  meas.status = "STATUS_OK" /\ ~meas.lost => \E b \in Samples : meas.data = {b}

\* The calibration is read once and used for ever: what the status of that one
\* call promises stays true of it.
OkMeansCalibrated == boot.status = "STATUS_OK" /\ ~boot.lost => cal = {Byte("CAL0", 0)}

\* A fault is forgotten with the call it hits: a measurement that finds the
\* sensor and keeps it is good, whatever happened before.
FaultsDoNotLinger ==
  meas.status # "STATUS_OK" => meas.lost \/ meas.absent

-----------------------------------------------------------------------------
\* The inductive invariant: what a call that nothing has disturbed has reached
\* at each of its stages.
Undisturbed ==
  ~lost =>
    /\ stage # "address" => contact
    /\ stage \in {"restart", "first", "rest"} => pointer = Register

\* A fault that will make the call fail has been noted.
FaultsNoted == ~contact => lost \/ absent

MeasurementBuffer ==
  /\ call # "measurement" \/ stage # "rest" => buffer = Stack
  /\ call = "measurement" /\ stage = "rest" /\ ~lost =>
       buffer = {Byte("PRESS_MSB", shadow)} \cup Stack

CalibrationBuffer ==
  /\ call = "config" => cal = {Byte("zero", 0)}
  /\ call = "calibration" /\ stage # "rest" => cal = {Byte("zero", 0)}
  /\ call = "calibration" /\ stage = "rest" /\ ~lost =>
       cal = {Byte("CAL0", 0), Byte("zero", 0)}
  /\ call # "measurement" => boot.status # "STATUS_OK"

IInv ==
  /\ TypeOK
  /\ Undisturbed
  /\ FaultsNoted
  /\ MeasurementBuffer
  /\ CalibrationBuffer
  /\ OkMeansOneSample
  /\ OkMeansCalibrated
  /\ FaultsDoNotLinger
=============================================================================
