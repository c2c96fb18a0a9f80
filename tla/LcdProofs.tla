------------------------------ MODULE LcdProofs ------------------------------
(***************************************************************************)
(* The display is set up by every HD44780_init() that does not find half a *)
(* byte in the controller, whatever is written to it afterwards.           *)
(***************************************************************************)
EXTENDS LcdBus, TLAPS

-----------------------------------------------------------------------------
\* The controller is in 8-bit mode, or it waits for the half that is sent next.
Aligned ==
  /\ half = "upper" => upper = Nothing
  /\ half = "lower" => upper = sent.byte \div 16

\* How far the initialisation has brought it.
Progress ==
  \/ /\ step = 1 /\ width = 4
     /\ \/ Aligned
        \/ half = "upper" /\ upper = 3
  \/ step \in 1 .. 4 /\ width = 8 /\ upper = Nothing
  \/ /\ step >= 5 /\ width = 4 /\ Aligned
     /\ step >= 6 => lines = Rows
     /\ step >= 7 => flags = OnOffFlags
     /\ step >= 8 => entry = EntryModeFlags

IInv ==
  /\ TypeOK
  /\ half = "lower" => sent \in Writable
  /\ ~torn => Progress

LEMMA InitBytesLength == Len(InitBytes) = 9
  BY DEF InitBytes

LEMMA InitBytesValues ==
  /\ InitBytes[1] = 48 /\ InitBytes[2] = 48 /\ InitBytes[3] = 48
  /\ InitBytes[4] = 2 /\ InitBytes[5] = 40 /\ InitBytes[6] = 12
  /\ InitBytes[7] = 6 /\ InitBytes[8] = 1 /\ InitBytes[9] = 128
  BY DEF InitBytes, OnOffFlags, EntryModeFlags

LEMMA PoweredOnValues ==
  /\ PoweredOn.width = 8 /\ PoweredOn.upper = Nothing /\ PoweredOn.lines = 1
  /\ PoweredOn.flags = 0 /\ PoweredOn.entry = 2 /\ PoweredOn.executed \in Writes
  <1>1. [mode |-> "INSTRUCTION", byte |-> 0] \in Writes
    BY DEF Writes, Registers
  <1>2. QED
    BY <1>1 DEF PoweredOn

\* What may be written at each step of the program.
LEMMA WritableValues ==
  ASSUME NEW w \in Writable, step \in 1 .. 10
  PROVE  /\ w \in Writes
         /\ step < 10 => w.mode = "INSTRUCTION"
         /\ step \in 1 .. 3 => w.byte = 48
         /\ step = 4 => w.byte = 2
         /\ step = 5 => w.byte = 40
         /\ step = 6 => w.byte = 12
         /\ step = 7 => w.byte = 6
         /\ step = 8 => w.byte = 1
         /\ step = 9 => w.byte = 128
         /\ step = 10 /\ w.mode = "INSTRUCTION" => w.byte \in {1} \cup 64 .. 255
  <1>1. CASE step = 10
    BY <1>1, LcdAssumption, InitBytesLength DEF Writable, Initialised
  <1>2. CASE step \in 1 .. 9
    <2>1. w = [mode |-> "INSTRUCTION", byte |-> InitBytes[step]]
      BY <1>2, InitBytesLength DEF Writable, Initialised
    <2>2. QED
      BY <1>2, <2>1, InitBytesValues DEF Writes, Registers
  <1>3. QED
    BY <1>1, <1>2

LEMMA Halves ==
  ASSUME NEW b \in 0 .. 255
  PROVE  /\ b \div 16 \in 0 .. 15 /\ b % 16 \in 0 .. 15
         /\ (b \div 16) * 16 + (b % 16) = b
  <1>1. b \div 16 \in 0 .. 15
    OBVIOUS
  <1>2. b % 16 \in 0 .. 15
    OBVIOUS
  <1>3. (b \div 16) * 16 + (b % 16) = b
    OBVIOUS
  <1>4. QED
    BY <1>1, <1>2, <1>3

LEMMA PulseTypes ==
  ASSUME TypeOK, NEW mode \in Registers, NEW nibble \in 0 .. 15, Pulse(mode, nibble)
  PROVE  /\ width' \in {4, 8} /\ upper' \in 0 .. 15 \cup {Nothing}
         /\ lines' \in {1, 2} /\ flags' \in 0 .. 7 /\ entry' \in 0 .. 3
         /\ executed' \in Writes
  <1>1. ASSUME NEW byte \in 0 .. 255, Execute(mode, byte)
        PROVE  /\ width' \in {4, 8} /\ lines' \in {1, 2}
               /\ flags' \in 0 .. 7 /\ entry' \in 0 .. 3 /\ executed' \in Writes
    BY <1>1 DEF Execute, TypeOK, Writes
  <1>2. CASE width = 8 /\ upper' = upper
             /\ \E floating \in {0, 15} : Execute(mode, nibble * 16 + floating)
    <2>1. PICK floating \in {0, 15} : Execute(mode, nibble * 16 + floating)
      BY <1>2
    <2>2. nibble * 16 + floating \in 0 .. 255
      OBVIOUS
    <2>3. QED
      BY <1>1, <1>2, <2>1, <2>2 DEF TypeOK
  <1>3. CASE width = 4 /\ upper = Nothing /\ upper' = nibble
             /\ UNCHANGED <<width, lines, flags, entry, executed>>
    BY <1>3 DEF TypeOK
  <1>4. CASE width = 4 /\ upper # Nothing /\ upper' = Nothing
             /\ Execute(mode, upper * 16 + nibble)
    <2>1. upper * 16 + nibble \in 0 .. 255
      BY <1>4 DEF TypeOK
    <2>2. QED
      BY <1>1, <1>4, <2>1 DEF TypeOK
  <1>5. QED
    BY <1>2, <1>3, <1>4 DEF Pulse

LEMMA InitIInv == Init => IInv
  <1> SUFFICES ASSUME Init PROVE IInv
    OBVIOUS
  <1>1. TypeOK
    <2>1. sent \in Writes
      BY DEF Init, Writes, Registers
    <2>2. /\ width = 8 /\ upper = Nothing /\ lines = 1 /\ flags = 0 /\ entry = 2
          /\ executed \in Writes /\ step = 1 /\ half = "upper"
      BY PoweredOnValues DEF Init
    <2>3. torn \in BOOLEAN
      BY Zenon DEF Init
    <2>4. QED
      BY <2>1, <2>2, <2>3, InitBytesLength DEF TypeOK
  <1>2. Progress
    BY PoweredOnValues DEF Init, Progress
  <1>3. QED
    BY <1>1, <1>2 DEF IInv, Init

LEMMA WriteUpperIInv ==
  ASSUME IInv, WriteUpper
  PROVE  IInv'
  <1>1. step \in 1 .. 10 /\ TypeOK
    BY InitBytesLength DEF IInv, TypeOK
  <1>2. sent' \in Writable /\ sent' \in Writes
    BY <1>1, WritableValues DEF WriteUpper
  <1> DEFINE nibble == sent'.byte \div 16
  <1>3. sent'.mode \in Registers /\ nibble \in 0 .. 15 /\ Pulse(sent'.mode, nibble)
    BY <1>2, Halves DEF WriteUpper, Writes
  <1>4. TypeOK'
    BY <1>1, <1>2, <1>3, PulseTypes DEF WriteUpper, TypeOK
  <1>5. sent' \in Writable'
    BY <1>2 DEF WriteUpper, Writable, Initialised
  <1>6. ASSUME ~torn
        PROVE  Progress'
    <2>1. Progress
      BY <1>6 DEF IInv
    <2>2. CASE width = 4 /\ upper = Nothing
      BY <1>1, <1>3, <2>1, <2>2 DEF WriteUpper, Pulse, Progress, Aligned, Nothing
    <2>3. CASE width = 4 /\ upper # Nothing
      <3>1. step = 1 /\ upper = 3
        BY <2>1, <2>3 DEF Progress, Aligned, WriteUpper
      <3>2. sent'.byte = 48 /\ sent'.mode = "INSTRUCTION"
        BY <1>1, <1>2, <3>1, WritableValues
      <3>3. nibble = 3
        BY <3>2
      <3>4. Execute("INSTRUCTION", 51) /\ upper' = Nothing
        BY <1>3, <2>3, <3>1, <3>2, <3>3 DEF Pulse
      <3>5. width' = 8
        BY <3>4 DEF Execute
      <3>6. QED
        BY <3>1, <3>4, <3>5 DEF Progress, WriteUpper
    <2>4. CASE width = 8
      <3>1. step \in 1 .. 4 /\ upper = Nothing
        BY <2>1, <2>4 DEF Progress
      <3>2. sent'.byte \in {48, 2} /\ sent'.mode = "INSTRUCTION"
        BY <1>1, <1>2, <3>1, WritableValues
      <3>3. nibble \in {3, 0}
        BY <3>2
      <3>4. upper' = Nothing
            /\ \E byte \in {0, 15, 48, 63} : Execute("INSTRUCTION", byte)
        BY <1>3, <2>4, <3>1, <3>2, <3>3 DEF Pulse
      <3>5. width' = 8
        BY <2>4, <3>4 DEF Execute
      <3>6. QED
        BY <3>1, <3>4, <3>5 DEF Progress, WriteUpper
    <2>5. QED
      BY <1>1, <2>2, <2>3, <2>4 DEF TypeOK
  <1>7. QED
    BY <1>4, <1>5, <1>6 DEF IInv, WriteUpper

LEMMA WriteLowerIInv ==
  ASSUME IInv, WriteLower
  PROVE  IInv'
  <1>1. step \in 1 .. 10 /\ TypeOK /\ half = "lower" /\ sent \in Writable
    BY InitBytesLength DEF IInv, TypeOK, WriteLower
  <1> DEFINE nibble == sent.byte % 16
  <1>2. /\ sent.mode \in Registers /\ sent.byte \in 0 .. 255
        /\ nibble \in 0 .. 15 /\ Pulse(sent.mode, nibble)
    BY <1>1, Halves DEF WriteLower, TypeOK, Writes
  <1>3. step' = (IF step = 10 THEN 10 ELSE step + 1) /\ half' = "upper"
    BY <1>1, InitBytesLength DEF WriteLower, Initialised
  <1>4. TypeOK'
    BY <1>1, <1>2, <1>3, InitBytesLength, PulseTypes DEF WriteLower, TypeOK
  <1>5. ASSUME ~torn
        PROVE  Progress'
    <2>1. Progress
      BY <1>5 DEF IInv
    <2>2. CASE width = 4
      <3>1. upper = sent.byte \div 16
        BY <1>1, <2>1, <2>2 DEF Progress, Aligned
      <3>2. upper # Nothing
        BY <1>2, <3>1, Halves DEF Nothing
      <3>3. Execute(sent.mode, sent.byte) /\ upper' = Nothing
        BY <1>2, <2>2, <3>1, <3>2, Halves DEF Pulse
      <3>4. Aligned'
        BY <1>3, <3>3 DEF Aligned
      <3>5. CASE step = 1
        BY <1>1, <1>3, <3>3, <3>5, WritableValues DEF Execute, Progress
      <3>6. CASE step >= 5 /\ step < 10
        BY <1>1, <1>3, <2>1, <2>2, <3>3, <3>4, <3>6, WritableValues
        DEF Execute, Progress, Rows, OnOffFlags, EntryModeFlags
      <3>7. CASE step = 10
        BY <1>1, <1>3, <2>1, <2>2, <3>3, <3>4, <3>7, WritableValues
        DEF Execute, Progress
      <3>8. QED
        BY <1>1, <2>1, <2>2, <3>5, <3>6, <3>7 DEF Progress
    <2>3. CASE width = 8
      <3>1. step \in 1 .. 4 /\ upper = Nothing
        BY <2>1, <2>3 DEF Progress
      <3>2. sent.mode = "INSTRUCTION" /\ sent.byte = (IF step = 4 THEN 2 ELSE 48)
        BY <1>1, <3>1, WritableValues
      <3>3. nibble = (IF step = 4 THEN 2 ELSE 0)
        BY <3>2
      <3>4. PICK floating \in {0, 15} : Execute("INSTRUCTION", nibble * 16 + floating)
        BY <1>2, <2>3, <3>2 DEF Pulse
      <3>5. upper' = Nothing
        BY <1>2, <2>3, <3>1 DEF Pulse
      <3>6. width' = (IF step = 4 THEN 4 ELSE 8)
        BY <2>3, <3>1, <3>3, <3>4 DEF Execute
      <3>7. QED
        BY <1>3, <3>1, <3>5, <3>6 DEF Progress, Aligned
    <2>4. QED
      BY <1>1, <2>2, <2>3 DEF TypeOK
  <1>6. QED
    BY <1>3, <1>4, <1>5 DEF IInv, WriteLower

LEMMA ResetIInv ==
  ASSUME IInv, Reset
  PROVE  IInv'
  <1>1. TypeOK'
    BY InitBytesLength DEF IInv, Reset, TypeOK, controller
  <1>2. ASSUME ~torn'
        PROVE  Progress'
    <2>1. Progress /\ upper \in {Nothing, 3} /\ width \in {4, 8}
      BY <1>2 DEF IInv, Reset, TypeOK
    <2>2. /\ step' = 1 /\ half' = "upper"
          /\ width' = width /\ upper' = upper
      BY DEF Reset, controller
    <2>3. CASE width = 8
      BY <2>1, <2>2, <2>3 DEF Progress
    <2>4. CASE width = 4
      BY <2>1, <2>2, <2>4 DEF Progress, Aligned
    <2>5. QED
      BY <2>1, <2>3, <2>4
  <1>3. QED
    BY <1>1, <1>2 DEF IInv, Reset

LEMMA PowerCycleIInv ==
  ASSUME IInv, PowerCycle
  PROVE  IInv'
  <1>1. TypeOK'
    <2>1. /\ width' = 8 /\ upper' = Nothing /\ lines' = 1 /\ flags' = 0 /\ entry' = 2
          /\ executed' \in Writes /\ step' = 1 /\ half' = "upper" /\ sent' = sent
      BY PoweredOnValues DEF PowerCycle
    <2>2. torn' \in BOOLEAN
      BY Zenon DEF PowerCycle
    <2>3. QED
      BY <2>1, <2>2, InitBytesLength DEF IInv, TypeOK
  <1>2. Progress'
    BY PoweredOnValues DEF PowerCycle, Progress
  <1>3. QED
    BY <1>1, <1>2 DEF IInv, PowerCycle

LEMMA Invariance == Spec => []IInv
  <1>1. IInv /\ UNCHANGED vars => IInv'
    BY DEF IInv, TypeOK, Progress, Aligned, Writable, Initialised, vars,
           program, controller
  <1>2. IInv /\ [Next]_vars => IInv'
    BY <1>1, WriteUpperIInv, WriteLowerIInv, ResetIInv, PowerCycleIInv DEF Next
  <1>3. QED
    BY <1>2, InitIInv, PTL DEF Spec

-----------------------------------------------------------------------------
\* Every variable of program and controller stays in its range.
THEOREM TypeCorrect == Spec => []TypeOK
  <1>1. IInv => TypeOK
    BY DEF IInv
  <1>2. QED
    BY <1>1, Invariance, PTL

LEMMA ConfiguredWhenInitialised ==
  ASSUME IInv, ~torn, Initialised
  PROVE  Configured
  BY InitBytesLength
  DEF IInv, TypeOK, Initialised, Progress, Aligned, Configured

\* The display is set up after every initialisation that did not find half a
\* byte in it, and stays so whatever is written.
THEOREM DisplayConfigured == Spec => []InitConfiguresUnlessTorn
  <1>1. IInv => InitConfiguresUnlessTorn
    BY ConfiguredWhenInitialised DEF InitConfiguresUnlessTorn
  <1>2. QED
    BY <1>1, Invariance, PTL

\* Every byte written from then on is carried out once and unchanged.
THEOREM EveryWriteArrives == Spec => WritesArrive
  <1> DEFINE Arrives ==
        Initialised /\ Initialised' /\ ~torn =>
          executed' = IF half = "lower" /\ half' = "upper" THEN sent ELSE executed
  <1>1. IInv /\ [Next]_vars => [Arrives]_vars
    <2> SUFFICES ASSUME IInv, Next, Initialised, Initialised', ~torn
                 PROVE  executed' = IF half = "lower" /\ half' = "upper"
                                      THEN sent ELSE executed
      OBVIOUS
    <2>1. Configured /\ TypeOK
      BY ConfiguredWhenInitialised DEF IInv
    <2>2. CASE WriteUpper
      BY <2>1, <2>2 DEF WriteUpper, Configured, Pulse
    <2>3. CASE WriteLower
      <3>1. sent.byte \in 0 .. 255 /\ sent = [mode |-> sent.mode, byte |-> sent.byte]
        BY <2>1 DEF TypeOK, Writes
      <3>2. Execute(sent.mode, sent.byte)
        BY <2>1, <2>3, <3>1, Halves DEF WriteLower, Configured, Pulse, Nothing
      <3>3. QED
        BY <2>3, <3>1, <3>2 DEF Execute, WriteLower
    <2>4. CASE Reset
      BY <2>4, InitBytesLength DEF Reset, Initialised
    <2>5. CASE PowerCycle
      BY <2>5, InitBytesLength DEF PowerCycle, Initialised
    <2>6. QED
      BY <2>2, <2>3, <2>4, <2>5 DEF Next
  <1>2. QED
    BY <1>1, Invariance, PTL DEF Spec, WritesArrive
=============================================================================
