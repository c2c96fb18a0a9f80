-------------------------------- MODULE LcdBus --------------------------------
(***************************************************************************)
(* The four data lines between HD44780.c and the controller of the         *)
(* display.  A byte takes two pulses of the enable line; nothing but the   *)
(* number of pulses tells the controller which half it is given, nothing   *)
(* ever comes back from it, and it keeps its power when the processor is   *)
(* reset.                                                                  *)
(***************************************************************************)
EXTENDS Integers, Sequences

CONSTANT Traffic  \* what is written once the display is initialised

Registers == {"INSTRUCTION", "CHARACTER"}
Writes == [mode : Registers, byte : 0 .. 255]

\* Clearing and the addresses are the only instructions after HD44780_init().
ASSUME LcdAssumption ==
  /\ Traffic \subseteq Writes
  /\ \A w \in Traffic : w.mode = "INSTRUCTION" => w.byte \in {1} \cup 64 .. 255

VARIABLES
  step,      \* next byte of HD44780_init(), or one past the last
  half,      \* the half of a byte HD44780_write_byte() sends next
  sent,      \* the byte it sends or has sent last
  width,     \* controller: lines it takes data from
  upper,     \* controller: the upper half it holds, in 4-bit mode
  lines,     \* controller: as set by HD44780_init(), like the next two
  flags,
  entry,
  executed,  \* history: what the controller has carried out last
  torn       \* history: a reset has left the controller with half a byte

program == <<step, half, sent>>
controller == <<width, upper, lines, flags, entry, executed>>
vars == <<program, controller, torn>>

-----------------------------------------------------------------------------
\* The controller.

Nothing == -1

\* Function set, display on/off and entry mode set; no other instruction
\* changes the settings.
Execute(mode, byte) ==
  LET Sets(first, last) == mode = "INSTRUCTION" /\ byte \in first .. last
  IN
  /\ width' = IF Sets(32, 63) THEN (IF byte >= 48 THEN 8 ELSE 4) ELSE width
  /\ lines' = IF Sets(32, 63) THEN (IF byte % 16 >= 8 THEN 2 ELSE 1) ELSE lines
  /\ flags' = IF Sets(8, 15) THEN byte - 8 ELSE flags
  /\ entry' = IF Sets(4, 7) THEN byte - 4 ELSE entry
  /\ executed' = [mode |-> mode, byte |-> byte]

\* A pulse of the enable line.  In 8-bit mode it is a byte of its own, whose
\* lower half comes from lines that are not connected.
Pulse(mode, nibble) ==
  \/ /\ width = 8
     /\ \E floating \in {0, 15} : Execute(mode, nibble * 16 + floating)
     /\ UNCHANGED upper
  \/ /\ width = 4 /\ upper = Nothing
     /\ upper' = nibble
     /\ UNCHANGED <<width, lines, flags, entry, executed>>
  \/ /\ width = 4 /\ upper # Nothing
     /\ Execute(mode, upper * 16 + nibble)
     /\ upper' = Nothing

PoweredOn ==
  [width |-> 8, upper |-> Nothing, lines |-> 1, flags |-> 0, entry |-> 2,
   executed |-> [mode |-> "INSTRUCTION", byte |-> 0]]

-----------------------------------------------------------------------------
\* HD44780.c

\* HD44780_DISPLAY_20x2, HD44780_INCREASE_CURSOR_ON and HD44780_DISPLAY_ON
Rows == 2
EntryModeFlags == 2
OnOffFlags == 4

\* Mutant: straight from 8-bit mode to the function set.
InitBytesShort == <<48, 48, 48, 40, 8 + OnOffFlags, 4 + EntryModeFlags, 1, 128>>

InitBytes ==
  <<48, 48, 48, 2, 40, 8 + OnOffFlags, 4 + EntryModeFlags, 1, 128>>

Initialised == step > Len(InitBytes)

\* What is written next: the initialisation in its order, then anything.
Writable ==
  IF Initialised THEN Traffic
                 ELSE {[mode |-> "INSTRUCTION", byte |-> InitBytes[step]]}

Init ==
  /\ step = 1
  /\ half = "upper"
  /\ sent = [mode |-> "INSTRUCTION", byte |-> 0]
  /\ width = PoweredOn.width
  /\ upper = PoweredOn.upper
  /\ lines = PoweredOn.lines
  /\ flags = PoweredOn.flags
  /\ entry = PoweredOn.entry
  /\ executed = PoweredOn.executed
  /\ torn = FALSE

\* HD44780_write_byte(), up to the first falling edge ...
WriteUpper ==
  /\ half = "upper"
  /\ sent' \in Writable
  /\ Pulse(sent'.mode, sent'.byte \div 16)
  /\ half' = "lower"
  /\ UNCHANGED <<step, torn>>

\* Mutant: the upper half is sent twice.
WriteLowerTwice ==
  /\ half = "lower"
  /\ Pulse(sent.mode, sent.byte \div 16)
  /\ half' = "upper"
  /\ step' = IF Initialised THEN step ELSE step + 1
  /\ UNCHANGED <<sent, torn>>

\* ... and up to the second.
WriteLower ==
  /\ half = "lower"
  /\ Pulse(sent.mode, sent.byte % 16)
  /\ half' = "upper"
  /\ step' = IF Initialised THEN step ELSE step + 1
  /\ UNCHANGED <<sent, torn>>

\* The processor starts anew, the display does not.  If it holds the upper half
\* of a byte, the first pulse of the initialisation completes that byte: with
\* a 3, of a digit for example, to the very function set it is meant to be.
Reset ==
  /\ step' = 1
  /\ half' = "upper"
  /\ torn' = (torn \/ upper \notin {Nothing, 3})
  /\ UNCHANGED <<sent, controller>>

PowerCycle ==
  /\ step' = 1
  /\ half' = "upper"
  /\ torn' = FALSE
  /\ width' = PoweredOn.width
  /\ upper' = PoweredOn.upper
  /\ lines' = PoweredOn.lines
  /\ flags' = PoweredOn.flags
  /\ entry' = PoweredOn.entry
  /\ executed' = PoweredOn.executed
  /\ UNCHANGED sent

Next == WriteUpper \/ WriteLower \/ Reset \/ PowerCycle

Spec == Init /\ [][Next]_vars

-----------------------------------------------------------------------------
TypeOK ==
  /\ step \in 1 .. Len(InitBytes) + 1
  /\ half \in {"upper", "lower"}
  /\ sent \in Writes /\ executed \in Writes
  /\ width \in {4, 8}
  /\ upper \in 0 .. 15 \cup {Nothing}
  /\ lines \in {1, 2} /\ flags \in 0 .. 7 /\ entry \in 0 .. 3
  /\ torn \in BOOLEAN

\* The controller takes data the way HD44780_write_byte() gives it, and is set
\* up as main() wants it.
Configured ==
  /\ width = 4
  /\ upper = (IF half = "upper" THEN Nothing ELSE sent.byte \div 16)
  /\ lines = Rows /\ flags = OnOffFlags /\ entry = EntryModeFlags

\* "Initialize as 2 lines, 5x8 matrix, 4-bit interface" (HD44780.c:60): once
\* HD44780_init() is through the display is set up, also after a reset in the
\* middle of the initialisation, unless a reset has left half a byte in the
\* controller.
InitConfiguresUnlessTorn == ~torn /\ Initialised => Configured

\* From then on every byte written is carried out, as it was written, when its
\* second half is sent, and nothing else ever is.
WritesArrive ==
  [][Initialised /\ Initialised' /\ ~torn =>
       executed' = IF half = "lower" /\ half' = "upper" THEN sent ELSE executed]_vars
=============================================================================
