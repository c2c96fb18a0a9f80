# A verification project for quark_meteo_station

quark_meteo_station is the firmware of a weather station on an Intel Quark D2000
board (32 MHz, no operating system, one timer interrupt). It measures the
temperature outdoors (DS18B20), temperature and pressure indoors (BMP280) and
humidity (DHT11), shows them on a 20x2 display (HD44780) and once an hour
uploads the averages to a server through an ESP module on a UART. It comes with
the boot loader of Intel's QMSI, which keeps administrative data in flash,
starts the application or lets a host replace it over XMODEM.

This directory holds TLA+ models of it, what TLC checks of them on small
instances, and what TLAPS proves of them for all values of the constants. File
and line numbers are those of the repository.

Run from this directory:

    tlc -config MCStation_uploads.cfg MCStation      # any other pair likewise
    tlapm StationProofs.tla                          # and the other *Proofs

## 1. Inventory

| Part | Source | State | Operations | Talks to |
|---|---|---|---|---|
| main loop | `main.c:113-238` | `update_state`, `ESP_state`, `DS18B20_state`, `counter`, the three `*_meas` structs and their averages | init, one update cycle | everything below, by call; the interrupt, by shared variables |
| timer interrupt | `main.c:99-111`, `timer.c` | `server_update_counter` | `timer_callback` | writes `update_state` and `ESP_state` at any time |
| averages | `average.c` | per sensor: sum, `meas_num`; the averages themselves live in `main()` | `average_update_*`, `average_reset` | reads the `*_meas`, writes the `*_meas_avg` |
| DS18B20 | `DS18B20.c`, `onewire.c` | none but the pin | request, readout; reset, write byte, read byte | the sensor, slot by slot; the shared `gpio_config` |
| DHT11 | `DHT11.c` | `data_frame` | readout | the sensor; the shared `gpio_config` |
| BMP280 | `BMP280.c`, `I2C.c` | `cal`, `meas`, `error` | init, readout | the sensor, through the polling I2C driver |
| display | `GUI.c`, `HD44780.c`, `utoa.c` | program: none that changes after start; display: 80 cells, cursor, mode, half a byte | init, update | four data lines, one way |
| ESP link | `ESP.c`, `utoa.c` | three static buffers; module: mode, bytes expected, connection | connect, send | a UART, one way |
| boot loader data | `bsp/bootloader/fw-manager/bl_data.c`, `rom_startup.c` | two copies with a CRC in flash, one in RAM | sanitise, write back, erase partitions | reads and repairs what a power loss left |
| firmware manager | `dfu_core.c`, `qfu.c`, `qfm.c` under `bsp/bootloader/fw-manager/` | state of the DFU protocol, block counts, image header | set alternate setting, download, upload, status, clear, abort | the partitions; the boot loader data |
| XMODEM | `xmodem.c`, `xmodem_io_uart.c` under `.../dfu/qda/` | packet number, retries or errors, timeout; the byte two callbacks share | transmit and receive a package | the host, over a UART |
| drivers | `bsp/drivers/` (Intel QMSI, vendored) | hardware registers | gpio, i2c, uart, pwm, clk | hardware |

Everything in the station runs in one thread except the timer callback. There is
no dynamic memory, no watchdog and nothing that outlives a reset, apart from
what the display and the sensors remember. The boot loader is a program of its
own that ends before the station starts; what it leaves in flash is all it
remembers.

What is hard about it, and what would make each part right:

- *Main loop and interrupt.* Two writers of `ESP_state` and of `update_state`
  without a lock. A period made of a counter that stands still outside IDLE, a
  correction for the connection time and a second counter that waits one second
  less. Ticks lost in long cycles. Right: uploads one period apart, the server
  has its time to wake up, no counter wraps, no transition is undone, uploads
  never cease.
- *Averages.* A window ends at an upload, readings come at other rates. Right:
  what is uploaded was measured in the window it is reported for, every second
  is sampled, the divisors do not wrap.
- *Outdoor temperature.* Two's complement undone byte by byte, a signed number
  in unsigned fields, division towards zero. Right: the report is the average.
- *1-Wire.* Program and sensor count bits apart from each other, and nothing the
  sensor answers is looked at; that a conversion is finished is known from the
  time alone. Right: the number read is the one requested.
- *I2C.* A transfer has two calls with a failure path each, the result is left
  in a variable. Right: the status tells the truth and a fault is not dragged
  along.
- *Display.* No way back from the controller; it keeps mode and half a byte over
  a reset. Labels drawn once, numbers of changing length drawn over one another.
  Right: bytes arrive as sent, the screen shows the last measurements.
- *ESP link.* Open loop ("the data just disappear into nothingness",
  `ESP.c:10`). Right: requests fit their buffers and their announced length, a
  fault does not jam the link for good.
- *Boot loader data.* A flash page takes time to erase and write, and the power
  may fail in it, in the repair of what the last failure left, or in the first
  provisioning. Right: an update happens or does not, the device is never locked
  out, every repair ends.
- *Firmware manager.* Any request in any state: aborts, changes of the alternate
  setting, transfers that end early, failing verifications. Right: what the data
  calls consistent is a whole image, and no part of one is started.
- *XMODEM.* Packets and answers without a connection between them but their
  order and a number; two timeouts, two counts of tries, a byte two callbacks
  write. Right: nothing arrives twice or out of place, "complete" means
  complete, both ends come to a result.

## 2. Modules

| Module | Models | Extends |
|---|---|---|
| `Uplink` | abstract: the promise to the server | |
| `Station` | main loop, timer interrupt, uplink, windows of the averages | instantiates `Uplink` |
| `StationInvariant` | the inductive invariant of `Station` | `Station` |
| `StationProofs` | its proofs | `StationInvariant`, TLAPS |
| `CArithmetic` | division, remainder and widths of C; lengths of decimal numbers | |
| `OutdoorTemperature` | outdoor temperature from scratchpad to report | `CArithmetic` |
| `OutdoorProofs` | its proofs | `OutdoorTemperature`, TLAPS |
| `OneWire` | 1-Wire slots, the DS18B20, time between request and readout | |
| `OneWireInvariant` | its inductive invariant | `OneWire` |
| `OneWireProofs` | its proofs | `OneWireInvariant`, TLAPS |
| `I2cSensor` | I2C calls, the BMP280 that may go away | |
| `I2cProofs` | its proofs | `I2cSensor`, TLAPS |
| `Display` | the text on the display | `CArithmetic` |
| `DisplayInvariant` | its inductive invariant, the numbers it holds for | `Display` |
| `LcdBus` | the pulses on the display's data lines, resets | |
| `LcdProofs` | its proofs | `LcdBus`, TLAPS |
| `EspLink` | buffers and lengths of an upload, the ESP module | `CArithmetic` |
| `EspInvariant` | its inductive invariant | `EspLink` |
| `TextProofs` | the proofs of `Display` and `EspLink` | `DisplayInvariant`, `EspInvariant`, TLAPS |
| `BlStore` | abstract: administrative data that is updated at once | |
| `FirmwareManager` | boot loader data, requests of a host, power losses | instantiates `BlStore` |
| `FirmwareInvariant` | its inductive invariant | `FirmwareManager` |
| `FirmwareProofs` | its proofs | `FirmwareInvariant`, TLAPS |
| `Xmodem` | both ends of a transfer, the line, timeouts | |
| `XmodemInvariant` | its inductive invariant | `Xmodem` |
| `XmodemProofs` | its proofs | `XmodemInvariant`, TLAPS |
| `MC*` | the values of the constants for TLC | the module they are named after |

Each operator that begins with "Mutant" in its comment is a plausible slip in
the code next to it. None is part of a specification; put in place of the
definition it follows, it breaks one of the properties, which shows that the
property looks at that code.

### Station and Uplink

`pc` names the next step of `main()`. A step holds at most one access to a
variable the interrupt shares, so a `Tick` between two steps is every
interleaving there is; the interrupt itself is one action, since nothing
interrupts it.

| Action | Code |
|---|---|
| `Tick` | `timer_callback()`, `main.c:99-111` |
| `LoadUpdateState`, `TestUpdateState` | `while(1) { if(update_state == UPDATE_REQUEST)`, load and comparison apart |
| `ReadDS18B20` | the switch over `DS18B20_state`, with `average_update_DS18B20()` |
| `ReadBMP280`, `ReadDHT11` | readout and `average_update_*()`; an erroneous DHT11 reading changes nothing |
| `DispatchESP` | the switch over `ESP_state` |
| `ConnectToServer`, `StartAwaiting` | the case CONNECT_TO_SERVER: call, assignment |
| `AwaitConnection` | the case AWAIT_FOR_CONNECTION |
| `SendMeasurements`, `FinishUpload` | the case SEND_DATA: call; `average_reset()` and assignment |
| `UpdateGUI`, `FinishCycle` | the end of the cycle: a tick since its beginning is overwritten |

The data are abstracted to what the control depends on: of an average, whether
it is of this window, of an earlier one or of none. Two constants say what the
code leaves open: `DHT11Outcomes` and `LoopRereads` (the compiler loads
`update_state`, which is not volatile, in each iteration). A cycle may take any
number of ticks; `punctual` is history and says that none has been as long as
one. `sinceSend` and `sinceConnect` are history: they count ticks and saturate
one past the largest value they are compared with.

`Uplink` says only what the server sees: a connection, no less than
`ConnectionTime` ticks later an upload, no less than `Period` ticks between two
uploads, both exact as long as the station has been punctual. `Station` refines
it with the two ages as they are and `link` computed from `pc` and `ESP_state`
(`ImplementsUplink`).

### OutdoorTemperature

`Measure` is `DS18B20_get_temperature()` followed by `average_update_DS18B20()`,
`Send` is the report followed by `average_reset()`. All numbers are integers
with the widths of the code: the two bytes of the scratchpad, `uint8_t` fields,
`CDiv`/`CMod` for C's `/` and `%`. `lowest` and `highest` are history.

### OneWire

A byte is the function of its eight bits; `WriteSlot` and `ReadSlot` are one
iteration of the loops of `onewire.c`, in which the sensor (`Slot`, `Sends`)
takes or gives a bit. `Reset` ends whatever the sensor was doing. `StartCycle`,
`FinishCycle` and `Tick` are the frame of `main()` that decides when the
conversation takes place. Time passes in parts of a tick (`Elapse`): freely in
the rest of a cycle and while waiting, `ConversationTime` parts at most in a
conversation, and not at all between a request and the cycle it starts, since
the loop does nothing else. The sensor may lose its contact, get it back, or
lose its supply at any slot. The open-drain trick (`onewire.c:35-43`) is taken
as it is: an output is low, an input is high unless the sensor pulls it down.

### I2cSensor

`call` and `stage` walk through the three calls BMP280.c makes: configuration,
calibration, and measurements for ever. Each stage is one step of the polling
driver that can see the sensor or miss it; `Return` is what happens when I2C.c
returns, with its status. A byte is its origin (register, stack, undriven line),
so that a measurement of two samples, of the wrong register or of leftovers is
told from a good one. `Sample`, `Unplug`, `Plug` and `PowerFail` may happen
between any two stages. `WriteRegister` may succeed although nobody acknowledged
the byte: the driver looks for an abort as soon as its FIFO is empty
(`qm_i2c.c:995-1000`).

### Display and LcdBus

`Display` has the 80 cells of the controller and one action, `GUI_update`, which
draws with the operators of `GUI.c`, each a function from screen to screen. A
cell holds a kind of character; how many digits a number has is what counts.
`inRoom` and `widest` are history: whether all temperatures and pressures drawn
so far were those of a room, and the most digits a humidity has had.

`LcdBus` is below it: `WriteUpper` and `WriteLower` are the halves of
`HD44780_write_byte()`, `Pulse` is what the controller makes of a falling edge
in its present mode. `Reset` restarts the program and not the display,
`PowerCycle` both.

### EspLink

The three static buffers as lengths, the three calls of an upload as actions,
and the ESP module as a machine that takes commands or a number of bytes
announced before. A request is three lengths that must agree: of its text, of
its payload, and the payload length it states.

### FirmwareManager and BlStore

The boot loader is always in the middle of the step `pc` names, and the action
of that step completes it. `PowerLoss` may come before any of them is done: a
flash page that was being erased or written is then as before, blank, or torn,
which its CRC shows if it is a page of the boot loader data and nothing shows if
it is a page of a partition.

| Action | Code |
|---|---|
| `CheckCopies`, `Recover`, `Load` | `bl_data_sanitize()`, with `bl_loop_if_not_blank()` and the provisioning |
| `Scan`, `ErasePage` | `bl_data_sanitize_partitions()`, page by page |
| `WriteCopy` | `bl_data_shadow_writeback()`, one copy after the other |
| `Boot` | the end of `rom_startup()`: the application or the firmware manager |
| `SetAltSetting`, `ProcessDnload`, `ProcessUpload`, `GetStatus`, `ClrStatus`, `Abort` | the functions of `dfu_core.c` |
| `QfmRequest` | `qfm_dfu_proc_dnload_blk()`: information, application erase, new keys |
| `QfuHeader`, `QfuBlock`, `ProgramPage`, `Finalize` | `qfu.c`: header, block, page in flash, end of a transfer |

A host sends any request in any state and the blocks of an image in any order
the code accepts. The contents of a page are the image it is from and its place
in it; hashes and headers are right or wrong as the environment likes.

`BlStore` is the promise: what a boot would find changes at once, from one
descriptor to the next that was wanted. `FirmwareManager` refines it with
`stored` computed from both copies (`Stored`) and `wanted` the copy in RAM.

### Xmodem

The ends of one transfer, `xmodem_transmit_package()` and
`xmodem_receive_package()`, whichever of them is the host's: `SenderReads` and
`ReceiverReads` are a byte or packet read and all that is done about it,
`SenderTimesOut` and `ReceiverTimesOut` a timeout of `xmodem_io_getc()`. A
message is a packet by its number, whole, damaged, without its first byte
(`headless`), cut short, or the rest of one whose beginning was read as
something else (`tail`); or an EOT; or noise. The line may lose any of it.
`Tick` passes time, when neither end has anything left to read. A timeout may
take a byte with it: the callback of the timer overwrites the state the callback
of the UART has just set (`xmodem_io_uart.c:107-125`).

`SenderErrs` and `ReceiverErrs` are an error the UART reports (framing, overrun;
`xmodem_io_uart.c:103-104`, `151-156`), which ends `xmodem_io_getc()` at once,
at any byte of a packet, in a drain, or with nothing on the line. The receiver
asks again while the sender still talks, and reads what is left of the packet
(`AfterError`) as new first bytes. Two such errors in a packet bring two
answers, two copies of it and two acknowledgements, without any timeout.
`uartErrors` counts them; `MaxUartErrors` is their bound.

`crossed` and `misread` are history. They name the two circumstances in which
the ends lose their agreement, see section 6. An end spoke out of turn: at a
timeout or an error while it was being spoken to, or when what it said before
had not been answered yet. And a byte from within a packet was taken for EOT.

## 3. What TLC checks

All runs are exhaustive. A run marked * finds a violation, see section 6.

| Run | Bounds | Shows |
|---|---|---|
| `MCStation_uploads` | period 7, connection 3, cycles of any length | lower bounds for the distances of uploads and for the waiting time of the server, both exact and every second sampled while no cycle takes a tick; `CommandMatchesState`, `UplinkInOrder`: no transition undone; `SampleBound`; `FreshUpload`; `UploadsRecur` under fairness; `Uplink` implemented; the inductive invariant |
| `MCStation_release` * | period 6, connection 3, load hoisted out of the loop | `UploadsRecur` fails |
| `MCStation_humidity` * | period 6, DHT11 readings may fail | `FreshHumidity` fails |
| `MCOutdoor_window` | windows of 3 readings out of 14 temperatures | decoding exact but for the carry lost at -16, -32 and -48; averages of zero or more lie between the extremes |
| `MCOutdoor_frost` * | windows of 3 readings | `AverageWithin` fails below zero |
| `MCOneWire_faults` | 4 parts a tick, 3 a conversion, 1 a conversation; two temperatures; one fault between two requests | `ReadsWhatItRequested`, `InStep`, the inductive invariant |
| `MCI2cSensor_faults` | two samples | `OkMeansOneSample`, `OkMeansCalibrated`, `FaultsDoNotLinger`, the inductive invariant |
| `MCDisplay_texts` | indoors -9.99, 9.99, 10.00 and 999.99 degrees; pressures of both lengths; outdoors both signs, both lengths and uninitialised; humidities of one, two and three digits | `LabelsKept`; `ShowsMeasurements`: each field shows its last number, and what may be left of an earlier one; the inductive invariant |
| `MCLcdBus_resets` | six kinds of bytes, any number of resets | `InitConfiguresUnlessTorn`, `WritesArrive` |
| `MCEspLink_losses` | shortest and longest averages, any loss | `BuffersFit`, `OverrunOnlyBelowZero`, `FaultCostsTwoUploads`, the inductive invariant |
| `MCFirmwareManager_losses` | 2 partitions of 2 pages; images that fill one, leave a page, have no page and are a page too long; blocks numbered from zero; any requests, any power losses | `HaltsOnlyUnprovisioned`, `ConsistentIsWhole`, `StartsWhole`, `WriteAhead`, `BlStore` implemented, `Recovers` under fairness, the inductive invariant |
| `MCXmodem_line` | 4 packets, 4 tries of the sender, 3 errors of the receiver, 2 errors of the UARTs; timeouts 2 and 3, 3 and 2, 2 and 2; a buffer a packet too small | `ReceivedIsPrefix`, `OkMeansComplete`, `SentMeansReceived`, `Ends` under fairness, the inductive invariant |

Why the bounds are enough. *Station*: the behaviour depends on the constants
through comparisons of two counters with `ServerUpdatePeriod - ConnectionTime`
and `ConnectionTime - 1`; with 7 and 3 both counters count, stop and are reset,
and an odd period meets both phases of the DS18B20; all its safety properties
are proved for every other value. *OutdoorTemperature*: the readings are both
ends of the range and both sides of every border of the conversion; proved for
all others. *OneWire*: nothing depends on a temperature but its bits, and the
two differ in most of them; 4, 3 and 1 parts are a quarter of a second each, the
tightest case the assumption allows. *I2cSensor*: two samples are enough to see
a mixture. *Display*: places are disturbed by a change of length only; both
lengths of a temperature and of a pressure of a room are there, the longest
temperatures beside the labels on either side of zero, and all three lengths of
a humidity; proved for every other number that leaves the labels alone.
*LcdBus*: characters with each kind of upper half (the 3 of digits completes a
torn byte, others do not), a position in either line, clearing; proved for any
traffic. *EspLink*: lengths are monotonic in the digits of the averages;
`Losses` covers every number of bytes of the longest request.

*FirmwareManager*: a partition that is being replaced and one that is not, a
first page and a last, images with and without a page; the counters of the
protocol need no bound of their own, since a block too many is refused.
*Xmodem*: the fourth packet is the first whose number is EOT; two errors of the
UARTs are what it takes to have two answers on their way without a timeout; four
tries and three errors bear both of them and let either end be the first to give
up. The code's own limits, 8 and 5, were left for the proofs, since every try
multiplies the states; everything but `Ends` is proved for any limits.
`MCXmodem_line` does not check for deadlock, since both ends stop at the end of
a transfer.

Fairness. *Station*, for `UploadsRecur`: `WF(Tick)`, since the hardware timer
never stops, and `WF(Main)`, since the processor returns to `main()` after each
interrupt and every call it makes ends. The last is an assumption on the
drivers: they poll hardware without a limit (see section 7). *FirmwareManager*,
for `Recovers`: `WF(Proceed)`, since a processor that has power runs. Nothing is
assumed of the host, which need not ask for anything; a power supply that fails
again and again may keep a repair from its end, so `Recovers` speaks of
behaviours in which it stops failing. *Xmodem*, for `Ends`: `WF(Next)`, since
time passes and both ends run; the line owes nothing.

## 4. What is proved

`StationProofs` (for every period and connection time with `2 <= ConnectionTime
< 256`, `ConnectionTime < ServerUpdatePeriod < 65535`, cycles of any length,
both values of `LoopRereads`, and any outcomes of the DHT11): `TypeCorrect`,
`Invariance`, `CommandsMatch`, `UploadsSpaced`, `ServerHasTime`,
`SamplesBounded`, `UploadsFresh`, `WindowsFull`, `UplinkGoesAround` and
`StationImplementsUplink`. The argument is the invariant `IInv` of
`StationInvariant`. None of the properties is inductive: at an upload they speak
of ages and counts, and which tick an age has already passed while the counter
has not yet followed depends on the step `main()` is in. `IInv` therefore keeps
the books: `RequestStands` (the request that started a cycle stands until its
end), `CountersRest` (each counter is zero outside its state), `LowerBounds` and
`ExactBounds` (ages against counters, with the tick a cycle still owes),
`ReadingsBMP280`, `ReadingsOther`, `ReadingsComplete` (readings against ticks)
and `AveragesFresh` (that the waiting cycles are enough for the DS18B20 to be
read once). The proof has a lemma per action and under it a step per conjunct.
`StationImplementsUplink` maps each step of `Station` to a step of `Uplink` or
to a stutter, again from `IInv`.

`OutdoorProofs`: `DecodeIsExact`, a lemma on the conversion for all of the
sensor's range; `DecodeCorrect` and `AverageCorrect`, for every set of readings
and windows of up to 65535. The sum lies between `meas_num` times the extremes,
division towards zero of a sum of zero or more keeps it there, and an average of
at most 127.99 goes through the `uint8_t` fields unharmed.

`LcdProofs`: `TypeCorrect`, `DisplayConfigured`, `EveryWriteArrives`, for any
traffic without function set. The invariant follows the controller through the
nine bytes of the initialisation from each of the states a reset can leave it
in.

`I2cProofs`: `TypeCorrect`, `MeasurementsCoherent`, `CalibrationGenuine` and
`FaultsEnd`, for any number of samples. `IInv` of `I2cSensor` says what a call
that nothing disturbed has reached at each stage: after the address the sensor
is there, after the register it points where the call wants it (`Undisturbed`),
halfway through the data the buffer holds one sample and leftovers
(`MeasurementBuffer`, `CalibrationBuffer`), and a missing sensor has been noted
(`FaultsNoted`). A proof step per action and conjunct.

`OneWireProofs`: `StaysInStep`, `ReadsRequested` (`ReadsWhatItRequested`), for
all temperatures, any length of a tick and any partition of it. The invariant
follows each bit: in a slot of a write the sensor takes the lowest bit left in
the byte, and after eight of them holds the command (`BitsToWrite`,
`BitsTaken`); in a slot of a read the bit enters at the top and is in its place
when eight have come (`BitsRead`). That the number read is the conversion
requested follows from `Timing`: between request and reading lies a tick, and a
tick is longer than a conversion and a conversation together.

`TextProofs` on the link: `StringsFit`, `NumbersFitAboveZero`, `LinkRecovers`,
for all averages the sensors can have and any loss of bytes. The length of a
decimal number is a recursive function; a closed form with the same recursion is
written down, so the function chosen by its definition has the recursion too,
and bounds follow power of ten by power of ten: a payload has 51 to 72 bytes, a
request 163 to 184. `Jams` then counts what the module may still take for data
after a fault: never more than the connect, the announcement and the request of
the next upload.

`TextProofs` on the display, from the same lengths. `DrawOver` reduces the
controller's memory, which wraps, to a text laid over the cells (`Over`), and
`UpdateCells` a cycle to four texts laid one over another. `LabelsStay`: with
`BesideLabels` (an indoor temperature above -10 degrees and below 1000, at most
four digits of pressure before the point) each text ends before the next label,
whatever the outdoor temperature and the humidity are, so `LabelsInv` is
inductive. `ShowsLast`, under the same hypothesis, says what each field shows,
since a text erases no more than it covers. An outdoor temperature of two digits
covers its field, whatever stood there. An indoor temperature and a pressure
cover what another of a room has left (0.00 to 99.99 degrees, 100 to 9999.99
hPa), so they are right as long as `inRoom` is true, and the cells behind them
hold blanks (`EndsBlank`). A humidity covers nothing but itself: it is seen as
far as its three columns go, for any `uint8_t`, and behind it stands at most the
end of the longest one before (`widest`, `RestBlank`). Section 6 says what this
looks like.

`FirmwareProofs`: `NeverLocksOut`, `ConsistentMeansWhole`, `StartsOnlyWhole`,
`WritesAhead` and `FirmwareManagerImplementsStore`, for any number of partitions
and pages and any images. `StoreInv`: one copy can be trusted at any time once
there is one, and the program knows which. `WritebackInv`: while one copy is
written, the other is the old state or the first is already the new one.
`RamInv`: the copy in RAM differs from the flash only in the middle of a change.
`TransferInv`: while an image is being received, the blocks before the present
one are in the flash and the partition is marked inconsistent. `SettledInv`:
before the first of them it is consistent, whatever an earlier transfer left
unfinished, since an image may be a header only and end there. `WholeInv`, which
is what is wanted, follows; it and the two theorems from it hold for hosts that
number their blocks from zero (`FirstBlockNums`).

`XmodemProofs`: `NothingTwice`, `ReportsComplete`, `ReportsReceived`, for any
number of packets a byte can number, tries, errors of the receiver and of the
UARTs, timeouts and buffers. `ReceivedIsPrefix` holds whatever happens. For the
others the invariant is that while the ends speak in turn there is at most one
answer on its way and it is for the packet the sender is waiting for
(`OneAtATime`, `Acknowledged`, `Agreement`), since who is being spoken to has
just reset its timer (`Patience`). One error of the UART in a packet does not
end this: behind the answer to it there is at most the rest of the same packet
on the line (`tail`), which brings no answer of its own before the sender has
spoken again. A second error is out of turn while the first answer, or the copy
it has brought, is on its way.

Where a module has an `IInv`, its type invariant is part of it and proved with
it. Every invariant and action property of a run is proved. Only model-checked:
`UploadsRecur`, `Recovers` and `Ends`, since liveness is out of the prover's
reach.

## 5. Assumptions

- Ticks are not faster than the interrupt handler, and `timer_callback()` is
  never nested.
- The station starts in the state `Init` of `Station`: averages and
  `DS18B20_meas` uninitialised, the first cycle due at once.
- External parts are as the code uses them: DS18B20, BMP280, HD44780 and the ESP
  module are modelled from the conversations the code has with them.
- Every driver call of the station ends.
- A page of boot loader data that was torn by a power loss is detected by its
  CRC; a page that is not being written keeps its contents.
- The host of the firmware manager numbers its blocks from zero, which the code
  does not ask for (`ConsistentIsWhole`, `StartsWhole` only; see section 6). A
  reset the host asks for is a `PowerLoss` that hits no page.
- What is on a serial line arrives, and is answered, within the unit in which
  timeouts are counted.

## 6. Where code and documents disagree

Found by a run:

- *`update_state` is not volatile* (`main.c:57`, `main.c:178`): an optimising
  build may test a register for ever and the station stops after a cycle
  (`MCStation_release`).
- *An old humidity is reported again* (`average.c:40`): if no DHT11 reading of a
  window is valid, the average of an earlier window is uploaded
  (`MCStation_humidity`).
- *Negative outdoor averages* are stored with a sign and again as negative
  numbers in unsigned fields, and reported wrong (`average.c:91`;
  `MCOutdoor_frost`).

Met while modelling, and excepted by a property or outside the bounds of a run:

- -16, -32 and -48 degrees are read 16 degrees too warm: the carry between the
  bytes is lost (`DS18B20.c:29-32`). `DecodeExactUnlessCarry` excepts them.
- A host whose first block has the number 1 may end an image one block early:
  `dfu_core.c:69` accepts any number, `qfu.c:426` compares the last one with the
  number of blocks. With `FirstBlockNums = {1}` TLC finds `ConsistentIsWhole`
  violated.
- XMODEM packet 4 that has lost its SOH begins with its number, which is EOT:
  the receiver reports a truncated package as complete, while the comment at
  `xmodem.c:236-244` has a lost SOH discarded and answered with a NAK. The same
  holds for the rest of a packet that was cut. `OkMeansComplete` excepts both
  (`misread`).
- Two 'C's before the sender listens, timeouts of both ends at once, or two UART
  errors in one packet leave an answer on its way that is counted for the next
  packet (`crossed`): a packet lost then is never repeated. If it was the
  last, the receiver takes the EOT behind it for the end of a complete package;
  if it was the EOT, the sender reports an end the receiver never got.
- An image that is a header only is accepted (`qfu.c:225-232` compares the
  number of data blocks with the size of the partition, not with zero) and
  stores its version over the pages of the image before. `ConsistentIsWhole` and
  `StartsWhole` ask for that whole image then.
- The comment at `qfm.c:161-165` calls the versions of the partitions undefined
  after an application erase; the code leaves them as they were.
- The first provisioning is the one write without a second copy: after a power
  loss in it the boot loader stops for good (`HaltsOnlyUnprovisioned` says that
  it is the only such case).
- The first update draws an uninitialised outdoor temperature (`main.c:231`);
  `Display` starts with `Uninitialised` and its property excepts it.
- An indoor temperature of -10 degrees or less is drawn as `-10.-05C`, two
  characters too long, and erases the label `O` for good (`GUI.c:29`).
- Humidity is drawn without a trailing blank (`GUI.c:55`): from 10 percent to 9
  leaves `9%%`. A failed reading returns 253 or 254 (`DHT11.c:137-147`), which
  is drawn like a humidity and pushes the `%` off the line; the next reading of
  two digits brings it back, after one of a single digit a digit stays behind
  (`9%4`). `ShowsMeasurements` says what may be left behind (`widest`).
- An indoor temperature below zero is taken for unsigned by `utoa()`; its ten
  digits and terminator do not fit `utoa_buffer[8]` (`ESP.c:62`).
  `OverrunOnlyBelowZero` says it is the only such case.
- A reset while the display holds the upper half of a byte other than 3 leaves
  program and display half a byte apart: the initialisation sends four-bit
  halves where the datasheet's sequence has single pulses (`HD44780.c:47-58`).
  `torn` of `LcdBus` is this case.
- `I2C_init()` overwrites STATUS_INIT_FAILED with STATUS_OK (`I2C.c:34-38`), and
  nobody reads the status at all: `I2C_error()` has no caller.
- The two bytes BMP280_init() writes from register 0xF4 on count on the sensor
  advancing its register while it is written to (`BMP280.c:88`); if it takes
  pairs of register and value instead, as its datasheet has it, the second is
  never set.

## 7. What is not modelled, and why

- GPIO, UART and pin setup: constants written once.
- The drivers and register definitions under `bsp/`, Intel's vendored library
  and most of the lines of the repository, except for the failures of the I2C
  driver. They poll without a limit, so a bus that stays busy stops the station;
  whether it does is up to the hardware.
- Microseconds: the length of a 1-Wire slot, the interrupt that may stretch one,
  the execution time of a display instruction. They depend on the compiler and
  on hardware the repository does not describe.
- The frame of the DHT11: which bit a sample finds depends on how long a read of
  the pin takes, which neither the code nor a document of the repository states.
  A reading is valid or an error in `Station`. The compensation of the BMP280:
  32-bit products, beyond the integers of TLC.
- The packets `qda.c` wraps around the requests of a host: one request at a time
  is carried to `dfu_core.c` and back. USB (`usb_dfu.c`), which this board has
  not. Authentication: a hash is right or wrong.
- The second stage and the trimming of the clocks: a jump, and a loop against a
  hardware counter.

## 8. Plan

Done: `Uplink`, `Station`, `OutdoorTemperature`, `LcdBus`, `I2cSensor`,
`OneWire`, `Display`, `EspLink`, `BlStore`, `FirmwareManager` and `Xmodem`, all
with proofs.

Next, in this order:

1. The display as one: `Display` writing through `LcdBus`, with the cells of the
   controller refined by the bytes that arrive.
2. `EspLink` under `Station`: the upload of `Station` refined by the three calls
   of `EspLink`, so that a lost upload and its successor are seen in ticks.
3. `FirmwareManager` over `Xmodem`: a request as a package that may be delivered
   though its sender gave up, and repeated.
4. The frame of the DHT11, once the time of a pin read is known.
