------------------------------- MODULE Display -------------------------------
(***************************************************************************)
(* What GUI.c makes the 20x2 display show.  The labels are drawn once, the *)
(* numbers beside them over and over again, each at a position of its own  *)
(* and with nothing but a trailing blank to erase what was there before.   *)
(*                                                                         *)
(* The memory of the display has 40 cells a line, of which 20 can be seen. *)
(* A cell holds the kind of its character: what number the digits make up  *)
(* plays no part here, how many there are does.                            *)
(***************************************************************************)
EXTENDS CArithmetic, Sequences

CONSTANTS
  Temperatures,  \* what BMP280_get_measurement() may return, in 1/100 degree
  Pressures,     \* ... in Pa
  Outdoors,      \* what DS18B20_get_temperature() may return
  Humidities     \* what DHT11_get_measurement() may return

\* DS18B20_meas before its first readout: main() does not initialise it.
CONSTANT Uninitialised

Signs == {"POSITIVE", "NEGATIVE"}
Outdoor == [sign : Signs, integer : 0 .. 255, fraction : 0 .. 255]

ASSUME DisplayAssumption ==
  /\ Temperatures \subseteq Int
  /\ Pressures \subseteq Nat
  /\ Outdoors \subseteq Outdoor
  /\ Humidities \subseteq 0 .. 255
  /\ Uninitialised \in Outdoor

VARIABLES
  screen,       \* the cells and the cursor of the display
  temperature,  \* BMP280_meas ...
  pressure,
  outdoor,      \* DS18B20_meas
  humidity,     \* DHT11_meas
  updated,      \* history: GUI_update() was called with these
  inRoom,       \* history: no BMP280_meas but those of a room was drawn
  widest        \* history: the most digits a humidity drawn has had

gui == <<screen, temperature, pressure, outdoor, humidity, updated, inRoom, widest>>

-----------------------------------------------------------------------------
\* The display (HD44780.c and the controller it drives).

Rows == 2
Columns == 20
LineLength == 40
Cells == 0 .. Rows * LineLength - 1

Blank == " "
Glyphs == {Blank, "I", "P", "O", "H", ":", "digit", "-", ".", "C", "h", "a", "%"}

RowsFirstAddr == <<0, 64>>

\* The cell at an address: the second line starts at 0x40.
CellAt(address) == IF address >= 64 THEN address - 64 + LineLength ELSE address

Clamped(n, last) == IF n < 1 THEN 1 ELSE IF n > last THEN last ELSE n

\* x is the row, y the column.
HD44780_gotoxy(s, x, y) ==
  [s EXCEPT !.cursor =
     CellAt(RowsFirstAddr[Clamped(x, Rows)] + Clamped(y, Columns) - 1)]

\* Every character goes to the cell of the cursor, which moves on to the next.
HD44780_write_chars(s, string) ==
  LET Position(cell) == ((cell - s.cursor) % (Rows * LineLength)) + 1
  IN [cells |-> [c \in Cells |-> IF Position(c) <= Len(string)
                                   THEN string[Position(c)] ELSE s.cells[c]],
      cursor |-> (s.cursor + Len(string)) % (Rows * LineLength)]

HD44780_write_string(s, string) == HD44780_write_chars(s, string)

HD44780_clear ==
  [cells |-> [c \in Cells |-> Blank], cursor |-> CellAt(RowsFirstAddr[1])]

DigitString(length) == [i \in 1 .. length |-> "digit"]

Longer(a, b) == IF a > b THEN a ELSE b

\* Mutant: no leading zeros.
IntegerUnpadded(number, required_length) ==
  (IF number < 0 THEN <<"-">> ELSE <<>>)
    \o DigitString(Digits[IF number < 0 THEN -number ELSE number])

\* What HD44780_write_integer() writes: a sign, leading zeros, the digits.
Integer(number, required_length) ==
  IF number < 0
    THEN <<"-">> \o DigitString(Longer(Digits[-number], required_length))
    ELSE DigitString(Longer(Digits[number], required_length))

-----------------------------------------------------------------------------
\* GUI.c

\* Move to a position and write there.
Draw(s, x, y, string) == HD44780_write_string(HD44780_gotoxy(s, x, y), string)

Label(letter) == <<letter, ":", Blank>>

GUI_draw_layout(s) ==
  LET i == HD44780_write_string(s, Label("I"))
      p == Draw(i, 2, 1, Label("P"))
      o == Draw(p, 1, 12, Label("O"))
  IN Draw(o, 2, 15, Label("H"))

\* A number of hundredths, as integer and fraction.
Split(n) == Integer(CDiv(n, 100), 0) \o <<".">> \o Integer(CMod(n, 100), 2)

\* Mutant: no blank after the unit.
GUI_draw_BMP280NoBlank(s, t, p) ==
  Draw(Draw(s, 1, 4, Split(t) \o <<"C">>), 2, 4, Split(p) \o <<"h", "P", "a">>)

GUI_draw_BMP280(s, t, p) ==
  LET indoor == Draw(s, 1, 4, Split(t) \o <<"C", Blank>>)
  IN Draw(indoor, 2, 4, Split(p) \o <<"h", "P", "a", Blank>>)

GUI_draw_DS18B20(s, o) ==
  Draw(s, 1, 14, <<IF o.sign = "NEGATIVE" THEN "-" ELSE Blank>>
                 \o Integer(o.integer, 0) \o <<".">> \o Integer(o.fraction, 2)
                 \o <<"C", Blank>>)

\* Mutant: one column further to the left.
GUI_draw_DHT11Left(s, h) == Draw(s, 2, 17, Integer(h, 0) \o <<"%">>)

GUI_draw_DHT11(s, h) == Draw(s, 2, 18, Integer(h, 0) \o <<"%">>)

-----------------------------------------------------------------------------
\* Numbers that cover what was there before: no two lengths of the temperatures,
\* or of the pressures, of a room differ by more than the trailing blank.
RoomTemperature(t) == 0 <= t /\ t < 10000
RoomPressure(p) == 10000 <= p /\ p < 1000000

\* GUI_init(): the layout on a cleared display.
GUI_init ==
  /\ screen = GUI_draw_layout(HD44780_clear)
  /\ temperature \in Temperatures
  /\ pressure \in Pressures
  /\ outdoor = Uninitialised
  /\ humidity \in Humidities
  /\ updated = FALSE /\ inRoom = TRUE /\ widest = 0

\* One cycle of the main loop, as far as the display sees it: the sensors are
\* read (the DS18B20 in every other cycle), then GUI_update() draws all.
GUI_update ==
  /\ temperature' \in Temperatures
  /\ pressure' \in Pressures
  /\ outdoor' \in Outdoors \cup {outdoor}
  /\ humidity' \in Humidities
  /\ screen' = GUI_draw_DHT11(
                 GUI_draw_DS18B20(
                   GUI_draw_BMP280(screen, temperature', pressure'),
                   outdoor'),
                 humidity')
  /\ updated' = TRUE
  /\ inRoom' = (inRoom /\ RoomTemperature(temperature') /\ RoomPressure(pressure'))
  /\ widest' = Longer(widest, Digits[humidity'])

DisplaySpec == GUI_init /\ [][GUI_update]_gui

-----------------------------------------------------------------------------
ScreenTypeOK ==
  /\ screen \in [cells : [Cells -> Glyphs], cursor : Cells]
  /\ temperature \in Temperatures
  /\ pressure \in Pressures
  /\ outdoor \in Outdoors \cup {Uninitialised}
  /\ humidity \in Humidities
  /\ updated \in BOOLEAN /\ inRoom \in BOOLEAN
  /\ widest \in 0 .. 3

\* What can be seen from column first to column last of a row.
Seen(x, first, last) ==
  [i \in 1 .. last - first + 1 |->
     screen.cells[(x - 1) * LineLength + first - 1 + i - 1]]

\* "Clear display and draw static elements of the view" (GUI.c:65): they are
\* drawn once, so no number may ever reach them.
LabelsKept ==
  /\ Seen(1, 1, 3) = Label("I")
  /\ Seen(2, 1, 3) = Label("P")
  /\ Seen(1, 12, 13) = <<"O", ":">>
  /\ Seen(2, 15, 17) = Label("H")

\* A number as a reader expects it: a sign, the integer, two decimals.
Decimal(n) ==
  LET size == IF n < 0 THEN -n ELSE n
  IN (IF n < 0 THEN <<"-">> ELSE <<>>)
       \o DigitString(Digits[size \div 100]) \o <<".", "digit", "digit">>

\* The text is all there is to see between two columns.
Shows(x, first, last, text) ==
  /\ Len(text) <= last - first + 1
  /\ Seen(x, first, last) = [i \in 1 .. last - first + 1 |->
                               IF i <= Len(text) THEN text[i] ELSE Blank]

\* The text is seen, cut at the last column, and blanks behind it, but for what
\* is left of the longest text there has been.
ShowsOver(x, first, last, text, longest) ==
  \A i \in 1 .. last - first + 1 :
    /\ i <= Len(text) => Seen(x, first, last)[i] = text[i]
    /\ longest < i => Seen(x, first, last)[i] = Blank

\* Two digits before the point and two behind it fill the rest of the line.
OutdoorDigits(o) == o.integer < 100 /\ o.fraction < 100

\* "Refreshes GUI with new measurements" (GUI.h:27): what is seen is what was
\* measured last, complete and with nothing left of what was shown before.  The
\* outdoor temperature erases whatever stood there, an indoor temperature and a
\* pressure what another one of a room has left.  A humidity erases nothing: as
\* long as none had more digits it stands alone, afterwards the end of the
\* longest stays behind it, and three digits, as of the codes 253 and 254 for a
\* failed reading (DHT11.c:137-147), push the % off the line.
ShowsMeasurements ==
  updated =>
    /\ inRoom => /\ Shows(1, 4, 11, Decimal(temperature) \o <<"C">>)
                 /\ Shows(2, 4, 14, Decimal(pressure) \o <<"h", "P", "a">>)
    /\ outdoor # Uninitialised /\ OutdoorDigits(outdoor) =>
         Shows(1, 14, 20, <<IF outdoor.sign = "NEGATIVE" THEN "-" ELSE Blank>>
                          \o Decimal(outdoor.integer * 100 + outdoor.fraction)
                          \o <<"C">>)
    /\ ShowsOver(2, 18, 20, DigitString(Digits[humidity]) \o <<"%">>, widest + 1)
=============================================================================
