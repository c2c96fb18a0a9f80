-------------------------- MODULE DisplayInvariant --------------------------
(***************************************************************************)
(* The inductive invariants behind the results of Display, and the numbers *)
(* they hold for.                                                          *)
(***************************************************************************)
EXTENDS Display

\* Numbers that leave the labels alone: an indoor temperature above -10.00
\* degrees and below 1000, and a pressure of four digits before the point.
\* Outdoor temperatures and humidities may be any their structs can hold.
ShortTemperature(t) == -1000 < t /\ t < 100000
ShortPressure(p) == p < 1000000

BesideLabels ==
  /\ \A t \in Temperatures : ShortTemperature(t)
  /\ \A p \in Pressures : ShortPressure(p)

\* Columns 10 and 11 of the first line and column 14 of the second, which get
\* nothing but trailing blanks from the numbers of a room.
EndsBlank == Seen(1, 10, 11) = <<Blank, Blank>> /\ Seen(2, 14, 14) = <<Blank>>

\* The columns of the humidity that none has reached.
RestBlank == \A i \in 1 .. 3 : widest + 1 < i => Seen(2, 18, 20)[i] = Blank

LabelsInv == ScreenTypeOK /\ LabelsKept

DisplayInv == /\ LabelsInv /\ RestBlank /\ ShowsMeasurements
              /\ inRoom => EndsBlank
=============================================================================
