------------------------------- MODULE MCOneWire -------------------------------
(***************************************************************************)
(* Ticks of four parts of 250 ms, a conversion of three and conversations  *)
(* over a boundary between two parts, with temperatures of either sign.    *)
(***************************************************************************)
EXTENDS OneWireInvariant

ToWord(n) == [k \in 0 .. 15 |-> (n \div 2^k) % 2]

\* 25.0625 and -10.125 degrees
TwoTemperatures == {ToWord(401), ToWord(65374)}

\* 85 degrees
EightyFive == ToWord(1360)
=============================================================================
