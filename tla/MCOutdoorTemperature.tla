------------------------ MODULE MCOutdoorTemperature ------------------------
EXTENDS OutdoorTemperature

\* Both ends of the range, both sides of zero, of a degree and of the byte
\* border at 16 degrees, without the multiples of -16 degrees.
MixedReadings == {-880, -257, -255, -17, -16, -1, 0, 1, 15, 255, 256, 2000}

\* With them.
FrostReadings == MixedReadings \cup {-768, -256}
=============================================================================
