------------------------------ MODULE MCEspLink ------------------------------
EXTENDS EspInvariant

\* The shortest and the longest averages, on both sides of zero.
AllTemperatures == {-4000, 0, 8500}
AllPressures == {0, 110000}
AllOutdoors == {"POSITIVE", "NEGATIVE"} \X {6, 12500}
AllHumidities == {0, 100}

\* Any part of a request; the longest is 184 bytes.
SomeLosses == 0 .. 184
=============================================================================
